---------------------------- MODULE Expressions ----------------------------
(***************************************************************************)
(* Expressions and data structures of the simulation language              *)
(* (dfsm/dfsm-ast-expression*.c, dfsm/dfsm-ast-data-structure.c,           *)
(* dfsm/dfsm-ast-variable.c): what is refused when a description is        *)
(* loaded, the type an expression has, the values it evaluates to, and how *)
(* a value is assigned to a structure of variables.                        *)
(*                                                                         *)
(* An expression is <<"data", d>>, <<"binary", op, l, r>>, <<"not", e>> or *)
(* <<"call", f, e>>.  A data structure d has a kind (a character of a      *)
(* signature, "e" for a dictionary, "h" for a file descriptor or           *)
(* "variable"), a val, a type annotation and whether it is weighted, that  *)
(* is to be fuzzed; how a literal is fuzzed is the subject of Fuzzing.     *)
(* Strings and doubles are sequences of tokens; a variable is <<scope,     *)
(* name>>.                                                                 *)
(*                                                                         *)
(* An environment is a record of the types of the variables that exist,    *)
(* the values of those that have one, and whether fuzzing is enabled.      *)
(*                                                                         *)
(* The implementations of the virtual functions of Nodes have the names of *)
(* the C functions (check, evaluate, ...); for what is inside an           *)
(* expression they call the virtual function (Check, Evaluate, ...).       *)
(***************************************************************************)
EXTENDS Builtins, Nodes, Arithmetic

CONSTANTS
    GreatestValue,    \* of each integer type
    FuzzedValues,     \* what the literals of a basic type may be fuzzed to
    TypeStrings,      \* g_variant_type_string_is_valid ()
    Signatures,       \* g_variant_is_signature ()
    IsParsed(_, _)    \* what the parser makes, nested no deeper than a number

NoAnnotation == <<"no annotation">>
InvalidType  == <<"invalid">>        \* an annotation that is not a type
InvalidToken == "\\xff"              \* not UTF-8
TooWide      == <<"1e999">>          \* no double

ASSUME WidthsAssumption ==
    \A t \in IntegerTypes : GreatestValue[t] \in Nat \ {0}

\* The payloads of a basic type.
InRange(t, p) ==
    CASE t \in UnsignedTypes -> p \in 0..GreatestValue[t]
      [] t \in SignedTypes   -> p \in Least(GreatestValue[t])..GreatestValue[t]
      [] t = "b" -> p \in BOOLEAN
      [] t = "o" -> p \in ObjectPaths
      [] t = "g" -> p \in Signatures
      [] t = "s" -> IsSequence(p)
      [] t = "d" -> TRUE

\* What a literal is fuzzed to is of its type.  Fuzzing shows it of integers,
\* strings, paths and booleans; of signatures the code asserts it, and any
\* double is one.
ASSUME FuzzedAssumption ==
    \A t \in BasicTypes : \A p \in FuzzedValues[t] : InRange(t, p)

NumericOperators  == {"*", "/", "%", "+", "-"}
OrderOperators    == {"<", "<=", ">", ">="}
EqualityOperators == {"==", "!="}

IsData(e)   == e[1] = "data"

\* The keys and values of a dictionary, in turn.
Entries(d) ==
    [k \in 1..(2 * Len(d.val)) |-> d.val[(k + 1) \div 2][IF k % 2 = 1 THEN 1 ELSE 2]]

\* The expressions directly inside another, in the order they are checked.
Children(e) ==
    CASE e[1] = "binary" -> <<e[3], e[4]>>
      [] e[1] = "not"    -> <<e[2]>>
      [] e[1] = "call"   -> <<e[3]>>
      [] IsData(e)       ->
           CASE e[2].kind \in {"a", "r"} -> e[2].val
             [] e[2].kind = "v"          -> <<e[2].val>>
             [] e[2].kind = "e"          -> Entries(e[2])
             [] OTHER                    -> <<>>
-----------------------------------------------------------------------------
(* What the parser makes.                                                  *)

Kinds == BasicTypes \cup {"a", "r", "e", "v", "h", "variable"}

\* Whether a type annotation is one is checked later, but a type without
\* wildcards is one that values can have.
DataIsParsed(d) ==
    /\ d = [kind |-> d.kind, val |-> d.val, annotation |-> d.annotation,
            weighted |-> d.weighted]
    /\ d.kind \in Kinds /\ d.weighted \in BOOLEAN
    /\ (d.annotation \notin {NoAnnotation, InvalidType} /\ IsDefinite(d.annotation)) =>
         IsType(d.annotation)
    /\ d.kind \in IntegerTypes => d.val \in Int
    /\ d.kind \in {"a", "r", "e", "s"} => IsSequence(d.val)
    /\ d.kind = "b" => d.val \in BOOLEAN
    /\ d.kind = "h" => d.val \in 0..GreatestValue["u"]

Operators == NumericOperators \cup OrderOperators \cup EqualityOperators \cup {"&&", "||"}

is_parsed(n, e) ==
    /\ n > 0
    /\ CASE e[1] = "data"   -> e = <<"data", e[2]>> /\ DataIsParsed(e[2])
         [] e[1] = "binary" -> e = <<"binary", e[2], e[3], e[4]>> /\ e[2] \in Operators
         [] e[1] = "not"    -> e = <<"not", e[2]>>
         [] e[1] = "call"   -> e = <<"call", e[2], e[3]>>
         [] OTHER           -> FALSE
    /\ \A k \in DOMAIN Children(e) : IsParsed(n - 1, Children(e)[k])
-----------------------------------------------------------------------------
(* Before names are known: pre_check_and_register().                       *)

\* An annotation decides which kind of integer or of string a literal is.
Kind(d) ==
    IF d.kind \in IntegerTypes /\ d.annotation[1] \in IntegerTypes
      THEN d.annotation[1]
    ELSE IF <<d.kind, d.annotation>> \in {<<"s", <<"o">>>>, <<"s", <<"g">>>>}
      THEN d.annotation[1]
    ELSE d.kind

\* parse_unsigned_integer (): strtoull () takes a minus sign, and wraps.
Unwrapped(n) == IF n < 0 THEN GreatestValue["t"] + 1 + n ELSE n

Literal(d) == IF Kind(d) \in UnsignedTypes THEN Unwrapped(d.val) ELSE d.val

DataIsSane(d) ==
    LET k == Kind(d)
    IN  /\ d.annotation # InvalidType
        /\ k \in UnsignedTypes => Literal(d) \in 0..GreatestValue[k]
        /\ k \in SignedTypes   => d.val \in (-GreatestValue[k] - 1)..GreatestValue[k]
        /\ k = "d"        => d.val # TooWide
        /\ k = "s"        => ~Contains(d.val, InvalidToken)
        /\ k = "o"        => d.val \in ObjectPaths
        /\ k = "g"        => d.val \in TypeStrings
        /\ k = "variable" => d.val[2] \in ValidNames

pre_check(e) ==
    /\ IsData(e) => DataIsSane(e[2])
    /\ e[1] = "call" => e[2] \in FunctionNames
    /\ \A k \in DOMAIN Children(e) : PreCheck(Children(e)[k])
-----------------------------------------------------------------------------
(* Types: calculate_type() and check().                                    *)

\* The type of a tuple, an array or a dictionary whose parts have the types ts.
ContainerType(d, ts) ==
    CASE d.kind = "r" -> Tuple(ts)
      [] d.kind = "a" -> Array(IF ts = <<>> THEN AnyType ELSE Supertype(ts, AnyType))
      [] d.kind = "e" ->
           IF ts = <<>> THEN AnyDict
           ELSE Dict(Supertype([k \in DOMAIN d.val |-> ts[2 * k - 1]], AnyBasic),
                     Supertype([k \in DOMAIN d.val |-> ts[2 * k]], AnyType))

\* __calculate_type (): without regard to an annotation.
InferredType(d, ts, types) ==
    CASE d.kind = "v" -> <<"v">>
      [] d.kind = "h" -> <<"u">>
      [] d.kind = "variable" -> IF d.val \in DOMAIN types THEN types[d.val] ELSE Broken
      [] d.kind \in BasicTypes -> <<Kind(d)>>
      [] d.kind \in {"r", "a", "e"} ->
           IF Contains(ts, Broken) THEN Broken ELSE ContainerType(d, ts)

\* _calculate_type (): an annotation makes it definite, and may not contradict.
DataType(d, ts, types) ==
    LET inferred == InferredType(d, ts, types)
        type     == IF d.annotation = NoAnnotation THEN inferred ELSE d.annotation
    IN  IF inferred = Broken THEN Broken
        ELSE IF IsSubtype(type, inferred) /\ IsDefinite(type) THEN type ELSE NoType

\* The type of an expression whose children have the types ts.
TypeOver(e, ts, types) ==
    CASE IsData(e)    -> DataType(e[2], ts, types)
      [] e[1] = "not" -> <<"b">>
      [] e[1] = "binary" -> IF e[2] \in NumericOperators THEN ts[1] ELSE <<"b">>
      [] e[1] = "call" ->
           IF ts[1] = Broken THEN Broken ELSE function_calculate_type(e[2], ts[1])

\* Asserts, for every expression inside another, that it has a type.
ChildTypes(e, types) == [k \in DOMAIN Children(e) |-> CalculateType(Children(e)[k], types)]

TypeOf(e, types) == TypeOver(e, ChildTypes(e, types), types)

calculate_type(e, types) ==
    LET t == TypeOf(e, types) IN IF t = NoType THEN Broken ELSE t

\* The first case of the switch falls through to the second, so that all that
\* is asked of the operands of an arithmetic operator is that they agree.
Typechecks(op, l, r) ==
    IF op \in {"&&", "||"} THEN l = <<"b">> /\ r = <<"b">> ELSE l = r

\* The verdict on something that must have a type.
OfType(t) == CASE t = Broken -> "aborted" [] t = NoType -> "refused" [] OTHER -> "ok"

\* The verdict on an expression whose children, of types ts, are right.
CheckOver(e, ts, types) ==
    CASE IsData(e) ->
           IF e[2].kind = "variable" /\ e[2].val \notin DOMAIN types THEN "refused"
           ELSE OfType(DataType(e[2], ts, types))
      [] e[1] = "binary" -> Holds(Typechecks(e[2], ts[1], ts[2]))
      [] e[1] = "not"    -> Holds(ts[1] = <<"b">>)
      [] e[1] = "call"   -> OfType(function_calculate_type(e[2], ts[1]))

check(e, types) ==
    LET children == FirstFault([k \in DOMAIN Children(e) |-> Check(Children(e)[k], types)])
    IN  IF children # "ok" THEN children ELSE CheckOver(e, ChildTypes(e, types), types)
-----------------------------------------------------------------------------
(* Values: evaluate() and to_variant().                                    *)

\* The results of an arithmetic operator on integers of type t.
Calculate(op, t, l, r) ==
    LET max  == GreatestValue[t]
        wide == t \in WideTypes
    IN  IF t \in UnsignedTypes
        THEN CASE op = "*" -> {UnsignedTimes(l, r, max)}
               [] op = "/" -> {UnsignedDivide(l, r, max)}
               [] op = "%" -> {UnsignedModulus(l, r)}
               [] op = "+" -> {UnsignedPlus(l, r, max)}
               [] op = "-" -> {UnsignedMinus(l, r)}
        ELSE CASE op = "*" -> SignedTimes(l, r, max, wide)
               [] op = "/" -> {SignedDivide(l, r, max)}
               [] op = "%" -> SignedModulus(l, r, max, wide)
               [] op = "+" -> {SignedPlus(l, r, max)}
               [] op = "-" -> {SignedMinus(l, r, max)}

\* Arithmetic on doubles is not computed: its result is a formula.
Numeric(op, l, r) ==
    LET t == TypeOfValue(l)[1]
    IN  CASE t \in IntegerTypes ->
               {Variant(<<t>>, n) : n \in Calculate(op, t, Payload(l), Payload(r))}
          [] t = "d" -> {Variant(<<"d">>, <<op, Payload(l), Payload(r)>>)}
          [] OTHER   -> {Aborts("operand is not numeric")}

InOrder(op, c) ==
    CASE op = "<" -> c < 0 [] op = "<=" -> c <= 0 [] op = ">" -> c > 0 [] op = ">=" -> c >= 0

Operate(op, l, r) ==
    CASE op \in NumericOperators -> Numeric(op, l, r)
      [] op \in OrderOperators   -> {Boolean(InOrder(op, c)) : c \in Comparisons(l, r)}
      [] op = "==" -> {Boolean(l = r)}
      [] op = "!=" -> {Boolean(l # r)}
      [] op = "&&" -> {Boolean(Payload(l) /\ Payload(r))}
      [] op = "||" -> {Boolean(Payload(l) \/ Payload(r))}

\* Mutant: whatever the switch says.
Weighted(d, env) == d.weighted

ShouldBeFuzzed(d, env) == env.fuzzing /\ d.weighted

\* A signature was checked to be a type, which may have wildcards: of such a
\* one GLib makes nothing, and fuzzing asserts that it is a signature.
Scalar(k, val, fuzzed) ==
    IF k # "g" \/ val \in Signatures THEN Variant(<<k>>, val)
    ELSE IF fuzzed THEN Aborts("not a signature")
    ELSE Null

ScalarToVariant(d, env) ==
    LET fuzzed == ShouldBeFuzzed(d, env)
    IN  {Scalar(Kind(d), val, fuzzed) :
           val \in {Literal(d)} \cup (IF fuzzed THEN FuzzedValues[Kind(d)] ELSE {})}

\* What an element of an array becomes, if it has the given outcomes: nothing,
\* itself, two of it, and one that is mutated after them.
Elements(outcomes, mutants, fuzzed) ==
    LET Cloned(v) == {<<v>>} \cup (IF fuzzed THEN {<<v, v>>} ELSE {})
    IN  Then(outcomes, LAMBDA v :
               {Sequence(c) : c \in Cloned(v)}
                 \cup Then(mutants, LAMBDA m : {Sequence(Append(c, m)) : c \in Cloned(v)}))
          \cup (IF fuzzed THEN {Sequence(<<>>)} ELSE {})

\* What an entry of a dictionary becomes: nothing, itself, and one with a
\* mutated key, and perhaps a mutated value, after it.
DictEntries(keys, values, newKeys, newValues, fuzzed) ==
    LET New(k, v) == EntryOf(Entry(TypeOfValue(k), TypeOfValue(v)), k, v)
    IN  Then(keys, LAMBDA k :
          Then(values, LAMBDA v :
            {Sequence(<<New(k, v)>>)}
              \cup Then(newKeys, LAMBDA key :
                     {Sequence(<<New(k, v), New(key, v)>>)}
                       \cup Then(newValues, LAMBDA w :
                              {Sequence(<<New(k, v), New(key, w)>>)}))))
          \cup (IF fuzzed THEN {Sequence(<<>>)} ELSE {})

\* The builder of a container refuses children of another type, with a warning.
Fits(v, t) == IsSubtype(TypeOfValue(v), t)

Fitting(children, t) ==
    FlattenSeq([k \in DOMAIN children |-> IF Fits(children[k], t) THEN <<children[k]>> ELSE <<>>])

\* A container of type t, made of what each of its parts becomes.
Built(t, parts, fuzzed) ==
    Then(InTurn(parts), LAMBDA s :
           {Variant(t, Fitting(FlattenSeq([k \in DOMAIN Payload(s) |-> Payload(Child(s, k))]),
                               t[2]))})
      \cup (IF fuzzed THEN {Variant(t, <<>>)} ELSE {})

\* A variant is fuzzed to one of another type.
OfAnotherType(v) ==
    IF TypeOfValue(v) = <<"u">>
      THEN {Variant(<<"s">>, s) : s \in FuzzedValues["s"] \cup {<<>>}}
      ELSE {Variant(<<"u">>, n) : n \in FuzzedValues["u"] \cup {0}}

\* A dictionary's entry k, from its keys and values in turn.
EntryOver(d, k, parts, mutants, fuzzed) ==
    LET Fuzzed(j, other) == IF IsData(Entries(d)[other]) THEN mutants[j] ELSE {}
    IN  DictEntries(parts[2 * k - 1], parts[2 * k], Fuzzed(2 * k - 1, 2 * k),
                    Fuzzed(2 * k, 2 * k - 1), fuzzed)

\* A data structure of type t, from the outcomes of evaluating its parts and,
\* if it is fuzzed, of mutating them.
to_variant(d, t, env, parts, mutants, fuzzed) ==
    CASE d.kind = "a" ->
           Built(t, [k \in DOMAIN d.val |-> Elements(parts[k], mutants[k], fuzzed)], fuzzed)
      [] d.kind = "e" ->
           Built(t, [k \in DOMAIN d.val |-> EntryOver(d, k, parts, mutants, fuzzed)], fuzzed)
      [] d.kind = "r" -> Then(InTurn(parts), LAMBDA s : {Variant(t, Payload(s))})
      [] d.kind = "v" ->
           Then(parts[1], LAMBDA v :
                  {Variant(<<"v">>, w) :
                     w \in {v} \cup (IF fuzzed THEN OfAnotherType(v) ELSE {})})
      [] d.kind = "h" -> {Variant(<<"u">>, d.val)}
      [] d.kind = "variable" ->
           {IF d.val \in DOMAIN env.values THEN env.values[d.val]
            ELSE Aborts("variable without value")}
      [] OTHER -> ScalarToVariant(d, env)

\* An expression of type t, whose children have the types ts.
ValueOver(e, t, ts, env, parts, mutants, fuzzed) ==
    CASE IsData(e) -> to_variant(e[2], t, env, parts, mutants, fuzzed)
      [] e[1] = "binary" ->
           Then(parts[1], LAMBDA l : Then(parts[2], LAMBDA r : Operate(e[2], l, r)))
      [] e[1] = "not" -> Then(parts[1], LAMBDA v : {Boolean(~Payload(v))})
      [] e[1] = "call" ->
           function_evaluate(e[2], ts[1], parts[1],
                             IsData(e[3]) /\ e[3][2].kind = "variable")

\* fuzz_data_structure (): a literal is made to be fuzzed, and is never Null.
MoreWeighted(e) == <<"data", [e[2] EXCEPT !.weighted = TRUE]>>

\* What the class of e implements; of a data structure, to_variant ().
class_evaluate(e, env) ==
    LET children == Children(e)
        fuzzed   == IsData(e) /\ ShouldBeFuzzed(e[2], env)
        Mutated(c) == IF fuzzed /\ IsData(c) THEN {MoreWeighted(c)} ELSE {}
    IN  ValueOver(e, TypeOf(e, env.types), ChildTypes(e, env.types), env,
                  [k \in DOMAIN children |-> Evaluate(children[k], env)],
                  [k \in DOMAIN children |->
                     UNION {Evaluate(m, env) : m \in Mutated(children[k])}],
                  fuzzed)

\* dfsm_ast_expression_evaluate () asserts that there is a value.
evaluate(e, env) ==
    {IF IsNull(o) THEN Aborts("not a signature") ELSE o : o \in class_evaluate(e, env)}
-----------------------------------------------------------------------------
(* Assignments: is_variable() and set_from_variant().                      *)

\* Whether the leaves are variables; the keys of a dictionary are free.
is_variable(e) ==
    /\ IsData(e)
    /\ \/ e[2].kind = "variable"
       \/ e[2].kind \in {"a", "r"} /\ \A k \in DOMAIN e[2].val : IsVariable(e[2].val[k])
       \/ e[2].kind = "e" /\ \A k \in DOMAIN e[2].val : IsVariable(e[2].val[k][2])

\* The outcomes of an assignment: the values of the variables after it.
Values(values) == Variant(<<"values">>, values)

\* Mutant: the type of the value is not looked at.
SetUnasserted(name, env, v) ==
    Values([n \in DOMAIN env.values \cup {name} |-> IF n = name THEN v ELSE env.values[n]])

set_variable_value(name, env, v) ==
    IF IsSubtype(TypeOfValue(v), env.types[name])
      THEN Values([n \in DOMAIN env.values \cup {name} |-> IF n = name THEN v ELSE env.values[n]])
      ELSE Aborts("value of another type")

\* The assignment of v to e after others.
SetNext(e, v, env, done) ==
    Then(done, LAMBDA s : SetFromVariant(e[2], [env EXCEPT !.values = Payload(s)], v))

\* Mutant: the last value to the first expression.
SetInReverse(es, env, vs) ==
    LET done[k \in 0..Len(vs)] ==
          IF k = 0 THEN {Values(env.values)}
          ELSE SetNext(es[Len(vs) + 1 - k], vs[k], env, done[k - 1])
    IN  done[Len(vs)]

\* Assignments of vs[k] to es[k] for each k, each seeing those before it.
SetInTurn(es, env, vs) ==
    LET done[k \in 0..Len(vs)] ==
          IF k = 0 THEN {Values(env.values)} ELSE SetNext(es[k], vs[k], env, done[k - 1])
    IN  done[Len(vs)]

\* The expression a key stands for: the last one given for it.
Assignee(d, keys, key) ==
    LET places == {k \in DOMAIN keys : keys[k] = key}
    IN  d.val[CHOOSE k \in places : \A j \in places : j <= k][2]

\* Mutant: the value of an entry is read with another index than its key.
SetEntryFirst(d, env, v, keys) ==
    LET entries == [k \in DOMAIN Contents(v) |-> Contents(Contents(v)[k])]
        n       == Len(keys) + 1
    IN  IF n \notin DOMAIN entries \/ ~Contains(keys, entries[n][1]) THEN {Aborts("assigned entry")}
        ELSE {set_variable_value(Assignee(d, keys, entries[n][1])[2].val, env, entries[1][2])}

\* For each entry of the value, the entry taken is always the one after as
\* many as d has.
SetEntry(d, env, v, keys) ==
    LET n     == Len(Contents(v))
        entry == Contents(Contents(v)[Len(keys) + 1])
    IN  IF n = 0 THEN {Values(env.values)}
        ELSE IF n <= Len(keys) \/ entry = <<>> \/ ~Contains(keys, entry[1])
               THEN {Aborts("assigned entry")}
        ELSE IF Len(entry) = 1 THEN {Values(env.values)}
        ELSE SetInTurn([k \in 1..n |-> Assignee(d, keys, entry[1])],
                       env, [k \in 1..n |-> entry[2]])

\* Elements that the value lacks are skipped, with a warning, and so are
\* those that it has in excess.
set_from_variant(d, env, v) ==
    CASE d.kind = "variable" -> {set_variable_value(d.val, env, v)}
      [] d.kind \in {"a", "r"} ->
           SetInTurn(d.val, env, SubSeq(Contents(v), 1, Smaller(Len(d.val), Len(Contents(v)))))
      [] d.kind = "e" ->
           Then(InTurn([k \in DOMAIN d.val |-> Evaluate(d.val[k][1], env)]),
                LAMBDA keys : SetEntry(d, env, v, Payload(keys)))
=============================================================================
