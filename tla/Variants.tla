------------------------------ MODULE Variants ------------------------------
(***************************************************************************)
(* The part of GVariant, GLib's typed values, that the simulation language *)
(* rests on.  GLib is not part of the program: these definitions say how   *)
(* the program uses it.                                                    *)
(*                                                                         *)
(* A type is a tuple whose first component is a character of a D-Bus       *)
(* signature: <<"i">> is an integer, <<"a", t>> an array, <<"r", ts>> a    *)
(* tuple, <<"e", k, v>> a dictionary entry, <<"v">> a variant.  AnyType,   *)
(* AnyBasic and AnyTuple are the wildcards of patterns.  A value is a pair *)
(* of its type and its payload; strings are sequences of tokens.           *)
(***************************************************************************)
EXTENDS Integers, SequencesExt

AnyType  == <<"*">>
AnyBasic == <<"?">>
AnyTuple == <<"r">>
Unit     == <<"r", <<>>>>
NoType   == <<"none">>       \* a type error
Broken   == <<"broken">>     \* an assertion failed where a type was needed

Array(t)     == <<"a", t>>
Tuple(ts)    == <<"r", ts>>
Entry(k, v)  == <<"e", k, v>>
Dict(k, v)   == Array(Entry(k, v))

UnsignedTypes == {"y", "q", "u", "t"}
SignedTypes   == {"n", "i", "x"}
WideTypes     == {"i", "x"}     \* int and wider: arithmetic on them overflows
IntegerTypes  == UnsignedTypes \cup SignedTypes
BasicTypes    == IntegerTypes \cup {"b", "d", "s", "o", "g"}

IsSequence(s) == s \in Seq(ToSet(s))

IsArray(t) == t[1] = "a"
IsTuple(t) == t[1] = "r"
IsDict(t)  == IsArray(t) /\ t[2][1] = "e"
-----------------------------------------------------------------------------
Variant(t, payload) == <<t, payload>>
TypeOfValue(v)      == v[1]
Payload(v)          == v[2]
Child(v, k)         == v[2][k]        \* g_variant_get_child_value (v, k - 1)

\* What is not a container has no children.
Contents(v) ==
    CASE v[1][1] \in {"a", "e", "r"} -> v[2]
      [] v[1][1] = "v" -> <<v[2]>>
      [] OTHER -> <<>>

Boolean(b)          == Variant(<<"b">>, b)
EntryOf(t, k, v)    == Variant(t, <<k, v>>)

\* NULL: what GLib returns, with a critical warning, for a value that cannot
\* be built.
Null      == Variant(<<"null">>, 0)
IsNull(o) == o[1] = <<"null">>

\* The end of the process, for the given reason.
Aborts(why) == Variant(<<"aborted">>, why)
IsAbort(o)  == o[1] = <<"aborted">>

\* An evaluation is the set of its outcomes: values, and the ends of the
\* process it may lead to.  Then() evaluates f on the values.
Then(outcomes, f(_)) ==
    UNION {IF IsAbort(o) THEN {o} ELSE f(o) : o \in outcomes}

Sequence(s) == Variant(<<"sequence">>, s)

\* The outcomes of evaluating several things one after the other, each with
\* its own set of outcomes: sequences of values, or an end.
OneMore(outcomes, done) ==
    Then(done, LAMBDA s :
           {IF IsAbort(o) THEN o ELSE Sequence(Append(Payload(s), o)) : o \in outcomes})

InTurn(all) ==
    LET done[k \in 0..Len(all)] ==
          IF k = 0 THEN {Sequence(<<>>)} ELSE OneMore(all[k], done[k - 1])
    IN  done[Len(all)]

\* g_variant_compare(): containers cannot be compared and count as equal.
\* The order of strings is left open.
Comparisons(l, r) ==
    CASE l[1][1] \in IntegerTypes -> {l[2] - r[2]}
      [] l[1][1] = "b" -> {IF l = r THEN 0 ELSE IF r[2] THEN -1 ELSE 1}
      [] l[1][1] \in {"d", "s", "o", "g"} -> IF l = r THEN {0} ELSE {-1, 1}
      [] OTHER -> {0}
=============================================================================
