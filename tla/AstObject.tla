------------------------------ MODULE AstObject ------------------------------
(***************************************************************************)
(* A simulated object as its description has it (dfsm/dfsm-ast-object.c,   *)
(* dfsm/dfsm-ast-transition.c, dfsm/dfsm-ast-precondition.c and            *)
(* dfsm/dfsm-ast-statement-*.c): how it is checked when it is loaded, how  *)
(* its variables get their first values, and what its transitions do to    *)
(* them.  Which transition runs when is the subject of Machine.            *)
(*                                                                         *)
(* A description lists its data blocks as sequences of <<name, data>> and  *)
(* its state blocks as sequences of names, both in the order of the source *)
(* file.  A transition has a trigger (<<"method", name>>, <<"property",    *)
(* name>> or <<"random">>), pairs of states, preconditions and statements: *)
(* <<"assign", d, e>>, <<"emit", signal, e>>, <<"reply", e>> and           *)
(* <<"throw", error>>.  A data structure d as an expression is             *)
(* <<"data", d>>.                                                          *)
(*                                                                         *)
(* An environment is a record of the types of the variables that exist,    *)
(* the values of those that have one, and whether fuzzing is enabled.      *)
(* What expressions mean in it is given by the virtual functions of Nodes. *)
(***************************************************************************)
EXTENDS Containers, Subtypes, Nodes

CONSTANTS
    Descriptions,    \* the objects that may be loaded
    Introspection,   \* of each interface: its methods, signals and properties
    Arguments,       \* the values a client passes, by type
    MaxCalls         \* transitions executed after loading

CONSTANTS            \* what properties say of values, of data and of assignments:
    IsValue(_),              \* its parts are in the ranges of their types
    IsBuilt(_),              \* GLib takes the literal, if a structure is one
    PlacesFit(_, _)          \* the variables in a structure have the types of their places

VARIABLES
    description,
    stage,           \* "parsed", "registered", "ready", "refused" or "aborted"
    why,             \* of an abort
    pending,         \* the variables to be checked, as <<block, name>>
    types, values,   \* of the object's environment
    fuzzing,         \* enable_fuzzing
    ran,             \* the transitions executed, the last one first
    sent             \* the output of the last one

vars == <<description, stage, why, pending, types, values, fuzzing, ran, sent>>

NoError     == "no error"
NotDeclared == <<"not declared">>
Empty       == [name \in {} |-> NotDeclared]

\* Two typings, or two valuations, of different variables.
Joined(f, g) ==
    [v \in DOMAIN f \cup DOMAIN g |-> IF v \in DOMAIN f THEN f[v] ELSE g[v]]

\* The shape of what the parser makes.
ASSUME DescriptionsAssumption ==
    \A o \in Descriptions :
      /\ o.states \in Seq(Seq(STRING))
      /\ IsSequence(o.interfaces) /\ IsSequence(o.transitions)
      /\ \A t \in ToSet(o.transitions) :
            /\ t.trigger[1] \in {"method", "property", "random"}
            /\ IsSequence(t.preconditions) /\ IsSequence(t.statements)
            /\ \A s \in ToSet(t.statements) : s[1] \in {"assign", "emit", "reply", "throw"}

\* What a client passes is of the type declared for it.
ASSUME ArgumentsAssumption ==
    /\ \A i \in DOMAIN Introspection :
          /\ \A method \in DOMAIN Introspection[i].methods :
                LET in == Introspection[i].methods[method].in
                IN  IsSequence(in) /\ \A arg \in ToSet(in) : arg[2] \in DOMAIN Arguments
          /\ \A property \in DOMAIN Introspection[i].properties :
                Introspection[i].properties[property] \in DOMAIN Arguments
    /\ \A t \in DOMAIN Arguments : \A v \in Arguments[t] : TypeOfValue(v) = t /\ IsValue(v)

-----------------------------------------------------------------------------
(* What the parser makes of lists that it builds from their end.           *)

\* The first of several entries of a name replaces the others.
DataList(block) ==
    [name \in {entry[1] : entry \in ToSet(block)} |->
       block[SelectInSeq(block, LAMBDA entry : entry[1] = name)][2]]

StateList(block) == Reverse(block)
-----------------------------------------------------------------------------
(* dfsm_ast_object_pre_check_and_register ().                              *)

\* Mutant: the main state is left where the parser put it.
StatesInParsedOrder(o) ==
    FlattenSeq([k \in DOMAIN o.states |-> StateList(o.states[k])])

\* The main state, which is the last of the first block, gets number 0.
StateNumbers(o) ==
    LET blocks == [k \in DOMAIN o.states |-> StateList(o.states[k])]
    IN  <<Last(blocks[1])>> \o Front(blocks[1]) \o FlattenSeq(Tail(blocks))

StatementIsSane(s) ==
    CASE s[1] = "assign" -> PreCheck(<<"data", s[2]>>) /\ PreCheck(s[3])
      [] s[1] = "emit"   -> s[2] \in ValidNames /\ PreCheck(s[3])
      [] s[1] = "reply"  -> PreCheck(s[2])
      [] s[1] = "throw"  -> s[2] \in ValidNames

PreconditionIsSane(p, trigger) ==
    /\ p.error # NoError => p.error \in ValidNames /\ trigger[1] = "method"
    /\ PreCheck(p.condition)

IsAnswer(s) == s[1] \in {"reply", "throw"}

\* The places of the statements, or of the output, that answer a call.
Answers(statements) == {k \in DOMAIN statements : IsAnswer(statements[k])}

\* Mutant: it is enough to have an answer.
SomeAnswer(t) ==
    IF t.trigger[1] = "method" THEN Answers(t.statements) # {} ELSE Answers(t.statements) = {}

RightAnswers(t) ==
    Cardinality(Answers(t.statements)) = IF t.trigger[1] = "method" THEN 1 ELSE 0

TransitionIsSane(t) ==
    /\ t.trigger[1] # "random" => t.trigger[2] \in ValidNames
    /\ \A p \in ToSet(t.preconditions) : PreconditionIsSane(p, t.trigger)
    /\ \A s \in ToSet(t.statements) : StatementIsSane(s)
    /\ RightAnswers(t)

\* The name of the main state is not validated.  Names of variables are not
\* compared across blocks: the environment is still empty.
ObjectIsSane(o) ==
    /\ o.path \in ObjectPaths
    /\ ToSet(o.busNames) \subseteq ValidNames
    /\ o.interfaces # <<>>
    /\ ToSet(o.interfaces) \subseteq ValidNames \cap DOMAIN Introspection
    /\ IsInjective(o.interfaces)
    /\ \A b \in ToSet(o.data) : \A name \in DOMAIN DataList(b) :
          name \in ValidNames /\ PreCheck(<<"data", DataList(b)[name]>>)
    /\ o.states # <<>> /\ Head(o.states) # <<>>
    /\ ToSet(Tail(StateNumbers(o))) \subseteq ValidNames
    /\ IsInjective(StateNumbers(o))
    /\ \A t \in ToSet(o.transitions) :
          /\ TransitionIsSane(t)
          /\ \A pair \in ToSet(t.pairs) :
                ToSet(pair) \subseteq ToSet(StateNumbers(o)) \cap ValidNames

Parsed(o) ==
    /\ description = o
    /\ stage = "parsed"
    /\ why = ""
    /\ pending = {}
    /\ types = Empty
    /\ values = Empty
    /\ fuzzing = TRUE
    /\ ran = <<>>
    /\ sent = <<>>

\* dfsm_ast_object_initial_check ()
InitialCheck ==
    /\ stage = "parsed"
    /\ IF ObjectIsSane(description)
         THEN /\ stage' = "registered"
              /\ pending' = UNION {{<<k, name>> : name \in DOMAIN DataList(description.data[k])} :
                                     k \in DOMAIN description.data}
         ELSE stage' = "refused" /\ UNCHANGED pending
    /\ UNCHANGED <<description, why, types, values, fuzzing, ran, sent>>

Abort(reason) == stage' = "aborted" /\ why' = reason

\* What a check came to.
Conclude(verdict, next) ==
    \/ verdict = "ok" /\ stage' = next /\ UNCHANGED why
    \/ verdict = "refused" /\ stage' = "refused" /\ UNCHANGED why
    \/ verdict = "aborted" /\ Abort("no type")
-----------------------------------------------------------------------------
(* dfsm_ast_object_check (): first the variables, then all that uses them. *)

Environment == [types |-> types, values |-> values, fuzzing |-> fuzzing]

\* The variables of a block come in the order of a hash table: any.  The type
\* must not have been set.  A first value that could not be built is NULL, of
\* which only a warning comes: the variable is declared and has no value.
CheckVariable(k, name) ==
    LET d        == DataList(description.data[k])[name]
        verdict  == Check(<<"data", d>>, types)
        variable == <<"object", name>>
    IN  /\ stage = "registered" /\ <<k, name>> \in pending
        /\ \A other \in pending : k <= other[1]
        /\ pending' = pending \ {<<k, name>>}
        /\ IF verdict # "ok"
             THEN Conclude(verdict, stage) /\ UNCHANGED <<types, values>>
             ELSE \E v \in ToVariant(d, Environment) :
                    IF IsAbort(v)
                      THEN Abort(Payload(v)) /\ UNCHANGED <<types, values>>
                    ELSE IF variable \in DOMAIN types
                      THEN Abort("variable declared twice") /\ UNCHANGED <<types, values>>
                    ELSE /\ types' = Joined(types, [new \in {variable} |-> CalculateType(<<"data", d>>, types)])
                         /\ values' = IF IsNull(v) THEN values
                                      ELSE Joined(values, [new \in {variable} |-> v])
                         /\ UNCHANGED <<stage, why>>
        /\ UNCHANGED <<description, fuzzing, ran, sent>>

IsDeclared(o, members, name) ==
    \E i \in ToSet(o.interfaces) : name \in DOMAIN Introspection[i][members]

\* What the first of the object's interfaces that declares a name says of it.
Declared(o, members, name) ==
    LET k == SelectInSeq(o.interfaces,
                         LAMBDA i : name \in DOMAIN Introspection[i][members])
    IN  IF k = 0 THEN NotDeclared ELSE Introspection[o.interfaces[k]][members][name]

\* Each property of its interfaces has a variable, of exactly its type.
PropertiesFault(o) ==
    Holds(\A i \in ToSet(o.interfaces) : \A name \in DOMAIN Introspection[i].properties :
            /\ <<"object", name>> \in DOMAIN types
            /\ types[<<"object", name>>] = Introspection[i].properties[name])

\* The arguments of a method, or the value of a property, by name.
LocalTypes(o, trigger) ==
    CASE trigger[1] = "method" ->
           LET in == Declared(o, "methods", trigger[2]).in
           IN  [variable \in {<<"local", arg[1]>> : arg \in ToSet(in)} |->
                  in[SelectInSeq(in, LAMBDA arg : arg[1] = variable[2])][2]]
      [] trigger[1] = "property" ->
           [variable \in {<<"local", "value">>} |-> Declared(o, "properties", trigger[2])]
      [] trigger[1] = "random" -> Empty

PreconditionFault(p, all) ==
    FirstFault(<<Check(p.condition, all),
                 Holds(CalculateType(p.condition, all) = <<"b">>)>>)

\* Mutant: the value assigned may be of any type.
AssignmentFaultUntyped(d, e, all) ==
    FirstFault(<<Check(<<"data", d>>, all), Check(e, all), Holds(IsVariable(<<"data", d>>))>>)

AssignmentFault(d, e, all) ==
    LET left == <<"data", d>>
    IN  FirstFault(<<Check(left, all), Check(e, all), Holds(IsVariable(left)),
                     Holds(IsSubtype(CalculateType(e, all), CalculateType(left, all)))>>)

EmitFault(o, signal, e, all) ==
    FirstFault(<<Check(e, all), Holds(IsDeclared(o, "signals", signal)),
                 Holds(IsSubtype(CalculateType(e, all), Declared(o, "signals", signal)))>>)

StatementFault(o, s, all) ==
    CASE s[1] = "assign" -> AssignmentFault(s[2], s[3], all)
      [] s[1] = "emit"   -> EmitFault(o, s[2], s[3], all)
      [] s[1] = "reply"  -> Check(s[2], all)
      [] s[1] = "throw"  -> "ok"

\* The type of the reply is compared with the method's before the reply
\* itself has been checked, when it may not have a type.
ReplyFault(o, t, all) ==
    LET replies == {k \in DOMAIN t.statements : t.statements[k][1] = "reply"}
        type    == CalculateType(t.statements[Min(replies)][2], all)
    IN  IF replies = {} THEN "ok"
        ELSE IF type = Broken THEN "aborted"
        ELSE Holds(IsSubtype(type, Declared(o, "methods", t.trigger[2]).out))

TriggerIsDeclared(o, trigger) ==
    CASE trigger[1] = "method"   -> IsDeclared(o, "methods", trigger[2])
      [] trigger[1] = "property" -> IsDeclared(o, "properties", trigger[2])
      [] trigger[1] = "random"   -> TRUE

\* dfsm_ast_transition_check ()
TransitionFault(o, t) ==
    LET all == Joined(types, LocalTypes(o, t.trigger))
    IN  IF ~TriggerIsDeclared(o, t.trigger) THEN "refused"
        ELSE FirstFault(
               <<ReplyFault(o, t, all)>>
               \o [k \in DOMAIN t.preconditions |-> PreconditionFault(t.preconditions[k], all)]
               \o [k \in DOMAIN t.statements |-> StatementFault(o, t.statements[k], all)])

CheckTransitions ==
    /\ stage = "registered" /\ pending = {}
    /\ Conclude(FirstFault(
                  <<PropertiesFault(description)>>
                  \o [k \in DOMAIN description.transitions |->
                        TransitionFault(description, description.transitions[k])]),
                "ready")
    /\ UNCHANGED <<description, pending, types, values, fuzzing, ran, sent>>
-----------------------------------------------------------------------------
(* dfsm_ast_transition_check_preconditions () and                          *)
(* dfsm_ast_transition_execute ().                                         *)

\* A precondition is evaluated if none before it has failed.
Test(p, env, failures) ==
    Then(failures, LAMBDA f :
      IF Payload(f) # <<>> THEN {f}
      ELSE Then(Evaluate(p.condition, env), LAMBDA v :
             {IF Payload(v) THEN f ELSE Sequence(<<p.error>>)}))

\* The error of the first precondition that fails, if one does.
FailureOf(preconditions, env) ==
    LET failures[k \in 0..Len(preconditions)] ==
          IF k = 0 THEN {Sequence(<<>>)}
          ELSE Test(preconditions[k], env, failures[k - 1])
    IN  failures[Len(preconditions)]

\* What has become of a transition: the values of variables, and the output.
Outcome(after, output) == Variant(<<"outcome">>, <<after, output>>)

\* What the statement makes of the value v of its expression.
OutcomesOf(s, env, output, v) ==
    CASE s[1] = "assign" ->
           Then(SetFromVariant(s[2], env, v),
                LAMBDA after : {Outcome(Payload(after), output)})
      [] s[1] = "emit"  -> {Outcome(env.values, Append(output, <<"emit", s[2], v>>))}
      [] s[1] = "reply" -> {Outcome(env.values, Append(output, <<"reply", v>>))}

ExpressionOf(s) == IF s[1] = "reply" THEN s[2] ELSE s[3]

ExecuteStatement(s, env, output) ==
    IF s[1] = "throw" THEN {Outcome(env.values, Append(output, s))}
    ELSE Then(Evaluate(ExpressionOf(s), env), LAMBDA v : OutcomesOf(s, env, output, v))

\* A statement sees what those before it have made of the variables.
Proceed(s, env, outcomes) ==
    Then(outcomes, LAMBDA o :
           ExecuteStatement(s, [env EXCEPT !.values = Payload(o)[1]], Payload(o)[2]))

ExecuteStatements(statements, env) ==
    LET outcomes[k \in 0..Len(statements)] ==
          IF k = 0 THEN {Outcome(env.values, <<>>)}
          ELSE Proceed(statements[k], env, outcomes[k - 1])
    IN  outcomes[Len(statements)]

\* The environment of a transition, with locals from what the client passed.
LocalValues(locals) ==
    {f \in [DOMAIN locals -> UNION {Arguments[t] : t \in {locals[v] : v \in DOMAIN locals}}] :
       \A v \in DOMAIN locals : f[v] \in Arguments[locals[v]]}

\* Variables of the object alone: the local ones are unset afterwards.
OfObject(after) == [v \in {w \in DOMAIN after : w[1] = "object"} |-> after[v]]

\* A call comes through the interface its transition was checked with.  The
\* preconditions are evaluated with the switch as it was.
Execute(k, fuzz) ==
    LET t      == description.transitions[k]
        locals == LocalTypes(description, t.trigger)
    IN  /\ stage = "ready" /\ Len(ran) < MaxCalls
        /\ ran' = <<k>> \o ran
        /\ UNCHANGED <<description, pending, types>>
        /\ \E args \in LocalValues(locals) :
             LET env == [types |-> Joined(types, locals), values |-> Joined(values, args),
                         fuzzing |-> fuzzing]
             IN  \E failure \in FailureOf(t.preconditions, env) :
                   IF IsAbort(failure)
                     THEN Abort(Payload(failure)) /\ sent' = <<>> /\ UNCHANGED <<values, fuzzing>>
                   ELSE IF Payload(failure) # <<>>
                     THEN /\ sent' = IF Payload(failure) = <<NoError>> THEN <<>>
                                     ELSE <<<<"throw", Payload(failure)[1]>>>>
                          /\ UNCHANGED <<stage, why, values, fuzzing>>
                   ELSE /\ fuzzing' = fuzz
                        /\ \E o \in ExecuteStatements(t.statements, [env EXCEPT !.fuzzing = fuzz]) :
                             IF IsAbort(o)
                               THEN Abort(Payload(o)) /\ sent' = <<>> /\ UNCHANGED values
                               ELSE /\ values' = OfObject(Payload(o)[1])
                                    /\ sent' = Payload(o)[2]
                                    /\ UNCHANGED <<stage, why>>
-----------------------------------------------------------------------------
Init == \E o \in Descriptions : Parsed(o)

Next ==
    \/ InitialCheck
    \/ \E variable \in pending : CheckVariable(variable[1], variable[2])
    \/ CheckTransitions
    \/ \E k \in DOMAIN description.transitions, fuzz \in BOOLEAN : Execute(k, fuzz)

Spec == Init /\ [][Next]_vars
-----------------------------------------------------------------------------
(* What the properties take from the language of expressions.              *)

\* A valuation gives the variables of a typing values of their types: all of
\* them, those apart that may be unset, and may be assigned to later.
IsTyped(all, valuation, unset) ==
    /\ DOMAIN all \ unset \subseteq DOMAIN valuation
    /\ DOMAIN valuation \subseteq DOMAIN all
    /\ \A v \in DOMAIN valuation : TypeOfValue(valuation[v]) = all[v] /\ IsValue(valuation[v])
    /\ \A v \in DOMAIN all \ DOMAIN valuation : IsType(all[v])

\* The assertions that evaluating what has been checked may fail, the last one
\* only where some variable is unset.
AbortsOfUse(unset) ==
    {"operand is not numeric", "key found twice", "dictionary freed",
     "assigned entry", "not a signature"}
      \cup (IF unset = {} THEN {} ELSE {"variable without value"})

\* An environment whose variables have values.
HasValues(env, unset) ==
    /\ env = [types |-> env.types, values |-> env.values, fuzzing |-> env.fuzzing]
    /\ IsTyped(env.types, env.values, unset) /\ env.fuzzing \in BOOLEAN

\* An expression that has passed its checks, where variables have values.
IsRight(e, env, unset) ==
    PreCheck(e) /\ Check(e, env.types) = "ok" /\ HasValues(env, unset)

\* Its values are of the type calculated for it.
ExpressionIsSound(e, env, unset) ==
    IsRight(e, env, unset) =>
      \A v \in Evaluate(e, env) :
        IF IsAbort(v) THEN Payload(v) \in AbortsOfUse(unset)
        ELSE TypeOfValue(v) = CalculateType(e, env.types) /\ IsValue(v)

\* An assignment of a value of the right type leaves variables with values of
\* their types, unless the left side has one of another type than its place.
AssignmentIsSound(d, env, v, unset) ==
    LET left == <<"data", d>>
    IN  (/\ IsRight(left, env, unset) /\ IsVariable(left)
         /\ IsSubtype(TypeOfValue(v), CalculateType(left, env.types))) =>
          \A after \in SetFromVariant(d, env, v) :
            IF IsAbort(after)
              THEN \/ Payload(after) \in AbortsOfUse(unset)
                   \/ Payload(after) = "value of another type" /\ ~PlacesFit(left, env.types)
              ELSE IsTyped(env.types, Payload(after), unset)

\* The types of what is sent have no wildcards.
TypesSent ==
    UNION {{Introspection[i].methods[m].out : m \in DOMAIN Introspection[i].methods}
             \cup {Introspection[i].signals[s] : s \in DOMAIN Introspection[i].signals} :
             i \in DOMAIN Introspection}

StatementIsSound(s, env, unset) ==
    s[1] # "throw" =>
      /\ ExpressionIsSound(ExpressionOf(s), env, unset)
      /\ IsRight(ExpressionOf(s), env, unset) =>
           \A v \in Evaluate(ExpressionOf(s), env) :
             ~IsAbort(v) =>
               /\ s[1] = "assign" => AssignmentIsSound(s[2], env, v, unset)
               /\ \A t \in TypesSent : IsSubtype(TypeOfValue(v), t) => TypeOfValue(v) = t

\* The first value of a variable is of its type, if it can be built.
DataIsSound(o, env, unset) ==
    \A b \in ToSet(o.data) : \A name \in DOMAIN DataList(b) :
      LET d == DataList(b)[name]
      IN  IsRight(<<"data", d>>, env, unset) =>
            \A v \in ToVariant(d, env) :
              IF IsAbort(v) THEN Payload(v) \in AbortsOfUse(unset)
              ELSE IF IsNull(v) THEN ~IsBuilt(d) /\ IsType(CalculateType(<<"data", d>>, env.types))
              ELSE TypeOfValue(v) = CalculateType(<<"data", d>>, env.types) /\ IsValue(v)

TransitionIsSound(t, env, unset) ==
    /\ \A p \in ToSet(t.preconditions) : ExpressionIsSound(p.condition, env, unset)
    /\ \A s \in ToSet(t.statements) : StatementIsSound(s, env, unset)

\* An array is a sequence of elements, with its type.
ListIsBuilt(v) ==
    (IsValue(v) /\ IsArray(TypeOfValue(v))) =>
      v = Variant(TypeOfValue(v), Payload(v)) /\ IsSequence(Payload(v))

\* What is asked of the definitions that the parameters stand for.
LanguageIsSound ==
    /\ \A v : ListIsBuilt(v)
    /\ \A o \in Descriptions : \A env, unset :
         /\ DataIsSound(o, env, unset)
         /\ \A t \in ToSet(o.transitions) : TransitionIsSound(t, env, unset)
-----------------------------------------------------------------------------
(* Properties.                                                             *)

\* The variables that are declared and have no value.
Unset == DOMAIN types \ DOMAIN values

\* Whether a variable was declared with a literal of which GLib makes nothing.
IsDeclaredNull(v) ==
    \E b \in ToSet(description.data) : \E name \in DOMAIN DataList(b) :
      v = <<"object", name>> /\ ~IsBuilt(DataList(b)[name])

\* Whatever is assigned, fuzzed or returned by a function, a variable that has
\* a value has one of its declared type, down to its smallest part, on which the
\* marshalling of properties relies; and a declared variable is without a value
\* for one reason only, a literal of which GLib makes nothing.
ValuesAreOfTheirTypes ==
    /\ IsTyped(types, values, Unset)
    /\ \A v \in Unset : IsDeclaredNull(v)

\* What a transition sends has the type that the introspection data declares
\* for it, and a method call that is executed is answered exactly once, by
\* its reply or its error; other transitions answer nothing.
SentAsDeclared ==
    ran # <<>> =>
      LET trigger  == description.transitions[Head(ran)].trigger
          replies  == {s[2] : s \in {a \in ToSet(sent) : a[1] = "reply"}}
          emitted  == {s \in ToSet(sent) : s[1] = "emit"}
      IN  /\ Cardinality(Answers(sent)) <= 1
          /\ trigger[1] # "method" => Answers(sent) = {}
          /\ \A v \in replies :
                TypeOfValue(v) = Declared(description, "methods", trigger[2]).out /\ IsValue(v)
          /\ \A s \in emitted :
                TypeOfValue(s[3]) = Declared(description, "signals", s[2]) /\ IsValue(s[3])

\* An object that is accepted is what the state machine takes for granted:
\* its first state is the first of the source file, its states have different
\* numbers, its transitions are between them and answer what they must, and
\* its properties have variables of their types.
AcceptedObjectsAreMachines ==
    stage = "ready" =>
      LET numbers == StateNumbers(description)
          named   == UNION {ToSet(b) : b \in ToSet(description.states)}
      IN  /\ Head(numbers) = Head(description.states[1])
          /\ IsInjective(numbers) /\ ToSet(numbers) = named
          /\ \A t \in ToSet(description.transitions) :
                /\ \A pair \in ToSet(t.pairs) : ToSet(pair) \subseteq named
                /\ TriggerIsDeclared(description, t.trigger)
                /\ (t.trigger[1] = "method") = (\E s \in ToSet(t.statements) : IsAnswer(s))
          /\ \A i \in ToSet(description.interfaces) :
                \A name \in DOMAIN Introspection[i].properties :
                  /\ <<"object", name>> \in DOMAIN types
                  /\ types[<<"object", name>>] = Introspection[i].properties[name]

AbortsOfLoading == {"no type", "variable declared twice"}

\* An annotation of a left side hides the type of a variable.
AssignsToMisfits(t) ==
    \E s \in ToSet(t.statements) :
      /\ s[1] = "assign"
      /\ ~PlacesFit(<<"data", s[2]>>, Joined(types, LocalTypes(description, t.trigger)))

\* The checks leave these ways to fail an assertion, and no others.  A value of
\* another type than its variable's is assigned only if an annotation hides that
\* the variables assigned to are of different types, and a variable without a
\* value is used only where one was declared with a literal of which GLib makes
\* nothing.  (Calls come through the interface that transitions are checked with;
\* Machine has the others.)
OnlyKnownAborts ==
    stage = "aborted" =>
      \/ why \in AbortsOfUse(Unset)
      \/ ran = <<>> /\ why \in AbortsOfLoading
      \/ /\ ran # <<>> /\ why = "value of another type"
         /\ AssignsToMisfits(description.transitions[Head(ran)])

Samples(t) == IF t \in DOMAIN Arguments THEN Arguments[t] ELSE {}

\* The functions of the language undo and find one another's changes to an
\* array or a dictionary that a variable holds, at any place and past the end:
\* what is inserted is found, what is removed was there and can be put back, and
\* nothing else changes.  Past the end that is the last element, where the manual
\* (functions.page:43-44) has arrayRemove return the array unmodified.
BuiltinsUndoOneAnother ==
    \A v \in DOMAIN values :
      LET t == types[v] IN
      /\ (IsArray(t) /\ ~IsDict(t)) =>
           \A n \in 0..(Len(Payload(values[v])) + 1), x, default \in Samples(t[2]) :
             ArrayLaws(values[v], n, x, default)
      /\ IsDict(t) =>
           \A key, other \in Samples(t[2][2]), x, default \in Samples(t[2][3]) :
             DictLaws(values[v], key, other, x, default)

\* Only numbers are added, compared or multiplied (expressions.page of the
\* manual).
OperandsAreNumeric == why # "operand is not numeric"
=============================================================================
