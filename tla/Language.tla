------------------------------ MODULE Language ------------------------------
(***************************************************************************)
(* A simulated object whose expressions are those of the simulation        *)
(* language: what can be said of AstObject only with the meaning that      *)
(* Expressions gives to expressions.  The parameters of AstObject stand    *)
(* for the definitions of Expressions; those that no code defines, since   *)
(* only properties use them, are defined here.                             *)
(***************************************************************************)
EXTENDS AstObject, Expressions

CONSTANTS
    MaxNesting,      \* of expressions: the parser's stack is bounded
    LeavesOf(_)      \* the variables a left side assigns to

\* The expressions of a description.
ExpressionsOf(o) ==
    (UNION {{<<"data", DataList(b)[name]>> : name \in DOMAIN DataList(b)} : b \in ToSet(o.data)})
      \cup (UNION {{p.condition : p \in ToSet(t.preconditions)}
                     \cup {<<"data", s[2]>> : s \in {s \in ToSet(t.statements) : s[1] = "assign"}}
                     \cup {IF s[1] = "reply" THEN s[2] ELSE s[3] :
                              s \in {s \in ToSet(t.statements) : s[1] # "throw"}} :
                    t \in ToSet(o.transitions)})

ASSUME ParsedAssumption ==
    /\ MaxNesting \in Nat
    /\ \A o \in Descriptions : \A e \in ExpressionsOf(o) : IsParsed(MaxNesting, e)

\* The types in introspection data have no wildcards.
ASSUME IntrospectionAssumption ==
    \A t \in TypesSent : IsDefinite(t)

\* A literal that is checked to be a type may be no signature.
is_built(d) == Kind(d) = "g" => Literal(d) \in Signatures

\* A value in the range of its type, and made of values of the right types.
is_value(v) ==
    LET t == TypeOfValue(v)
        p == Payload(v)
        Is(child, type) == TypeOfValue(child) = type /\ IsValue(child)
    IN  /\ v = Variant(t, p) /\ IsType(t)
        /\ CASE t[1] \in BasicTypes -> InRange(t[1], p)
             [] t[1] = "v" -> IsValue(p)
             [] t[1] = "a" -> IsSequence(p) /\ \A k \in DOMAIN p : Is(p[k], t[2])
             [] t[1] = "e" -> IsSequence(p) /\ Len(p) = 2 /\ Is(p[1], t[2]) /\ Is(p[2], t[3])
             [] t[1] = "r" -> /\ IsSequence(p) /\ Len(p) = Len(t[2])
                              /\ \A k \in DOMAIN p : Is(p[k], t[2][k])

\* Whether the variables of a left side have the types of their places in it,
\* which an annotation of an array or a dictionary may hide.
places_fit(e, all) ==
    LET d == e[2]
        t == CalculateType(e, all)
        Fit(child, type) == CalculateType(child, all) = type /\ PlacesFit(child, all)
    IN  CASE d.kind = "variable" -> TRUE
          [] d.kind = "a" -> \A k \in DOMAIN d.val : Fit(d.val[k], t[2])
          [] d.kind = "r" -> \A k \in DOMAIN d.val : Fit(d.val[k], t[2][k])
          [] d.kind = "e" -> \A k \in DOMAIN d.val : Fit(d.val[k][2], t[2][3])
          [] OTHER -> FALSE
-----------------------------------------------------------------------------
\* The environment of the transition t, with every choice of arguments.
EnvironmentsOf(t, fuzz) ==
    LET locals == LocalTypes(description, t.trigger)
    IN  {[types |-> Joined(types, locals), values |-> Joined(values, args), fuzzing |-> fuzz] :
           args \in LocalValues(locals)}

\* The environments in which the statement k of the transition t is executed.
EnvironmentsAt(t, k, env) ==
    {[env EXCEPT !.values = Payload(o)[1]] :
       o \in {o \in ExecuteStatements(SubSeq(t.statements, 1, k - 1), env) : ~IsAbort(o)}}

\* What AstObject takes from the language (LanguageIsSound) holds wherever an
\* object evaluates an expression: it has a value of the type calculated for it
\* before, and an assignment leaves variables with values of their types,
\* whatever functions, operators and fuzzing make of the values.  (What there
\* may be without fuzzing there may be with it.)  The entry of a dictionary that
\* an assignment takes may be the wrong one, but never one of another type.
ExpressionsAreSound ==
    /\ \A v \in DOMAIN values : ListIsBuilt(values[v])
    /\ stage = "registered" => DataIsSound(description, Environment, Unset)
    /\ stage = "ready" =>
         \A t \in ToSet(description.transitions) : \A env \in EnvironmentsOf(t, TRUE) :
           /\ TransitionIsSound(t, env, Unset)
           /\ \A k \in 2..Len(t.statements) : \A now \in EnvironmentsAt(t, k, env) :
                StatementIsSound(t.statements[k], now, Unset)

\* A product or a remainder of the least integer is undefined behaviour.
Overflows(env) ==
    \E v \in DOMAIN env.values : \E t \in WideTypes :
      env.values[v] = Variant(<<t>>, -GreatestValue[t] - 1)

\* As long as fuzzing is disabled, a transition is a function of the state and
\* of what the client passed, so that a test can be repeated: only the order
\* of strings is left open by the model, and the code leaves products of the
\* least integer undefined.
OnlyFuzzyVaries ==
    stage = "ready" =>
      \A t \in ToSet(description.transitions) : \A env \in EnvironmentsOf(t, FALSE) :
        LET Certain(outcomes) == Cardinality({o \in outcomes : ~IsAbort(o)}) <= 1
        IN  ~Overflows(env) =>
              /\ Certain(FailureOf(t.preconditions, env))
              /\ Certain(ExecuteStatements(t.statements, env))

\* The variables assigned to.
leaves(e) ==
    IF e[2].kind = "variable" THEN <<e[2].val>>
    ELSE FlattenSeq([k \in DOMAIN Children(e) |-> LeavesOf(Children(e)[k])])

\* After an assignment to a tuple or an array of distinct variables, reading
\* the left side gives what the right side was worth before, and no other
\* variable has changed: so that (x, y) = (y, x) swaps.
ElementsAreStored(t, left, right) ==
    LET e   == <<"data", left>>
        all == Joined(types, LocalTypes(description, t.trigger))
    IN  (left.kind \in {"a", "r"} /\ IsInjective(LeavesOf(e)) /\ PlacesFit(e, all)) =>
          \A env \in EnvironmentsOf(t, FALSE) : \A v \in Evaluate(right, env) :
            \A o \in IF IsAbort(v) THEN {} ELSE SetFromVariant(left, env, v) :
              LET after == [env EXCEPT !.values = Payload(o)]
              IN  /\ ~IsAbort(o)
                  /\ Len(Payload(v)) = Len(left.val) => Evaluate(e, after) = {v}
                  /\ \A name \in DOMAIN env.values \ ToSet(LeavesOf(e)) :
                        after.values[name] = env.values[name]

\* After an assignment to a dictionary, a variable on the left side has what it
\* had or what the value holds for its own key, and no other variable has
\* changed.  (The comment at dfsm-ast-data-structure.c:2440 has more: every key
\* that both sides have is assigned.  The code takes one entry only.)
EntriesKeepTheirKeys(t, left, right) ==
    LET e == <<"data", left>>
    IN  (left.kind = "e" /\ IsInjective(LeavesOf(e))) =>
          \A env \in EnvironmentsOf(t, FALSE) : \A v \in Evaluate(right, env) :
            \A o \in IF IsAbort(v) THEN {} ELSE SetFromVariant(left, env, v) :
              LET after    == [env EXCEPT !.values = Payload(o)]
                  entries  == {Contents(c) : c \in ToSet(Contents(v))}
                  Own(key) == {{entry[2]} : entry \in {c \in entries : c[1] \in Evaluate(key, env)}}
              IN  ~IsAbort(o) =>
                    /\ \A place \in ToSet(left.val) :
                         place[2][2].kind = "variable" =>
                           Evaluate(place[2], after) \in
                             {Evaluate(place[2], env)} \cup Own(place[1])
                    /\ \A name \in DOMAIN env.values \ ToSet(LeavesOf(e)) :
                         after.values[name] = env.values[name]

\* A compound assignment stores each part of the value in the variable that
\* stands in its place, or at its key, and touches nothing else.
AssignmentStores ==
    stage = "ready" =>
      \A t \in ToSet(description.transitions) : \A s \in ToSet(t.statements) :
        s[1] = "assign" =>
          /\ ElementsAreStored(t, s[2], s[3])
          /\ EntriesKeepTheirKeys(t, s[2], s[3])
=============================================================================
