----------------------------- MODULE MCMachine -----------------------------
(***************************************************************************)
(* Instances of Machine for TLC: small pools of transitions, out of which  *)
(* the transition tables are all the sequences up to a length.  The tables *)
(* are put together as _dfsm_machine_new sorts the transitions of an       *)
(* object: one array per method and per property, in order, and one for    *)
(* the arbitrary transitions.                                              *)
(***************************************************************************)
EXTENDS MachineReachability, FiniteSets

Literal(v) == [kind |-> "literal", of |-> v]
Fuzzy(v) == [kind |-> "fuzzy", of |-> v]
Local(a) == [kind |-> "local", of |-> a]
ObjectVariable(x) == [kind |-> "object", of |-> x]

Require(e, v) == [expression |-> e, value |-> v, throws |-> FALSE]
RequireOrThrow(e, v) == [expression |-> e, value |-> v, throws |-> TRUE]

Assign(x, e) == [kind |-> "assign", target |-> x, expression |-> e]
Bind(a, e) == [kind |-> "bind", target |-> a, expression |-> e]
Reply(e) == [kind |-> "reply", expression |-> e]
Throw == [kind |-> "throw", expression |-> Literal(0)]
Emit(e) == [kind |-> "emit", expression |-> e]

Move(from, to, preconditions, statements) ==
  [from |-> from, to |-> to, preconditions |-> preconditions, statements |-> statements]

MCMachineStates == {"s0", "s1"}
MCValues == {0, 1}
MCParameters == {"a", "value"}
MCMethods == {"M", "Undeclared"}
MCObjectVariables == {"p"}
MCProperties == {"p"}
MCInitialObject == [x \in {"p"} |-> 0]
MCInterfaces == <<"I", "J">>

\* Both interfaces declare M, the second without the in-argument.
MCInArgs == [declared \in {<<"I", "M">>, <<"J", "M">>} |->
               IF declared[1] = "I" THEN {"a"} ELSE {}]

----------------------------------------------------------------------------
(* Method-triggered transitions, without fuzzy preconditions. *)

Go == Move("s0", "s1", <<>>,
           <<Assign("p", Local("a")), Emit(ObjectVariable("p")), Reply(Literal(0))>>)
Refuse == Move("s0", "s1", <<Require(ObjectVariable("p"), 0)>>,
               <<Assign("p", Literal(1)), Throw>>)
GuardedByError == Move("s0", "s0", <<RequireOrThrow(Local("a"), 1)>>,
                       <<Bind("a", Fuzzy(0)), Reply(Local("a"))>>)
GuardedSilently == Move("s1", "s0", <<Require(ObjectVariable("p"), 1), RequireOrThrow(Local("a"), 0)>>,
                        <<Reply(Fuzzy(1))>>)
RefuseInS1 == Move("s1", "s1", <<>>, <<Throw, Emit(Local("a"))>>)
Vetoed == Move("s0", "s0", <<>>, <<Reply(Literal(1))>>)
FuzzyGuard == Move("s0", "s1", <<RequireOrThrow(Fuzzy(0), 0)>>, <<Reply(Literal(1))>>)
NeedsFuzzing == Move("s0", "s1", <<Require(Fuzzy(1), 0)>>, <<Reply(Literal(1))>>)
FuzzyThenLocal == Move("s0", "s1", <<RequireOrThrow(Fuzzy(0), 0), Require(Local("a"), 1)>>,
                       <<Reply(Literal(1))>>)

Store == Move("s1", "s0", <<Require(Local("value"), 1)>>, <<Emit(Local("value"))>>)
Tick == Move("s0", "s1", <<Require(ObjectVariable("p"), 1)>>, <<Assign("p", Fuzzy(0)), Emit(Literal(1))>>)
Tock == Move("s1", "s0", <<>>, <<>>)

Table(method, property, arbitrary) ==
  [trigger \in Trigger |->
     CASE trigger = OnMethod("M") -> method
       [] trigger = OnMethod("Undeclared") -> <<>>
       [] trigger.kind = "property" -> property
       [] OTHER -> arbitrary]

Sequences(pool, n) == UNION {[1..k -> pool] : k \in 0..n}

MCDescriptions ==
  {Table(method, <<Store>>, <<Tick, Tock>>) :
     method \in Sequences({Go, Refuse, GuardedByError, GuardedSilently, RefuseInS1}, 2)
                  \cup {<<Refuse, GuardedByError, Go>>, <<GuardedByError, Vetoed, Refuse>>}}
    \cup {Table(<<Go>>, <<>>, <<>>), Table(<<FuzzyGuard, Go>>, <<>>, <<Tock>>),
          Table(<<FuzzyThenLocal, NeedsFuzzing>>, <<>>, <<Tick>>)}

MCFiltered == {Vetoed}
=============================================================================
