------------------------------ MODULE Machine ------------------------------
(***************************************************************************)
(* The finite state machine behind one simulated D-Bus object:             *)
(* DfsmMachine (dfsm/dfsm-machine.c), with the variable environment it     *)
(* reads and writes (dfsm/dfsm-environment.c) and the transitions it       *)
(* executes (dfsm/dfsm-ast-transition.c, dfsm/dfsm-ast-precondition.c and  *)
(* the statement nodes).                                                   *)
(*                                                                         *)
(* A call into the machine (a method call, the setting of a property or    *)
(* the tick of the arbitrary-transition timer) is not one step here.  It   *)
(* walks over the transitions registered for its trigger, one per step,    *)
(* and then executes the statements of the transition it settles on, one   *)
(* per step, so that every intermediate state of the selection loop and of *)
(* the environment is visible to the invariants.                           *)
(*                                                                         *)
(* Data are abstracted.  A value is a member of Values; an expression is a *)
(* literal, a fuzzy literal (one annotated with "?" in the simulation      *)
(* language), a method parameter or an object variable; a condition        *)
(* compares an expression with a value.                                    *)
(***************************************************************************)
EXTENDS Naturals, Sequences

CONSTANTS
  MachineStates,    \* the states of the machine
  StartingState,    \* DFSM_MACHINE_STARTING_STATE
  ObjectVariables,  \* names of the object-scope variables
  Parameters,       \* names of the local-scope variables
  Values,           \* the values variables take
  Interfaces,       \* the object's D-Bus interfaces, in order of declaration
  Methods,          \* names of methods
  Properties,       \* the object variables exported as D-Bus properties
  InArgs,           \* in-arguments of each declared <<interface, method>>
  InitialObject,    \* the data block: initial values of object variables
  Descriptions,     \* the transition tables the machine may be created with
  Filtered,         \* the transitions a check-transition handler refuses
  Unit,             \* the unit tuple
  FailedError       \* the D-Bus error of a failed precondition

----------------------------------------------------------------------------
(* The abstract syntax of transitions. *)

ASSUME ParameterNames == "value" \in Parameters

Expression ==
  [kind : {"literal", "fuzzy"}, of : Values]
    \cup [kind : {"local"}, of : Parameters]
    \cup [kind : {"object"}, of : ObjectVariables]

Precondition == [expression : Expression, value : Values, throws : BOOLEAN]

Statement ==
  [kind : {"assign"}, target : ObjectVariables, expression : Expression]
    \cup [kind : {"bind"}, target : Parameters, expression : Expression]
    \cup [kind : {"reply", "throw", "emit"}, expression : Expression]

Trigger ==
  [kind : {"method"}, name : Methods]
    \cup [kind : {"property"}, name : Properties]
    \cup [kind : {"arbitrary"}]

ObjectTransition ==
  [from : MachineStates, to : MachineStates,
   preconditions : Seq(Precondition), statements : Seq(Statement)]

OnMethod(m) == [kind |-> "method", name |-> m]
OnProperty(p) == [kind |-> "property", name |-> p]
OnTimeout == [kind |-> "arbitrary"]

IsAnswer(s) == s.kind \in {"reply", "throw"}

ContainsThrow(t) ==
  \E k \in DOMAIN t.statements : t.statements[k].kind = "throw"

\* A method-triggered transition answers exactly once; the others never
\* answer, by a statement or by a throwing precondition.
PreChecked(trigger, t) ==
  IF trigger.kind = "method"
    THEN \E k \in DOMAIN t.statements :
           \A j \in DOMAIN t.statements : IsAnswer(t.statements[j]) <=> j = k
    ELSE /\ \A j \in DOMAIN t.statements : ~ IsAnswer(t.statements[j])
         /\ \A j \in DOMAIN t.preconditions : ~ t.preconditions[j].throws

\* The local variables in scope when a transition is checked: the
\* in-arguments of the first interface to declare the method.
DeclaredAt(m, i) == <<Interfaces[i], m>> \in DOMAIN InArgs

ScopeAtCheck(trigger) ==
  CASE trigger.kind = "method" ->
         UNION {InArgs[<<Interfaces[i], trigger.name>>] :
                  i \in {j \in DOMAIN Interfaces :
                           /\ DeclaredAt(trigger.name, j)
                           /\ \A h \in 1..(j - 1) : ~ DeclaredAt(trigger.name, h)}}
    [] trigger.kind = "property" -> {"value"}
    [] OTHER -> {}

Checked(trigger, t) ==
  LET scope == ScopeAtCheck(trigger)
      InScope(e) == e.kind = "local" => e.of \in scope
  IN  /\ trigger.kind = "method" => \E k \in DOMAIN Interfaces : DeclaredAt(trigger.name, k)
      /\ \A j \in DOMAIN t.preconditions : InScope(t.preconditions[j].expression)
      /\ \A j \in DOMAIN t.statements :
           /\ InScope(t.statements[j].expression)
           /\ t.statements[j].kind = "bind" => t.statements[j].target \in scope

ASSUME ConstantsAssumption ==
  /\ StartingState \in MachineStates
  /\ Properties \subseteq ObjectVariables
  /\ InitialObject \in [ObjectVariables -> Values]
  /\ \A declared \in DOMAIN InArgs : InArgs[declared] \subseteq Parameters

ASSUME DescriptionsAssumption ==
  \A table \in Descriptions :
    /\ table \in [Trigger -> Seq(ObjectTransition)]
    /\ \A trigger \in Trigger : \A k \in DOMAIN table[trigger] :
         /\ PreChecked(trigger, table[trigger][k])
         /\ Checked(trigger, table[trigger][k])

----------------------------------------------------------------------------
VARIABLES
  transitions,     \* the transitions of each trigger, in order
  machine_state,   \* the current state
  object,          \* environment: values of the object-scope variables
  locals,          \* environment: values of the local-scope variables
  enable_fuzzing,  \* process-wide switch of the data structures
  pc,              \* where the call in progress is
  call,            \* the call in progress, or the last one
  offset,          \* rand_offset of the selection loop
  i,               \* iterations of the selection loop done
  candidate,       \* index of the throwing transition kept back, 0 if NULL
  failure,         \* index of the first throwing failure, 0 if NULL
  running,         \* index of the transition executed, 0 if none
  statement,       \* statements of it executed
  outputted,       \* did the loop output something?
  output,          \* the call's output sequence
  changed,         \* return value of dfsm_machine_set_property
  entry            \* history: state and environment when the call came in

environment == <<object, locals>>
selection == <<offset, i, candidate, failure>>
execution == <<running, statement>>
vars == <<transitions, machine_state, environment, enable_fuzzing, pc, call,
          selection, execution, outputted, output, changed, entry>>

Possible == transitions[call.trigger]
Current == ((i + offset) % Len(Possible)) + 1

NoLocals == [name \in {} |-> Unit]
Ready == pc \in {"idle", "returned"}

----------------------------------------------------------------------------
(* Evaluation.  An expression has a set of outcomes: several when it is    *)
(* fuzzed, none when it names a variable that is not in the environment    *)
(* (the program aborts on an assertion).                                   *)

Outcomes(obj, loc, fuzzing, e) ==
  {v \in Values :
    \/ e.kind = "literal" /\ v = e.of
    \/ e.kind = "fuzzy" /\ (fuzzing \/ v = e.of)
    \/ e.kind = "local" /\ e.of \in DOMAIN loc /\ v = loc[e.of]
    \/ e.kind = "object" /\ v = obj[e.of]}

Evaluate(e) == Outcomes(object, locals, enable_fuzzing, e)

CanHold(p) == p.value \in Evaluate(p.expression)
CanFail(p) == Evaluate(p.expression) \ {p.value} # {}

\* check_preconditions goes through them in order, up to the first failure.
CanReach(t, k) == \A j \in 1..(k - 1) : CanHold(t.preconditions[j])
Satisfiable(t) == \A k \in DOMAIN t.preconditions : CanHold(t.preconditions[k])
FailsAt(t, k) == CanReach(t, k) /\ CanFail(t.preconditions[k])
UndefinedAt(t, k) ==
  CanReach(t, k) /\ Evaluate(t.preconditions[k].expression) = {}

----------------------------------------------------------------------------
Init ==
  /\ transitions \in Descriptions
  /\ machine_state = StartingState
  /\ object = InitialObject
  /\ locals = NoLocals
  /\ enable_fuzzing = TRUE
  /\ pc = "idle"
  /\ call = [trigger |-> OnTimeout, args |-> NoLocals, fuzz |-> FALSE, known |-> TRUE]
  /\ offset = 0 /\ i = 0 /\ candidate = 0 /\ failure = 0
  /\ running = 0 /\ statement = 0
  /\ outputted = FALSE
  /\ output = <<>>
  /\ changed = FALSE
  /\ entry = [state |-> StartingState, object |-> InitialObject,
              locals |-> NoLocals, fuzzing |-> TRUE]

\* What every call starts with: a fresh output sequence and fresh C locals.
Enter(trigger, args, fuzz, known) ==
  /\ Ready
  /\ call' = [trigger |-> trigger, args |-> args, fuzz |-> fuzz, known |-> known]
  /\ i' = 0 /\ candidate' = 0 /\ failure' = 0
  /\ running' = 0 /\ statement' = 0
  /\ outputted' = FALSE
  /\ changed' = FALSE
  /\ entry' = [state |-> machine_state, object |-> object, locals |-> args,
               fuzzing |-> enable_fuzzing]
  /\ UNCHANGED <<transitions, machine_state, object, enable_fuzzing>>

\* Mutant: a value set is not bound in the local scope.
FindUnbound(trigger, args) ==
  /\ offset' \in 0..(Len(transitions[trigger]) - 1)
  /\ locals' = IF trigger.kind = "property" THEN NoLocals ELSE args
  /\ output' = <<>>
  /\ pc' = "find"

\* Bind the arguments in the local scope and enter the selection loop.
Find(trigger, args) ==
  /\ offset' \in 0..(Len(transitions[trigger]) - 1)
  /\ locals' = args
  /\ output' = <<>>
  /\ pc' = "find"

CallMethod(interface, m, args, fuzz) ==
  /\ transitions[OnMethod(m)] # <<>>
  /\ <<interface, m>> \in DOMAIN InArgs
  /\ DOMAIN args = InArgs[<<interface, m>>]
  /\ Enter(OnMethod(m), args, fuzz, TRUE)
  /\ Find(OnMethod(m), args)

\* A method with no transition, or on an interface that does not declare
\* it, is answered with the unit tuple.
CallUnknownMethod(interface, m, fuzz) ==
  /\ \/ transitions[OnMethod(m)] = <<>>
     \/ <<interface, m>> \notin DOMAIN InArgs
  /\ Enter(OnMethod(m), NoLocals, fuzz, FALSE)
  /\ output' = <<[kind |-> "reply", value |-> Unit]>>
  /\ pc' = "returned"
  /\ offset' = 0
  /\ UNCHANGED locals

SetProperty(p, v, fuzz) ==
  LET args == [name \in {"value"} |-> v]
  IN  /\ Enter(OnProperty(p), args, fuzz, TRUE)
      /\ IF transitions[OnProperty(p)] = <<>>
           THEN pc' = "done" /\ output' = <<>> /\ offset' = 0 /\ UNCHANGED locals
           ELSE Find(OnProperty(p), args)

MakeArbitraryTransition(fuzz) ==
  /\ Enter(OnTimeout, NoLocals, fuzz, TRUE)
  /\ IF transitions[OnTimeout] = <<>>
       THEN pc' = "done" /\ output' = <<>> /\ offset' = 0 /\ UNCHANGED locals
       ELSE Find(OnTimeout, NoLocals)

ResetState ==
  /\ Ready
  /\ pc' = "idle"
  /\ machine_state' = StartingState
  /\ object' = InitialObject
  /\ locals' = NoLocals
  /\ UNCHANGED <<transitions, enable_fuzzing, call, selection, execution,
                 outputted, output, changed, entry>>

\* Another object's machine executes a transition and sets the shared switch.
OtherMachineExecutes ==
  /\ Ready
  /\ enable_fuzzing' \in BOOLEAN
  /\ UNCHANGED <<transitions, machine_state, environment, pc, call, selection,
                 execution, outputted, output, changed, entry>>

----------------------------------------------------------------------------
(* The selection loop of find_and_execute_random_transition.  Each of      *)
(* these is one iteration that goes on to the next.                        *)

\* Mutant: the bound of the loop is off by one.
IteratePastEnd ==
  /\ pc = "find"
  /\ i <= Len(Possible)
  /\ UNCHANGED <<transitions, machine_state, environment, call, offset, output,
                 changed, entry>>

Iterate ==
  /\ pc = "find"
  /\ i < Len(Possible)
  /\ UNCHANGED <<transitions, machine_state, environment, call, offset, output,
                 changed, entry>>

\* Mutant: the loop's counter stays put.
SameIteration ==
  /\ i' = i
  /\ UNCHANGED <<enable_fuzzing, pc, execution, outputted>>

NextIteration ==
  /\ i' = i + 1
  /\ UNCHANGED <<enable_fuzzing, pc, execution, outputted>>

Eligible(t) == t.from = machine_state /\ t \notin Filtered

SkipTransition ==
  /\ Iterate
  /\ ~ Eligible(Possible[Current])
  /\ NextIteration
  /\ UNCHANGED <<candidate, failure>>

FailPreconditions ==
  /\ Iterate
  /\ Eligible(Possible[Current])
  /\ \E k \in DOMAIN Possible[Current].preconditions :
       /\ FailsAt(Possible[Current], k)
       /\ failure' = IF failure = 0 /\ Possible[Current].preconditions[k].throws
                       THEN Current ELSE failure
  /\ NextIteration
  /\ UNCHANGED candidate

\* A throwing transition is kept back, always without fuzzing and by the
\* toss of a biased coin with it.
KeepCandidate ==
  /\ Iterate
  /\ Eligible(Possible[Current])
  /\ Satisfiable(Possible[Current])
  /\ ContainsThrow(Possible[Current])
  /\ candidate' = Current
  /\ failure' = 0
  /\ NextIteration

Execute(k) ==
  /\ running' = k
  /\ statement' = 0
  /\ outputted' = TRUE
  /\ enable_fuzzing' = call.fuzz
  /\ pc' = "execute"

\* Mutant: throwing transitions are taken like the others, without fuzzing too.
TakeAnyTransition ==
  /\ Iterate
  /\ Eligible(Possible[Current])
  /\ Satisfiable(Possible[Current])
  /\ candidate' = 0
  /\ failure' = 0
  /\ Execute(Current)
  /\ UNCHANGED i

TakeTransition ==
  /\ Iterate
  /\ Eligible(Possible[Current])
  /\ Satisfiable(Possible[Current])
  /\ ContainsThrow(Possible[Current]) => call.fuzz
  /\ candidate' = 0
  /\ failure' = 0
  /\ Execute(Current)
  /\ UNCHANGED i

----------------------------------------------------------------------------
(* After the loop: the first throwing failure, then the candidate. *)

\* Mutant: the last transition of the table is not tried.
LeaveLoopEarly ==
  /\ pc = "find"
  /\ i + 1 = Len(Possible)
  /\ pc' = "failure"
  /\ UNCHANGED <<transitions, machine_state, environment, enable_fuzzing, call,
                 selection, execution, outputted, output, changed, entry>>

LeaveLoop ==
  /\ pc = "find"
  /\ i = Len(Possible)
  /\ pc' = "failure"
  /\ UNCHANGED <<transitions, machine_state, environment, enable_fuzzing, call,
                 selection, execution, outputted, output, changed, entry>>

NoFailure ==
  /\ failure = 0
  /\ UNCHANGED <<output, outputted>>

\* Mutant: the error of a precondition does not count as output.
ThrowFailureUncounted ==
  /\ failure # 0
  /\ \E k \in DOMAIN Possible[failure].preconditions :
       /\ FailsAt(Possible[failure], k)
       /\ Possible[failure].preconditions[k].throws
  /\ output' = Append(output, [kind |-> "throw", value |-> FailedError])
  /\ UNCHANGED outputted

\* The preconditions are evaluated again, this time to output the error of
\* the one that fails, if one does.
ThrowFailure ==
  /\ failure # 0
  /\ LET t == Possible[failure]
     IN  \/ /\ Satisfiable(t)
            /\ UNCHANGED output
         \/ \E k \in DOMAIN t.preconditions :
              /\ FailsAt(t, k)
              /\ output' = IF t.preconditions[k].throws
                             THEN Append(output, [kind |-> "throw", value |-> FailedError])
                             ELSE output
  /\ outputted' = TRUE

SettleFailure ==
  /\ pc = "failure"
  /\ NoFailure \/ ThrowFailure
  /\ pc' = "candidate"
  /\ UNCHANGED <<transitions, machine_state, environment, enable_fuzzing, call,
                 selection, execution, changed, entry>>

SettleCandidate ==
  /\ pc = "candidate"
  /\ IF candidate = 0
       THEN pc' = "done" /\ UNCHANGED <<execution, outputted, enable_fuzzing>>
       ELSE Execute(candidate)
  /\ UNCHANGED <<transitions, machine_state, environment, call, selection,
                 output, changed, entry>>

----------------------------------------------------------------------------
(* Execution of a transition, statement by statement. *)

ExecuteStatement ==
  /\ pc = "execute"
  /\ statement < Len(Possible[running].statements)
  /\ statement' = statement + 1
  /\ LET s == Possible[running].statements[statement + 1]
     IN  \E v \in Evaluate(s.expression) :
           \/ /\ s.kind = "assign"
              /\ object' = [object EXCEPT ![s.target] = v]
              /\ UNCHANGED <<locals, output>>
           \/ /\ s.kind = "bind" /\ s.target \in DOMAIN locals
              /\ locals' = [locals EXCEPT ![s.target] = v]
              /\ UNCHANGED <<object, output>>
           \/ /\ s.kind \in {"reply", "throw", "emit"}
              /\ output' = Append(output, [kind |-> s.kind, value |-> v])
              /\ UNCHANGED environment
  /\ UNCHANGED <<transitions, machine_state, enable_fuzzing, pc, call, selection,
                 running, outputted, changed, entry>>

\* Mutant: a transition that threw changes the state like any other.
EndTransitionMoving ==
  /\ pc = "execute"
  /\ statement = Len(Possible[running].statements)
  /\ machine_state' = Possible[running].to
  /\ pc' = "done"
  /\ UNCHANGED <<transitions, environment, enable_fuzzing, call, selection,
                 execution, outputted, output, changed, entry>>

\* Mutant: the state is changed before the last statement.
EndTransitionEarly ==
  /\ pc = "execute"
  /\ statement + 1 = Len(Possible[running].statements)
  /\ machine_state' = IF ContainsThrow(Possible[running])
                        THEN machine_state ELSE Possible[running].to
  /\ pc' = "done"
  /\ UNCHANGED <<transitions, environment, enable_fuzzing, call, selection,
                 execution, outputted, output, changed, entry>>

\* A transition that threw does not change the state.
EndTransition ==
  /\ pc = "execute"
  /\ statement = Len(Possible[running].statements)
  /\ machine_state' = IF ContainsThrow(Possible[running])
                        THEN machine_state ELSE Possible[running].to
  /\ pc' = "done"
  /\ UNCHANGED <<transitions, environment, enable_fuzzing, call, selection,
                 execution, outputted, output, changed, entry>>

----------------------------------------------------------------------------
(* The end of the call: restore the local scope, and make up for a call    *)
(* that executed nothing.                                                  *)

\* Mutant: the arguments are left in the local scope.
ReturnWithLocals ==
  /\ pc = "done"
  /\ failure = 0 \/ candidate = 0
  /\ pc' = "returned"
  /\ UNCHANGED <<transitions, machine_state, locals, enable_fuzzing, call, selection,
                 execution, outputted, entry>>

Return ==
  /\ pc = "done"
  /\ failure = 0 \/ candidate = 0
  /\ pc' = "returned"
  /\ locals' = NoLocals
  /\ UNCHANGED <<transitions, machine_state, enable_fuzzing, call, selection,
                 execution, outputted, entry>>

ReturnMethod ==
  /\ call.trigger.kind = "method"
  /\ Return
  /\ output' = IF outputted THEN output
                 ELSE Append(output, [kind |-> "reply", value |-> Unit])
  /\ UNCHANGED <<object, changed>>

\* Mutant: the old value is looked up after the variable is set.
ReturnPropertyUnchanged ==
  LET p == call.trigger.name
  IN  /\ call.trigger.kind = "property"
      /\ Return
      /\ IF outputted
           THEN changed' = TRUE /\ UNCHANGED object
           ELSE changed' = FALSE /\ object' = [object EXCEPT ![p] = call.args["value"]]
      /\ UNCHANGED output

\* The default transition of a property sets its variable.
ReturnProperty ==
  LET p == call.trigger.name
      v == call.args["value"]
  IN  /\ call.trigger.kind = "property"
      /\ Return
      /\ IF outputted
           THEN changed' = TRUE /\ UNCHANGED object
           ELSE changed' = (object[p] # v) /\ object' = [object EXCEPT ![p] = v]
      /\ UNCHANGED output

ReturnArbitrary ==
  /\ call.trigger.kind = "arbitrary"
  /\ Return
  /\ UNCHANGED <<object, output, changed>>

\* The failed assertions: an undefined variable, in a precondition or in a
\* statement, and both a failure and a candidate at the end of the loop.
UndefinedVariable ==
  \/ /\ pc = "find" /\ i < Len(Possible) /\ Eligible(Possible[Current])
     /\ \E k \in DOMAIN Possible[Current].preconditions : UndefinedAt(Possible[Current], k)
  \/ /\ pc = "failure" /\ failure # 0
     /\ \E k \in DOMAIN Possible[failure].preconditions : UndefinedAt(Possible[failure], k)
  \/ /\ pc = "execute" /\ statement < Len(Possible[running].statements)
     /\ LET s == Possible[running].statements[statement + 1]
        IN  \/ Evaluate(s.expression) = {}
            \/ s.kind = "bind" /\ s.target \notin DOMAIN locals

TwoOutcomes == pc = "done" /\ failure # 0 /\ candidate # 0

Abort ==
  /\ UndefinedVariable \/ TwoOutcomes
  /\ pc' = "aborted"
  /\ UNCHANGED <<transitions, machine_state, environment, enable_fuzzing, call,
                 selection, execution, outputted, output, changed, entry>>

----------------------------------------------------------------------------
Call ==
  \E fuzz \in BOOLEAN :
    \/ \E k \in DOMAIN Interfaces, m \in Methods :
         \/ \E args \in UNION {[names -> Values] : names \in SUBSET Parameters} :
              CallMethod(Interfaces[k], m, args, fuzz)
         \/ CallUnknownMethod(Interfaces[k], m, fuzz)
    \/ \E p \in Properties, v \in Values : SetProperty(p, v, fuzz)
    \/ MakeArbitraryTransition(fuzz)

Step ==
  \/ SkipTransition \/ FailPreconditions \/ KeepCandidate \/ TakeTransition
  \/ LeaveLoop \/ SettleFailure \/ SettleCandidate
  \/ ExecuteStatement \/ EndTransition
  \/ ReturnMethod \/ ReturnProperty \/ ReturnArbitrary
  \/ Abort

Next == Call \/ ResetState \/ OtherMachineExecutes \/ Step

Spec == Init /\ [][Next]_vars

\* A call runs synchronously on the main loop: once in, it keeps going.
FairSpec == Spec /\ WF_vars(Step)
----------------------------------------------------------------------------
(* Properties. *)

Arguments == UNION {[names -> Values] : names \in SUBSET Parameters}

Output == [kind : {"reply", "throw", "emit"}, value : Values \cup {Unit, FailedError}]

\* Every variable has its type; the indices point into the call's table.
TypeOK ==
  /\ transitions \in Descriptions
  /\ machine_state \in MachineStates
  /\ object \in [ObjectVariables -> Values]
  /\ locals \in Arguments
  /\ enable_fuzzing \in BOOLEAN
  /\ pc \in {"idle", "find", "failure", "candidate", "execute", "done", "returned", "aborted"}
  /\ call \in [trigger : Trigger, args : Arguments, fuzz : BOOLEAN, known : BOOLEAN]
  /\ call.trigger.kind = "property" => DOMAIN call.args = {"value"}
  /\ offset \in Nat
  /\ i \in 0..Len(Possible)
  /\ candidate \in 0..Len(Possible)
  /\ failure \in 0..Len(Possible)
  /\ running \in (IF pc = "execute" THEN 1 ELSE 0)..Len(Possible)
  /\ statement \in 0..(IF running = 0 THEN 0 ELSE Len(Possible[running].statements))
  /\ outputted \in BOOLEAN
  /\ output \in Seq(Output)
  /\ changed \in BOOLEAN
  /\ entry \in [state : MachineStates, object : [ObjectVariables -> Values],
                locals : Arguments, fuzzing : BOOLEAN]

AnswersIn(o) == {k \in DOMAIN o : IsAnswer(o[k])}
Answers == AnswersIn(output)

Plain(t) == \A k \in DOMAIN t.preconditions : t.preconditions[k].expression.kind # "fuzzy"

\* The preconditions of t as the environment stood when the call came in,
\* with the fuzzing switch at f.
OutcomesAtEntry(p, f) == Outcomes(entry.object, entry.locals, f, p.expression)

EligibleAtEntry(t) == t.from = entry.state /\ t \notin Filtered

CouldPassAtEntry(t, f) ==
  /\ EligibleAtEntry(t)
  /\ \A k \in DOMAIN t.preconditions :
       t.preconditions[k].value \in OutcomesAtEntry(t.preconditions[k], f)

MustPassAtEntry(t) ==
  /\ EligibleAtEntry(t)
  /\ \A k \in DOMAIN t.preconditions :
       OutcomesAtEntry(t.preconditions[k], entry.fuzzing) = {t.preconditions[k].value}

\* A method call that returns to the caller has put exactly one reply or
\* error in the output sequence, whichever way the selection loop went (it
\* needs preconditions without fuzzy literals, which may fail and then hold).
\* Setting a property and an arbitrary transition never put one there: there
\* is no message to answer.
AnsweredOnce ==
  /\ call.trigger.kind # "method" => Answers = {}
  /\ pc = "returned" /\ call.trigger.kind = "method" /\ (\A k \in DOMAIN Possible : Plain(Possible[k]))
       => \E k \in DOMAIN output : Answers = {k}

\* The state and the environment after a call in which a transition ran are
\* those of a transition that was eligible when the call came in, left for
\* its target state unless it throws.
MovesAlongTransition ==
  pc = "returned" /\ running # 0 =>
    /\ CouldPassAtEntry(Possible[running], entry.fuzzing)
    /\ machine_state = IF ContainsThrow(Possible[running])
                         THEN entry.state ELSE Possible[running].to

\* A call that runs no transition leaves the machine where it was, except
\* that the default transition of a property sets its variable.
RefusalLeavesNoTrace ==
  pc = "returned" /\ running = 0 =>
    /\ machine_state = entry.state
    /\ \A v \in ObjectVariables :
         object[v] # entry.object[v] =>
           call.trigger = [kind |-> "property", name |-> v] /\ changed

\* Without fuzzing, a throwing transition runs only if no other transition
\* was sure to be executable when the call came in, at whatever offset the
\* loop started and in whatever order it met them.
ThrowsOnlyAsLastResort ==
  (pc = "returned" /\ running # 0) /\ (~ call.fuzz /\ ContainsThrow(Possible[running])) =>
    \A k \in DOMAIN Possible : MustPassAtEntry(Possible[k]) => ContainsThrow(Possible[k])

\* A call whose trigger has transitions runs none of them only if none was
\* sure to be executable, again whatever the offset.
RefusesOnlyIfNoneEligible ==
  pc = "returned" /\ running = 0 /\ call.known =>
    \A k \in DOMAIN Possible : ~ MustPassAtEntry(Possible[k])

\* The local scope is empty between calls, as dfsm_environment_set_variable_type
\* asserts when the next call binds its arguments.
LocalsRestored == Ready => locals = NoLocals

\* A variable that a transition uses exists, as its check has found (the
\* assertion in dfsm_environment_dup_variable_value), through the whole call:
\* only a call through another interface than the one it was checked with, with
\* other in-arguments, lacks it.
VariablesExist ==
  UndefinedVariable => ~ (ScopeAtCheck(call.trigger) \subseteq DOMAIN call.args)

\* The state only moves at the end of a transition that does not throw, or
\* by a reset.
StateMovesOnlyAtEnd ==
  [][machine_state' # machine_state =>
       \/ /\ pc = "execute" /\ pc' = "done"
          /\ statement = Len(Possible[running].statements)
          /\ ~ ContainsThrow(Possible[running])
       \/ pc' = "idle"]_vars

\* Every call returns or aborts: the selection loop and the execution of the
\* statements end.
CallReturns == pc = "find" ~> pc \in {"returned", "aborted"}

----------------------------------------------------------------------------
(* What the comments, the assertions and the manual say and the code does  *)
(* not do: a run refutes it.                                               *)

\* The assertion at the end of find_and_execute_random_transition: a failed
\* precondition and a candidate are never both left over.
OneOutcome == pc = "done" => failure = 0 \/ candidate = 0
=============================================================================
