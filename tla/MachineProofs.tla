--------------------------- MODULE MachineProofs ---------------------------
(***************************************************************************)
(* Proofs about Machine, for every set of states, values and transition    *)
(* tables: type correctness, that the selection loop and the execution of  *)
(* a transition keep the promises the runs of MCMachine check, and that    *)
(* the machine only visits states its transition graph reaches.            *)
(***************************************************************************)
EXTENDS MachineReachability, TLAPS

----------------------------------------------------------------------------
(* The inductive invariant: what holds at each place of a call. *)

Selecting == pc \in {"find", "failure", "candidate"}

At(k) == ((k + offset) % Len(Possible)) + 1

\* Until a transition executes, the machine is as the call found it.
FrozenInv ==
  /\ Selecting => /\ object = entry.object
                  /\ locals = entry.locals
                  /\ enable_fuzzing = entry.fuzzing
                  /\ running = 0
  /\ Selecting \/ pc = "execute" => machine_state = entry.state
  /\ pc \in {"done", "returned"} =>
       machine_state = IF running # 0 /\ ~ ContainsThrow(Possible[running])
                         THEN Possible[running].to ELSE entry.state
  /\ pc = "done" /\ running = 0 => object = entry.object

ThrowingFailure(t) ==
  \E k \in DOMAIN t.preconditions :
    /\ t.preconditions[k].throws
    /\ OutcomesAtEntry(t.preconditions[k], entry.fuzzing) \ {t.preconditions[k].value} # {}
    /\ \A j \in 1..(k - 1) :
         t.preconditions[j].value \in OutcomesAtEntry(t.preconditions[j], entry.fuzzing)

\* What the loop knows of the transitions it has been through.
LoopInv ==
  /\ Possible # <<>> /\ call.known => offset \in 0..(Len(Possible) - 1)
  /\ Selecting => Possible # <<>>
  /\ Selecting \/ pc \in {"execute", "done"} => call.known
  /\ ~ call.known => i = 0
  /\ pc \in {"failure", "candidate"} => i = Len(Possible)
  /\ \A k \in 0..(i - 1) :
       MustPassAtEntry(Possible[At(k)]) =>
         ContainsThrow(Possible[At(k)]) /\ (running = 0 => candidate # 0)
  /\ candidate # 0 => /\ CouldPassAtEntry(Possible[candidate], entry.fuzzing)
                      /\ ContainsThrow(Possible[candidate])
  /\ failure # 0 => call.trigger.kind = "method" /\ ThrowingFailure(Possible[failure])
  /\ running # 0 => call.known /\ CouldPassAtEntry(Possible[running], entry.fuzzing)
  /\ running # 0 /\ ~ call.fuzz /\ ContainsThrow(Possible[running]) => i = Len(Possible)
  /\ pc \in {"done", "returned"} /\ running = 0 /\ call.known => candidate = 0 /\ i = Len(Possible)

AllPlain == \A k \in DOMAIN Possible : Plain(Possible[k])

ExactlyOneAnswer == \E k \in DOMAIN output : Answers = {k}

AnsweredSoFar == \E j \in 1..statement : IsAnswer(Possible[running].statements[j])

\* How many replies and errors the output sequence holds.
AnswerInv ==
  /\ call.trigger.kind # "method" => Answers = {}
  /\ pc \in {"find", "failure"} => output = <<>> /\ ~ outputted
  /\ pc = "candidate" /\ failure = 0 => output = <<>> /\ ~ outputted
  /\ pc = "candidate" /\ failure # 0 => outputted /\ (AllPlain => ExactlyOneAnswer)
  /\ pc = "execute" => outputted /\ (failure # 0 => candidate # 0)
  /\ pc = "execute" /\ failure = 0 /\ call.trigger.kind = "method" =>
       IF AnsweredSoFar THEN ExactlyOneAnswer ELSE Answers = {}
  /\ pc = "done" /\ call.trigger.kind = "method" /\ (failure = 0 \/ candidate = 0) /\ AllPlain =>
       IF outputted THEN ExactlyOneAnswer ELSE Answers = {}
  /\ pc = "returned" /\ call.trigger.kind = "method" /\ AllPlain => ExactlyOneAnswer

----------------------------------------------------------------------------
(* Lemmas about the tables, the environment and the output sequence. *)

\* The transitions of every trigger are a sequence of well-formed ones.
LEMMA TableType ==
  ASSUME transitions \in Descriptions, NEW trigger \in Trigger
  PROVE  /\ transitions[trigger] \in Seq(ObjectTransition)
         /\ \A k \in DOMAIN transitions[trigger] : PreChecked(trigger, transitions[trigger][k])
BY DescriptionsAssumption

\* A transition of the table has typed fields.
LEMMA TransitionType ==
  ASSUME NEW t \in ObjectTransition
  PROVE  /\ t.from \in MachineStates /\ t.to \in MachineStates
         /\ t.preconditions \in Seq(Precondition)
         /\ t.statements \in Seq(Statement)
BY DEF ObjectTransition

\* The triggers of the four kinds of call.
LEMMA TriggerType ==
  /\ \A m \in Methods : OnMethod(m) \in Trigger /\ OnMethod(m).kind = "method"
  /\ \A p \in Properties : OnProperty(p) \in Trigger /\ OnProperty(p).kind = "property"
  /\ OnTimeout \in Trigger /\ OnTimeout.kind = "arbitrary"
BY DEF OnMethod, OnProperty, OnTimeout, Trigger

LEMMA NoLocalsType == NoLocals \in Arguments
<1>1. {} \in SUBSET Parameters
  OBVIOUS
<1>2. NoLocals \in [{} -> Values]
  BY DEF NoLocals
<1> QED
  BY <1>1, <1>2 DEF Arguments

\* The argument of the special parameter of a property's setter.
LEMMA ValueArgumentType ==
  ASSUME NEW v \in Values
  PROVE  [name \in {"value"} |-> v] \in Arguments
<1>1. {"value"} \in SUBSET Parameters
  BY ParameterNames
<1>2. [name \in {"value"} |-> v] \in [{"value"} -> Values]
  OBVIOUS
<1> QED
  BY <1>1, <1>2 DEF Arguments

\* The loop's index, an offset modulo the length, points into the table.
LEMMA IndexInTable ==
  ASSUME NEW n \in Nat, n # 0, NEW a \in Nat, NEW b \in Nat
  PROVE  ((a + b) % n) + 1 \in 1..n
<1>1. a + b \in Nat
  OBVIOUS
<1>2. (a + b) % n \in 0..(n - 1)
  BY <1>1
<1> QED
  BY <1>2

\* Starting anywhere, n steps round a table of length n visit all of it.
LEMMA Rotation ==
  ASSUME NEW n \in Nat, n # 0, NEW o \in 0..(n - 1), NEW j \in 1..n
  PROVE  \E k \in 0..(n - 1) : ((k + o) % n) + 1 = j
<1>1. CASE j - 1 >= o
  <2>1. ((j - 1 - o) + o) % n = j - 1
    BY <1>1
  <2> QED
    BY <1>1, <2>1
<1>2. CASE j - 1 < o
  <2> DEFINE k == (j - 1) + (n - o)
  <2>1. k \in 0..(n - 1) /\ k + o = (j - 1) + n
    BY <1>2
  <2>2. ((j - 1) + n) % n = j - 1
    OBVIOUS
  <2> HIDE DEF k
  <2>3. (k + o) % n = j - 1
    BY <2>1, <2>2
  <2> QED
    BY <2>1, <2>3
<1> QED
  BY <1>1, <1>2

\* Appending to an output sequence adds an answer if and only if the item
\* appended is one.
LEMMA AppendAnswer ==
  ASSUME NEW o \in Seq(Output), NEW x \in Output
  PROVE  /\ IsAnswer(x) => AnswersIn(Append(o, x)) = AnswersIn(o) \cup {Len(o) + 1}
         /\ ~ IsAnswer(x) => AnswersIn(Append(o, x)) = AnswersIn(o)
         /\ DOMAIN Append(o, x) = DOMAIN o \cup {Len(o) + 1}
         /\ Append(o, x) \in Seq(Output)
         /\ o = <<>> => AnswersIn(o) = {}
<1> DEFINE p == Append(o, x)
<1>1. /\ p \in Seq(Output) /\ Len(p) = Len(o) + 1 /\ Len(o) \in Nat
      /\ DOMAIN p = 1..Len(p) /\ DOMAIN o = 1..Len(o)
      /\ p[Len(o) + 1] = x
      /\ \A k \in 1..Len(o) : p[k] = o[k]
  OBVIOUS
<1>2. DOMAIN p = DOMAIN o \cup {Len(o) + 1}
  BY <1>1
<1>3. o = <<>> => AnswersIn(o) = {}
  BY DEF AnswersIn
<1> HIDE DEF p
<1>4. IsAnswer(x) => AnswersIn(p) = AnswersIn(o) \cup {Len(o) + 1}
  BY <1>1, <1>2 DEF AnswersIn
<1>5. ~ IsAnswer(x) => AnswersIn(p) = AnswersIn(o)
  BY <1>1, <1>2 DEF AnswersIn
<1> QED
  BY <1>1, <1>2, <1>3, <1>4, <1>5 DEF p

----------------------------------------------------------------------------
(* Type correctness. *)

LEMMA PossibleType ==
  ASSUME TypeOK
  PROVE  /\ Possible \in Seq(ObjectTransition)
         /\ Len(Possible) \in Nat
         /\ DOMAIN Possible = 1..Len(Possible)
         /\ \A k \in 1..Len(Possible) :
              /\ Possible[k] \in ObjectTransition
              /\ PreChecked(call.trigger, Possible[k])
<1>1. call.trigger \in Trigger
  BY DEF TypeOK
<1>2. Possible \in Seq(ObjectTransition)
  BY <1>1, TableType DEF TypeOK, Possible
<1> QED
  BY <1>1, <1>2, TableType DEF TypeOK, Possible

\* Inside the loop, the current index points into the table.
LEMMA CurrentType ==
  ASSUME TypeOK, Iterate
  PROVE  Current \in 1..Len(Possible) /\ i + 1 \in 0..Len(Possible)
BY PossibleType, IndexInTable DEF Iterate, Current, TypeOK

LEMMA TypeInit == Init => TypeOK
<1> SUFFICES ASSUME Init PROVE TypeOK
  OBVIOUS
<1>1. call.trigger = OnTimeout /\ call \in [trigger : Trigger, args : Arguments, fuzz : BOOLEAN, known : BOOLEAN]
  BY TriggerType, NoLocalsType DEF Init
<1>2. Possible \in Seq(ObjectTransition)
  BY <1>1, TableType, TriggerType DEF Init, Possible
<1>3. 0 \in 0..Len(Possible)
  BY <1>2
<1>4. output \in Seq(Output)
  BY DEF Init
<1>5. statement \in 0..(IF running = 0 THEN 0 ELSE Len(Possible[running].statements))
  BY DEF Init
<1>6. /\ i \in 0..Len(Possible) /\ candidate \in 0..Len(Possible)
      /\ failure \in 0..Len(Possible)
      /\ running \in (IF pc = "execute" THEN 1 ELSE 0)..Len(Possible)
      /\ call.trigger.kind = "arbitrary"
  BY <1>1, <1>3, TriggerType DEF Init
<1>7. entry \in [state : MachineStates, object : [ObjectVariables -> Values],
                locals : Arguments, fuzzing : BOOLEAN]
  BY NoLocalsType, ConstantsAssumption DEF Init
<1>8. /\ transitions \in Descriptions /\ machine_state \in MachineStates
      /\ object \in [ObjectVariables -> Values] /\ enable_fuzzing \in BOOLEAN
      /\ outputted \in BOOLEAN /\ changed \in BOOLEAN
      /\ locals \in Arguments /\ pc = "idle" /\ offset = 0
  BY NoLocalsType, ConstantsAssumption DEF Init
<1> QED
  BY <1>1, <1>4, <1>5, <1>6, <1>7, <1>8 DEF TypeOK

\* What entering a call leaves to show.
LEMMA EnterType ==
  ASSUME TypeOK, NEW trigger \in Trigger, NEW args \in Arguments,
         NEW fuzz \in BOOLEAN, NEW known \in BOOLEAN,
         trigger.kind = "property" => DOMAIN args = {"value"},
         Enter(trigger, args, fuzz, known),
         offset' \in Nat, locals' \in Arguments,
         pc' \in {"find", "done", "returned"}, output' \in Seq(Output)
  PROVE  TypeOK'
<1>1. Possible' = transitions[trigger]
  BY DEF Enter, Possible
<1>2. Possible' \in Seq(ObjectTransition)
  BY <1>1, TableType DEF TypeOK
<1>3. 0 \in 0..Len(Possible')
  BY <1>2
<1>4. call' \in [trigger : Trigger, args : Arguments, fuzz : BOOLEAN, known : BOOLEAN]
  BY DEF Enter
<1>5. entry' \in [state : MachineStates, object : [ObjectVariables -> Values],
                 locals : Arguments, fuzzing : BOOLEAN]
  BY DEF Enter, TypeOK
<1>6. statement' \in 0..(IF running' = 0 THEN 0 ELSE Len(Possible'[running'].statements))
  BY DEF Enter
<1>7. /\ i' \in 0..Len(Possible') /\ candidate' \in 0..Len(Possible')
      /\ failure' \in 0..Len(Possible')
      /\ running' \in (IF pc' = "execute" THEN 1 ELSE 0)..Len(Possible')
      /\ call'.trigger.kind = "property" => DOMAIN call'.args = {"value"}
  BY <1>3 DEF Enter
<1>8. /\ transitions' \in Descriptions /\ machine_state' \in MachineStates
      /\ object' \in [ObjectVariables -> Values] /\ enable_fuzzing' \in BOOLEAN
      /\ outputted' \in BOOLEAN /\ changed' \in BOOLEAN
  BY DEF Enter, TypeOK
<1> QED
  BY <1>4, <1>5, <1>6, <1>7, <1>8 DEF TypeOK

\* The offset the loop starts from.
LEMMA FindType ==
  ASSUME TypeOK, NEW trigger \in Trigger, NEW args \in Arguments, Find(trigger, args)
  PROVE  /\ offset' \in Nat /\ locals' \in Arguments
         /\ pc' = "find" /\ output' \in Seq(Output)
         /\ offset' \in 0..(Len(transitions[trigger]) - 1)
<1>1. transitions[trigger] \in Seq(ObjectTransition)
  BY TableType DEF TypeOK
<1> QED
  BY <1>1 DEF Find

LEMMA CallTypes ==
  ASSUME TypeOK, Call
  PROVE  TypeOK'
<1>1. ASSUME NEW fuzz \in BOOLEAN, NEW interface, NEW m \in Methods,
             NEW args \in Arguments, CallMethod(interface, m, args, fuzz)
      PROVE  TypeOK'
  BY <1>1, EnterType, FindType, TriggerType DEF CallMethod
<1>2. ASSUME NEW fuzz \in BOOLEAN, NEW interface, NEW m \in Methods,
             CallUnknownMethod(interface, m, fuzz)
      PROVE  TypeOK'
  <2>1. output' \in Seq(Output)
    <3>1. [kind |-> "reply", value |-> Unit] \in Output
      BY DEF Output
    <3> QED
      BY <1>2, <3>1 DEF CallUnknownMethod
  <2>2. locals' \in Arguments
    BY <1>2 DEF CallUnknownMethod, TypeOK
  <2> QED
    BY <1>2, <2>1, <2>2, EnterType, TriggerType, NoLocalsType DEF CallUnknownMethod
<1>3. ASSUME NEW fuzz \in BOOLEAN, NEW p \in Properties, NEW v \in Values,
             SetProperty(p, v, fuzz)
      PROVE  TypeOK'
  <2> DEFINE args == [name \in {"value"} |-> v]
  <2>1. args \in Arguments /\ DOMAIN args = {"value"}
    BY ValueArgumentType
  <2> HIDE DEF args
  <2>2. Enter(OnProperty(p), args, fuzz, TRUE)
    BY <1>3 DEF SetProperty, args
  <2>3. CASE transitions[OnProperty(p)] = <<>>
    <3>1. output' \in Seq(Output) /\ locals' \in Arguments /\ offset' \in Nat /\ pc' = "done"
      BY <1>3, <2>3 DEF SetProperty, TypeOK
    <3> QED
      BY <2>1, <2>2, <3>1, EnterType, TriggerType
  <2>4. CASE transitions[OnProperty(p)] # <<>>
    <3>1. Find(OnProperty(p), args)
      BY <1>3, <2>4 DEF SetProperty, args
    <3> QED
      BY <2>1, <2>2, <3>1, FindType, EnterType, TriggerType
  <2> QED
    BY <2>3, <2>4
<1>4. ASSUME NEW fuzz \in BOOLEAN, MakeArbitraryTransition(fuzz)
      PROVE  TypeOK'
  <2>1. Enter(OnTimeout, NoLocals, fuzz, TRUE)
    BY <1>4 DEF MakeArbitraryTransition
  <2>2. CASE transitions[OnTimeout] = <<>>
    <3>1. output' \in Seq(Output) /\ locals' \in Arguments /\ offset' \in Nat /\ pc' = "done"
      BY <1>4, <2>2 DEF MakeArbitraryTransition, TypeOK
    <3> QED
      BY <2>1, <3>1, EnterType, TriggerType, NoLocalsType
  <2>3. CASE transitions[OnTimeout] # <<>>
    BY <1>4, <2>1, <2>3, EnterType, FindType, TriggerType, NoLocalsType DEF MakeArbitraryTransition
  <2> QED
    BY <2>2, <2>3
<1> QED
  BY <1>1, <1>2, <1>3, <1>4 DEF Call, Arguments

\* Evaluation yields values, and the output of a statement is well typed.
LEMMA EvaluateType == \A obj, loc, fuzzing, e : Outcomes(obj, loc, fuzzing, e) \subseteq Values
BY DEF Outcomes

LEMMA StatementType ==
  ASSUME NEW t \in ObjectTransition, NEW k \in DOMAIN t.statements, NEW v \in Values
  PROVE  /\ t.statements[k].kind \in {"assign", "bind", "reply", "throw", "emit"}
         /\ t.statements[k].kind = "assign" => t.statements[k].target \in ObjectVariables
         /\ t.statements[k].kind = "bind" => t.statements[k].target \in Parameters
         /\ t.statements[k].kind \in {"reply", "throw", "emit"} =>
              [kind |-> t.statements[k].kind, value |-> v] \in Output
<1>1. t.statements[k] \in Statement
  BY TransitionType
<1> QED
  BY <1>1 DEF Statement, Output

LEMMA StepTypes ==
  ASSUME TypeOK, Step
  PROVE  TypeOK'
<1> USE PossibleType
<1>1. CASE SkipTransition
  BY <1>1, CurrentType DEF SkipTransition, Iterate, NextIteration, environment, execution, TypeOK, Possible
<1>2. CASE FailPreconditions
  <2>1. failure' \in 0..Len(Possible)
    BY <1>2, CurrentType DEF FailPreconditions, TypeOK
  <2> QED
    BY <1>2, <2>1, CurrentType
       DEF FailPreconditions, Iterate, NextIteration, environment, execution, TypeOK, Possible
<1>3. CASE KeepCandidate
  BY <1>3, CurrentType DEF KeepCandidate, Iterate, NextIteration, environment, execution, TypeOK, Possible
<1>4. CASE TakeTransition
  <2>1. Possible[Current].statements \in Seq(Statement) /\ Possible' = Possible
    BY <1>4, CurrentType, TransitionType DEF TakeTransition, Iterate, Possible
  <2>2. statement' \in 0..(IF running' = 0 THEN 0 ELSE Len(Possible'[running'].statements))
    BY <1>4, <2>1 DEF TakeTransition, Execute
  <2> QED
    BY <1>4, <2>1, <2>2, CurrentType DEF TakeTransition, Execute, Iterate, environment, TypeOK
<1>5. CASE LeaveLoop
  BY <1>5 DEF LeaveLoop, environment, selection, execution, TypeOK, Possible
<1>6. CASE SettleFailure
  <2>1. [kind |-> "throw", value |-> FailedError] \in Output
    BY DEF Output
  <2>2. output \in Seq(Output) /\ Append(output, [kind |-> "throw", value |-> FailedError]) \in Seq(Output)
    BY <2>1, AppendAnswer DEF TypeOK
  <2>3. output' \in {output, Append(output, [kind |-> "throw", value |-> FailedError])}
    BY <1>6 DEF SettleFailure, NoFailure, ThrowFailure
  <2>4. outputted' \in BOOLEAN
    BY <1>6 DEF SettleFailure, NoFailure, ThrowFailure, TypeOK
  <2> QED
    BY <1>6, <2>2, <2>3, <2>4 DEF SettleFailure, environment, selection, execution, TypeOK, Possible
<1>7. CASE SettleCandidate
  <2>1. Possible' = Possible
    BY <1>7 DEF SettleCandidate, Possible
  <2>2. CASE candidate = 0
    BY <1>7, <2>1, <2>2 DEF SettleCandidate, environment, selection, execution, TypeOK
  <2>3. CASE candidate # 0
    <3>1. Possible[candidate].statements \in Seq(Statement)
      BY <2>3, TransitionType DEF TypeOK
    <3>2. statement' \in 0..(IF running' = 0 THEN 0 ELSE Len(Possible'[running'].statements))
      BY <1>7, <2>1, <2>3, <3>1 DEF SettleCandidate, Execute
    <3> QED
      BY <1>7, <2>1, <2>3, <3>2 DEF SettleCandidate, Execute, environment, selection, TypeOK
  <2> QED
    BY <2>2, <2>3
<1>8. CASE ExecuteStatement
  <2> DEFINE s == Possible[running].statements[statement + 1]
  <2>1. Possible' = Possible
    BY <1>8 DEF ExecuteStatement, Possible
  <2>3. running # 0
    BY <1>8 DEF ExecuteStatement, TypeOK
  <2>4. TypeOK'
    <3>1. Possible[running] \in ObjectTransition /\ Possible[running].statements \in Seq(Statement)
      BY <2>3, TransitionType DEF TypeOK
    <3>2. statement + 1 \in DOMAIN Possible[running].statements
      BY <1>8, <2>3, <3>1 DEF ExecuteStatement, TypeOK
    <3>3. PICK v \in Values :
            \/ s.kind = "assign" /\ object' = [object EXCEPT ![s.target] = v] /\ UNCHANGED <<locals, output>>
            \/ /\ s.kind = "bind" /\ s.target \in DOMAIN locals
               /\ locals' = [locals EXCEPT ![s.target] = v] /\ UNCHANGED <<object, output>>
            \/ /\ s.kind \in {"reply", "throw", "emit"}
               /\ output' = Append(output, [kind |-> s.kind, value |-> v]) /\ UNCHANGED environment
      BY <1>8, EvaluateType DEF ExecuteStatement, Evaluate
    <3>4. locals' \in Arguments
      <4>1. PICK names \in SUBSET Parameters : locals \in [names -> Values]
        BY DEF TypeOK, Arguments
      <4>2. locals' \in [names -> Values]
        BY <3>3, <4>1 DEF environment
      <4> QED
        BY <4>1, <4>2 DEF Arguments
    <3>5. object' \in [ObjectVariables -> Values]
      BY <3>3 DEF environment, TypeOK
    <3>7. output' \in Seq(Output)
      <4>1. CASE s.kind \in {"reply", "throw", "emit"}
        <5>1. [kind |-> s.kind, value |-> v] \in Output
          BY <3>1, <3>2, <4>1, StatementType
        <5>2. Append(output, [kind |-> s.kind, value |-> v]) \in Seq(Output)
          BY <5>1, AppendAnswer DEF TypeOK
        <5>3. output' = Append(output, [kind |-> s.kind, value |-> v])
          <6> HIDE DEF s
          <6> QED
            BY <3>3, <4>1
        <5> QED
          BY <5>2, <5>3
      <4>2. CASE s.kind \notin {"reply", "throw", "emit"}
        BY <3>3, <4>2 DEF TypeOK
      <4> QED
        BY <4>1, <4>2
    <3>6. statement' \in 0..(IF running' = 0 THEN 0 ELSE Len(Possible'[running'].statements))
      BY <1>8, <2>1, <2>3, <3>1, <3>2 DEF ExecuteStatement, TypeOK
    <3> QED
      BY <1>8, <2>1, <2>3, <3>4, <3>5, <3>6, <3>7 DEF ExecuteStatement, selection, TypeOK
  <2> QED
    BY <2>4
<1>9. CASE EndTransition
  <2>1. machine_state' \in MachineStates
    <3>1. running \in 1..Len(Possible)
      BY <1>9 DEF EndTransition, TypeOK
    <3>2. Possible[running].to \in MachineStates
      BY <3>1, TransitionType
    <3> QED
      BY <1>9, <3>2 DEF EndTransition, TypeOK
  <2> QED
    BY <1>9, <2>1 DEF EndTransition, environment, selection, execution, TypeOK, Possible
<1>10. CASE ReturnMethod
  <2>1. [kind |-> "reply", value |-> Unit] \in Output
    BY DEF Output
  <2> QED
    BY <1>10, <2>1, NoLocalsType DEF ReturnMethod, Return, selection, execution, TypeOK, Possible
<1>11. CASE ReturnProperty
  <2>1. call.trigger.name \in Properties /\ call.trigger.name \in ObjectVariables
    BY <1>11, ConstantsAssumption DEF ReturnProperty, TypeOK, Trigger
  <2>2. call.args["value"] \in Values
    BY <1>11 DEF ReturnProperty, TypeOK, Arguments
  <2>3. object' \in [ObjectVariables -> Values]
    BY <1>11, <2>1, <2>2 DEF ReturnProperty, TypeOK
  <2>4. changed' \in BOOLEAN
    BY <1>11 DEF ReturnProperty
  <2> QED
    BY <1>11, <2>3, <2>4, NoLocalsType DEF ReturnProperty, Return, selection, execution, TypeOK, Possible
<1>12. CASE ReturnArbitrary
  BY <1>12, NoLocalsType DEF ReturnArbitrary, Return, selection, execution, TypeOK, Possible
<1>13. CASE Abort
  BY <1>13 DEF Abort, environment, selection, execution, TypeOK, Possible
<1> QED
  BY <1>1, <1>2, <1>3, <1>4, <1>5, <1>6, <1>7, <1>8, <1>9, <1>10, <1>11, <1>12, <1>13 DEF Step

\* Every variable keeps its type, for every table of checked transitions.
THEOREM TypeCorrect == Spec => []TypeOK
<1>1. TypeOK /\ [Next]_vars => TypeOK'
  <2> SUFFICES ASSUME TypeOK, [Next]_vars PROVE TypeOK'
    OBVIOUS
  <2>1. CASE Call
    BY <2>1, CallTypes
  <2>2. CASE ResetState
    BY <2>2, NoLocalsType, ConstantsAssumption
       DEF ResetState, Ready, selection, execution, TypeOK, Possible
  <2>3. CASE OtherMachineExecutes
    BY <2>3 DEF OtherMachineExecutes, environment, selection, execution, TypeOK, Possible
  <2>4. CASE Step
    BY <2>4, StepTypes
  <2>5. CASE UNCHANGED vars
    BY <2>5 DEF vars, environment, selection, execution, TypeOK, Possible
  <2> QED
    BY <2>1, <2>2, <2>3, <2>4, <2>5 DEF Next
<1> QED
  BY TypeInit, <1>1, PTL DEF Spec

----------------------------------------------------------------------------
(* The selection loop. *)

\* A transition sure to be executable when the call came in cannot fail its
\* preconditions while the environment is as the call found it; one that
\* passes them could have passed them on entry.
LEMMA FrozenPreconditions ==
  ASSUME TypeOK, FrozenInv, Selecting, NEW t \in ObjectTransition
  PROVE  /\ MustPassAtEntry(t) => /\ Eligible(t)
                                  /\ \A k \in DOMAIN t.preconditions : ~ FailsAt(t, k)
         /\ Eligible(t) /\ Satisfiable(t) => CouldPassAtEntry(t, entry.fuzzing)
         /\ \A k \in DOMAIN t.preconditions :
              FailsAt(t, k) /\ t.preconditions[k].throws => ThrowingFailure(t)
<1>1. /\ object = entry.object /\ locals = entry.locals
      /\ enable_fuzzing = entry.fuzzing /\ machine_state = entry.state
  BY DEF FrozenInv
<1>2. \A p : Evaluate(p.expression) = OutcomesAtEntry(p, entry.fuzzing)
  BY <1>1 DEF Evaluate, OutcomesAtEntry
<1>3. MustPassAtEntry(t) => Eligible(t) /\ \A k \in DOMAIN t.preconditions : ~ FailsAt(t, k)
  BY <1>1, <1>2 DEF MustPassAtEntry, EligibleAtEntry, Eligible, FailsAt, CanFail
<1>4. Eligible(t) /\ Satisfiable(t) => CouldPassAtEntry(t, entry.fuzzing)
  BY <1>1, <1>2 DEF CouldPassAtEntry, EligibleAtEntry, Eligible, Satisfiable, CanHold
<1>5. \A k \in DOMAIN t.preconditions :
        FailsAt(t, k) /\ t.preconditions[k].throws => ThrowingFailure(t)
  BY <1>2 DEF ThrowingFailure, FailsAt, CanFail, CanReach, CanHold
<1> QED
  BY <1>3, <1>4, <1>5

\* Preconditions without fuzzy literals have at most one outcome each, so one
\* that failed on entry fails again when it is evaluated again.
LEMMA PlainOutcome ==
  ASSUME NEW obj, NEW loc, NEW f, NEW g, NEW e \in Expression, e.kind # "fuzzy",
         NEW u \in Outcomes(obj, loc, f, e), NEW v \in Outcomes(obj, loc, g, e)
  PROVE  u = v
BY DEF Outcomes, Expression

LEMMA FrozenInit == Init => FrozenInv
BY DEF Init, FrozenInv, Selecting

LEMMA FrozenNext ==
  ASSUME TypeOK, FrozenInv, [Next]_vars
  PROVE  FrozenInv'
<1> USE DEF FrozenInv, Selecting
<1>1. CASE Call
  <2>1. ASSUME NEW fuzz, NEW interface, NEW m, NEW args, CallMethod(interface, m, args, fuzz)
        PROVE  FrozenInv'
    BY <2>1 DEF CallMethod, Enter, Find
  <2>2. ASSUME NEW fuzz, NEW interface, NEW m, CallUnknownMethod(interface, m, fuzz)
        PROVE  FrozenInv'
    BY <2>2 DEF CallUnknownMethod, Enter
  <2>3. ASSUME NEW fuzz, NEW p, NEW v, SetProperty(p, v, fuzz)
        PROVE  FrozenInv'
    BY <2>3 DEF SetProperty, Enter, Find
  <2>4. ASSUME NEW fuzz, MakeArbitraryTransition(fuzz)
        PROVE  FrozenInv'
    BY <2>4 DEF MakeArbitraryTransition, Enter, Find
  <2> QED
    BY <1>1, <2>1, <2>2, <2>3, <2>4 DEF Call
<1>2. CASE ResetState
  BY <1>2 DEF ResetState
<1>3. CASE OtherMachineExecutes
  BY <1>3 DEF OtherMachineExecutes, Ready, environment, selection, execution, Possible
<1>4. CASE SkipTransition \/ FailPreconditions \/ KeepCandidate
  BY <1>4 DEF SkipTransition, FailPreconditions, KeepCandidate, Iterate, NextIteration, environment, execution
<1>5. CASE TakeTransition
  BY <1>5 DEF TakeTransition, Iterate, Execute, environment
<1>6. CASE LeaveLoop \/ SettleFailure
  BY <1>6 DEF LeaveLoop, SettleFailure, environment, selection, execution
<1>7. CASE SettleCandidate
  BY <1>7 DEF SettleCandidate, Execute, environment, selection, execution, TypeOK
<1>8. CASE ExecuteStatement
  BY <1>8 DEF ExecuteStatement, selection
<1>9. CASE EndTransition
  BY <1>9 DEF EndTransition, environment, selection, execution, Possible, TypeOK
<1>10. CASE ReturnMethod \/ ReturnProperty \/ ReturnArbitrary
  BY <1>10 DEF ReturnMethod, ReturnProperty, ReturnArbitrary, Return, selection, execution, Possible
<1>11. CASE Abort
  BY <1>11 DEF Abort
<1>12. CASE UNCHANGED vars
  BY <1>12 DEF vars, environment, selection, execution, Possible
<1> QED
  BY <1>1, <1>2, <1>3, <1>4, <1>5, <1>6, <1>7, <1>8, <1>9, <1>10, <1>11, <1>12 DEF Next, Step

\* One more iteration that takes no transition keeps what is known of the
\* transitions the loop has been through.
LEMMA VisitedNext ==
  ASSUME TypeOK, LoopInv, FrozenInv, Iterate,
         i' = i + 1, running' = running, Selecting,
         candidate # 0 => candidate' # 0,
         MustPassAtEntry(Possible[Current]) => ContainsThrow(Possible[Current]) /\ candidate' # 0
  PROVE  \A k \in 0..(i' - 1) :
           MustPassAtEntry(Possible[At(k)])' =>
             (ContainsThrow(Possible[At(k)]))' /\ (running' = 0 => candidate' # 0)
<1>1. Possible' = Possible /\ entry' = entry /\ offset' = offset
  BY DEF Iterate, Possible
<1>2. \A k : (At(k))' = At(k)
  BY <1>1 DEF At
<1>3. \A k : MustPassAtEntry(Possible[At(k)])' = MustPassAtEntry(Possible[At(k)])
  BY <1>1, <1>2 DEF MustPassAtEntry, EligibleAtEntry, OutcomesAtEntry
<1>4. At(i) = Current
  BY DEF At, Current
<1>5. \A k : (ContainsThrow(Possible[At(k)]))' = ContainsThrow(Possible[At(k)])
  BY <1>1, <1>2 DEF ContainsThrow
<1> SUFFICES ASSUME NEW k \in 0..(i' - 1), MustPassAtEntry(Possible[At(k)])
             PROVE  ContainsThrow(Possible[At(k)]) /\ (running' = 0 => candidate' # 0)
  BY <1>3, <1>5
<1>6. CASE k = i
  BY <1>4, <1>6
<1>7. CASE k # i
  <2>1. k \in 0..(i - 1)
    BY <1>7 DEF TypeOK
  <2> QED
    BY <2>1 DEF LoopInv
<1> QED
  BY <1>6, <1>7

LEMMA LoopInit == Init => LoopInv
<1> SUFFICES ASSUME Init PROVE LoopInv
  OBVIOUS
<1>1. Possible \in Seq(ObjectTransition)
  BY PossibleType, TypeInit
<1> QED
  BY <1>1 DEF Init, LoopInv, Selecting

\* A call enters the loop with nothing seen.
LEMMA LoopEnter ==
  ASSUME TypeOK, NEW trigger \in Trigger, NEW args, NEW fuzz, NEW known \in BOOLEAN,
         Enter(trigger, args, fuzz, known),
         pc' \in {"find", "done", "returned"},
         pc' = "find" => /\ transitions[trigger] # <<>> /\ known
                         /\ offset' \in 0..(Len(transitions[trigger]) - 1),
         pc' = "done" => transitions[trigger] = <<>> /\ known,
         pc' = "returned" => ~ known
  PROVE  LoopInv'
<1>1. Possible' = transitions[trigger] /\ i' = 0 /\ candidate' = 0 /\ failure' = 0 /\ running' = 0
  BY DEF Enter, Possible
<1>2. call'.known = known
  BY DEF Enter
<1>3. \A k \in 0..(i' - 1) : FALSE
  BY <1>1
<1> QED
  BY <1>1, <1>2, <1>3 DEF LoopInv, Selecting

\* What is known does not depend on the environment, only on the entry.
LEMMA LoopKept ==
  ASSUME TypeOK, LoopInv, UNCHANGED <<transitions, call, entry, selection>>,
         running' = running,
         pc' \in {"failure", "candidate"} => Selecting /\ i = Len(Possible),
         pc' \in {"find", "execute"} => pc' = pc,
         pc' = "done" => pc \in {"execute", "done"} \/ (pc = "candidate" /\ candidate = 0),
         pc' = "returned" => pc \in {"done", "returned"}
  PROVE  LoopInv'
<1>1. Possible' = Possible /\ entry' = entry /\ call' = call
      /\ offset' = offset /\ i' = i /\ candidate' = candidate /\ failure' = failure
  BY DEF Possible, selection
<1>2. \A k : (At(k))' = At(k)
  BY <1>1 DEF At
<1>3. \A k : MustPassAtEntry(Possible[At(k)])' <=> MustPassAtEntry(Possible[At(k)])
  BY <1>1, <1>2 DEF MustPassAtEntry, EligibleAtEntry, OutcomesAtEntry
<1>4. \A k : /\ (ContainsThrow(Possible[At(k)]))' <=> ContainsThrow(Possible[At(k)])
             /\ (ContainsThrow(Possible[k]))' <=> ContainsThrow(Possible[k])
  BY <1>1, <1>2 DEF ContainsThrow
<1>5. /\ (CouldPassAtEntry(Possible[candidate], entry.fuzzing))' <=> CouldPassAtEntry(Possible[candidate], entry.fuzzing)
      /\ (CouldPassAtEntry(Possible[running], entry.fuzzing))' <=> CouldPassAtEntry(Possible[running], entry.fuzzing)
  BY <1>1 DEF CouldPassAtEntry, EligibleAtEntry, OutcomesAtEntry
<1>6. (ThrowingFailure(Possible[failure]))' <=> ThrowingFailure(Possible[failure])
  BY <1>1 DEF ThrowingFailure, OutcomesAtEntry
<1>7. \A k \in 0..(i' - 1) :
        MustPassAtEntry(Possible[At(k)])' =>
          (ContainsThrow(Possible[At(k)]))' /\ (running' = 0 => candidate' # 0)
  BY <1>1, <1>3, <1>4 DEF LoopInv
<1>8. /\ Possible' # <<>> /\ call'.known => offset' \in 0..(Len(Possible') - 1)
      /\ Selecting' => Possible' # <<>>
      /\ Selecting' \/ pc' \in {"execute", "done"} => call'.known
      /\ ~ call'.known => i' = 0
      /\ pc' \in {"failure", "candidate"} => i' = Len(Possible')
  BY <1>1 DEF LoopInv, Selecting
<1>9. /\ candidate' # 0 => /\ CouldPassAtEntry(Possible[candidate], entry.fuzzing)'
                          /\ (ContainsThrow(Possible[candidate]))'
      /\ failure' # 0 => call'.trigger.kind = "method" /\ (ThrowingFailure(Possible[failure]))'
      /\ running' # 0 => call'.known /\ (CouldPassAtEntry(Possible[running], entry.fuzzing))'
      /\ running' # 0 /\ ~ call'.fuzz /\ (ContainsThrow(Possible[running]))' => i' = Len(Possible')
  BY <1>1, <1>5, <1>6 DEF LoopInv, ContainsThrow
<1>10. pc' \in {"done", "returned"} /\ running' = 0 /\ call'.known => candidate' = 0 /\ i' = Len(Possible')
  BY <1>1 DEF LoopInv, Selecting, TypeOK
<1> QED
  BY <1>7, <1>8, <1>9, <1>10 DEF LoopInv

\* An iteration that goes on to the next keeps the invariant.
LEMMA LoopIterate ==
  ASSUME TypeOK, FrozenInv, LoopInv, SkipTransition \/ FailPreconditions \/ KeepCandidate
  PROVE  LoopInv'
<1>1. Iterate /\ NextIteration
  BY DEF SkipTransition, FailPreconditions, KeepCandidate
<1>2. /\ Possible' = Possible /\ entry' = entry /\ call' = call /\ offset' = offset
      /\ i' = i + 1 /\ running' = running /\ pc' = pc /\ pc = "find" /\ running = 0
  BY <1>1 DEF Iterate, NextIteration, execution, Possible, FrozenInv, Selecting
<1>3. Current \in 1..Len(Possible) /\ Possible[Current] \in ObjectTransition
  BY <1>1, CurrentType, PossibleType
<1> DEFINE t == Possible[Current]
<1>4. /\ MustPassAtEntry(t) => /\ Eligible(t)
                               /\ \A k \in DOMAIN t.preconditions : ~ FailsAt(t, k)
      /\ Eligible(t) /\ Satisfiable(t) => CouldPassAtEntry(t, entry.fuzzing)
      /\ \A k \in DOMAIN t.preconditions :
           FailsAt(t, k) /\ t.preconditions[k].throws => ThrowingFailure(t)
  BY <1>2, <1>3, FrozenPreconditions DEF Selecting
<1>5. /\ candidate # 0 => candidate' # 0
      /\ MustPassAtEntry(t) => ContainsThrow(t) /\ candidate' # 0
  BY <1>3, <1>4 DEF SkipTransition, FailPreconditions, KeepCandidate
<1>6. \A k \in 0..(i' - 1) :
        MustPassAtEntry(Possible[At(k)])' =>
          (ContainsThrow(Possible[At(k)]))' /\ (running' = 0 => candidate' # 0)
  BY <1>1, <1>2, <1>5, VisitedNext DEF Selecting
<1>7. candidate' # 0 => /\ (CouldPassAtEntry(Possible[candidate], entry.fuzzing))'
                        /\ (ContainsThrow(Possible[candidate]))'
  <2>1. candidate' = candidate \/ (candidate' = Current /\ Eligible(t) /\ Satisfiable(t) /\ ContainsThrow(t))
    BY DEF SkipTransition, FailPreconditions, KeepCandidate
  <2>2. candidate' # 0 => CouldPassAtEntry(Possible[candidate'], entry.fuzzing) /\ ContainsThrow(Possible[candidate'])
    BY <1>4, <2>1 DEF LoopInv
  <2> QED
    BY <1>2, <2>2 DEF CouldPassAtEntry, EligibleAtEntry, OutcomesAtEntry, ContainsThrow
<1>8. failure' # 0 => call'.trigger.kind = "method" /\ (ThrowingFailure(Possible[failure]))'
  <2>1. \/ failure' \in {failure, 0}
        \/ /\ failure' = Current
           /\ \E k \in DOMAIN t.preconditions : FailsAt(t, k) /\ t.preconditions[k].throws
    BY DEF SkipTransition, FailPreconditions, KeepCandidate
  <2>2. (\E k \in DOMAIN t.preconditions : t.preconditions[k].throws) => call.trigger.kind = "method"
    BY <1>3, PossibleType DEF PreChecked
  <2>3. failure' # 0 => call.trigger.kind = "method" /\ ThrowingFailure(Possible[failure'])
    BY <1>4, <2>1, <2>2 DEF LoopInv
  <2> QED
    BY <1>2, <2>3 DEF ThrowingFailure, OutcomesAtEntry
<1>9. i # Len(Possible) /\ call.known
  BY <1>1, <1>2 DEF Iterate, LoopInv, Selecting, TypeOK
<1> QED
  BY <1>2, <1>6, <1>7, <1>8, <1>9 DEF LoopInv, Selecting

\* The transition the loop takes was eligible when the call came in.
LEMMA LoopTake ==
  ASSUME TypeOK, FrozenInv, LoopInv, TakeTransition
  PROVE  LoopInv'
<1>1. /\ Possible' = Possible /\ entry' = entry /\ call' = call /\ offset' = offset /\ i' = i
      /\ running' = Current /\ pc' = "execute" /\ pc = "find" /\ candidate' = 0 /\ failure' = 0
  BY DEF TakeTransition, Execute, Iterate, Possible
<1>2. Current \in 1..Len(Possible) /\ Possible[Current] \in ObjectTransition
  BY CurrentType, PossibleType DEF TakeTransition
<1>3. CouldPassAtEntry(Possible[Current], entry.fuzzing) /\ (ContainsThrow(Possible[Current]) => call.fuzz)
  BY <1>1, <1>2, FrozenPreconditions DEF TakeTransition, Selecting
<1>4. (CouldPassAtEntry(Possible[running], entry.fuzzing))' <=> CouldPassAtEntry(Possible[Current], entry.fuzzing)
  BY <1>1 DEF CouldPassAtEntry, EligibleAtEntry, OutcomesAtEntry
<1>5. \A k \in 0..(i' - 1) :
        MustPassAtEntry(Possible[At(k)])' =>
          (ContainsThrow(Possible[At(k)]))' /\ (running' = 0 => candidate' # 0)
  <2>1. \A k : (At(k))' = At(k)
    BY <1>1 DEF At
  <2>2. \A k : MustPassAtEntry(Possible[At(k)])' <=> MustPassAtEntry(Possible[At(k)])
    BY <1>1, <2>1 DEF MustPassAtEntry, EligibleAtEntry, OutcomesAtEntry
  <2>3. \A k : (ContainsThrow(Possible[At(k)]))' <=> ContainsThrow(Possible[At(k)])
    BY <1>1, <2>1 DEF ContainsThrow
  <2> QED
    BY <1>1, <1>2, <2>2, <2>3 DEF LoopInv
<1>6. (ContainsThrow(Possible[running]))' <=> ContainsThrow(Possible[Current])
  BY <1>1 DEF ContainsThrow
<1> QED
  BY <1>1, <1>3, <1>4, <1>5, <1>6 DEF LoopInv, Selecting

\* The candidate executed after the loop is one the loop kept back.
LEMMA LoopCandidate ==
  ASSUME TypeOK, LoopInv, SettleCandidate, candidate # 0
  PROVE  LoopInv'
<1>1. /\ Possible' = Possible /\ entry' = entry /\ call' = call /\ offset' = offset /\ i' = i
      /\ running' = candidate /\ pc' = "execute" /\ pc = "candidate"
      /\ candidate' = candidate /\ failure' = failure
  BY DEF SettleCandidate, Execute, selection, Possible
<1>2. \A k : (At(k))' = At(k)
  BY <1>1 DEF At
<1>3. \A k : /\ MustPassAtEntry(Possible[At(k)])' <=> MustPassAtEntry(Possible[At(k)])
             /\ (ContainsThrow(Possible[At(k)]))' <=> ContainsThrow(Possible[At(k)])
  BY <1>1, <1>2 DEF MustPassAtEntry, EligibleAtEntry, OutcomesAtEntry, ContainsThrow
<1>4. \A k \in 0..(i' - 1) :
        MustPassAtEntry(Possible[At(k)])' =>
          (ContainsThrow(Possible[At(k)]))' /\ (running' = 0 => candidate' # 0)
  BY <1>1, <1>3 DEF LoopInv
<1>5. /\ (CouldPassAtEntry(Possible[candidate], entry.fuzzing))'
      /\ (CouldPassAtEntry(Possible[running], entry.fuzzing))'
      /\ (ContainsThrow(Possible[candidate]))'
  BY <1>1 DEF LoopInv, CouldPassAtEntry, EligibleAtEntry, OutcomesAtEntry, ContainsThrow
<1>6. failure' # 0 => call'.trigger.kind = "method" /\ (ThrowingFailure(Possible[failure]))'
  BY <1>1 DEF LoopInv, ThrowingFailure, OutcomesAtEntry
<1> QED
  BY <1>1, <1>4, <1>5, <1>6 DEF LoopInv, Selecting

LEMMA LoopNext ==
  ASSUME TypeOK, FrozenInv, LoopInv, [Next]_vars
  PROVE  LoopInv'
<1>1. CASE Call
  <2>1. ASSUME NEW fuzz \in BOOLEAN, NEW interface, NEW m \in Methods, NEW args \in Arguments,
               CallMethod(interface, m, args, fuzz)
        PROVE  LoopInv'
    <3>1. Find(OnMethod(m), args) /\ Enter(OnMethod(m), args, fuzz, TRUE) /\ transitions[OnMethod(m)] # <<>>
      BY <2>1 DEF CallMethod
    <3> QED
      BY <3>1, LoopEnter, FindType, TriggerType
  <2>2. ASSUME NEW fuzz \in BOOLEAN, NEW interface, NEW m \in Methods, CallUnknownMethod(interface, m, fuzz)
        PROVE  LoopInv'
    BY <2>2, LoopEnter, TriggerType DEF CallUnknownMethod
  <2>3. ASSUME NEW fuzz \in BOOLEAN, NEW p \in Properties, NEW v \in Values, SetProperty(p, v, fuzz)
        PROVE  LoopInv'
    <3> DEFINE args == [name \in {"value"} |-> v]
    <3>1. args \in Arguments
      BY ValueArgumentType
    <3>2. Enter(OnProperty(p), args, fuzz, TRUE)
      BY <2>3 DEF SetProperty
    <3>3. CASE transitions[OnProperty(p)] = <<>>
      <4>1. pc' = "done"
        BY <2>3, <3>3 DEF SetProperty
      <4> QED
        BY <3>2, <3>3, <4>1, LoopEnter, TriggerType
    <3>4. CASE transitions[OnProperty(p)] # <<>>
      <4>1. Find(OnProperty(p), args)
        BY <2>3, <3>4 DEF SetProperty
      <4> HIDE DEF args
      <4> QED
        BY <3>1, <3>2, <3>4, <4>1, LoopEnter, FindType, TriggerType
    <3> QED
      BY <3>3, <3>4
  <2>4. ASSUME NEW fuzz \in BOOLEAN, MakeArbitraryTransition(fuzz)
        PROVE  LoopInv'
    <3>1. Enter(OnTimeout, NoLocals, fuzz, TRUE)
      BY <2>4 DEF MakeArbitraryTransition
    <3>2. CASE transitions[OnTimeout] = <<>>
      <4>1. pc' = "done"
        BY <2>4, <3>2 DEF MakeArbitraryTransition
      <4> QED
        BY <3>1, <3>2, <4>1, LoopEnter, TriggerType
    <3>3. CASE transitions[OnTimeout] # <<>>
      <4>1. Find(OnTimeout, NoLocals)
        BY <2>4, <3>3 DEF MakeArbitraryTransition
      <4> QED
        BY <3>1, <3>3, <4>1, LoopEnter, FindType, TriggerType, NoLocalsType
    <3> QED
      BY <3>2, <3>3
  <2> QED
    BY <1>1, <2>1, <2>2, <2>3, <2>4 DEF Call, Arguments
<1>2. CASE ResetState \/ OtherMachineExecutes
  <2>1. UNCHANGED <<transitions, call, entry, selection>> /\ running' = running
        /\ (pc' = pc \/ pc' = "idle") /\ pc \in {"idle", "returned"}
    BY <1>2 DEF ResetState, OtherMachineExecutes, Ready, selection, execution
  <2> QED
    BY <2>1, LoopKept
<1>3. CASE SkipTransition \/ FailPreconditions \/ KeepCandidate
  BY <1>3, LoopIterate
<1>4. CASE TakeTransition
  BY <1>4, LoopTake
<1>5. CASE LeaveLoop \/ SettleFailure
  <2>1. UNCHANGED <<transitions, call, entry, selection>> /\ running' = running
        /\ pc' \in {"failure", "candidate"} /\ Selecting /\ i = Len(Possible)
    BY <1>5 DEF LeaveLoop, SettleFailure, Selecting, selection, execution, LoopInv
  <2> QED
    BY <2>1, LoopKept
<1>6. CASE SettleCandidate
  <2>1. CASE candidate = 0
    <3>1. UNCHANGED <<transitions, call, entry, selection>> /\ running' = running
          /\ pc' = "done" /\ pc = "candidate"
      BY <1>6, <2>1 DEF SettleCandidate, selection, execution
    <3> QED
      BY <2>1, <3>1, LoopKept
  <2>2. CASE candidate # 0
    BY <1>6, <2>2, LoopCandidate
  <2> QED
    BY <2>1, <2>2
<1>7. CASE ExecuteStatement \/ EndTransition
  <2>1. UNCHANGED <<transitions, call, entry, selection>> /\ running' = running
        /\ pc = "execute" /\ pc' \in {"execute", "done"}
    BY <1>7 DEF ExecuteStatement, EndTransition, selection, execution
  <2> QED
    BY <2>1, LoopKept
<1>8. CASE ReturnMethod \/ ReturnProperty \/ ReturnArbitrary
  <2>1. UNCHANGED <<transitions, call, entry, selection>> /\ running' = running
        /\ pc = "done" /\ pc' = "returned"
    BY <1>8 DEF ReturnMethod, ReturnProperty, ReturnArbitrary, Return, selection, execution
  <2> QED
    BY <2>1, LoopKept
<1>9. CASE Abort
  <2>1. UNCHANGED <<transitions, call, entry, selection>> /\ running' = running /\ pc' = "aborted"
    BY <1>9 DEF Abort, selection, execution
  <2> QED
    BY <2>1, LoopKept
<1>10. CASE UNCHANGED vars
  <2>1. UNCHANGED <<transitions, call, entry, selection>> /\ running' = running /\ pc' = pc
    BY <1>10 DEF vars, selection, execution
  <2>2. pc \in {"failure", "candidate"} => Selecting /\ i = Len(Possible)
    BY DEF LoopInv, Selecting
  <2> QED
    BY <2>1, <2>2, LoopKept
<1> QED
  BY <1>1, <1>2, <1>3, <1>4, <1>5, <1>6, <1>7, <1>8, <1>9, <1>10 DEF Next, Step

----------------------------------------------------------------------------
(* What the loop's invariant says of the calls that return. *)

SelectionInv == TypeOK /\ FrozenInv /\ LoopInv

LEMMA SelectionCorrect == Spec => []SelectionInv
<1>1. Init => SelectionInv
  BY TypeInit, FrozenInit, LoopInit DEF SelectionInv
<1>2. SelectionInv /\ TypeOK' /\ [Next]_vars => SelectionInv'
  BY FrozenNext, LoopNext DEF SelectionInv
<1> QED
  BY <1>1, <1>2, TypeCorrect, PTL DEF Spec

\* When the loop has run to its end, every transition of the table has been
\* seen, wherever it started.
LEMMA AllVisited ==
  ASSUME SelectionInv, call.known, i = Len(Possible), NEW k \in DOMAIN Possible,
         MustPassAtEntry(Possible[k])
  PROVE  ContainsThrow(Possible[k]) /\ (running = 0 => candidate # 0)
<1>1. /\ Len(Possible) \in Nat /\ k \in 1..Len(Possible) /\ Len(Possible) # 0
      /\ Possible # <<>>
  BY PossibleType DEF SelectionInv
<1>2. offset \in 0..(Len(Possible) - 1)
  BY <1>1 DEF SelectionInv, LoopInv
<1>3. PICK h \in 0..(Len(Possible) - 1) : ((h + offset) % Len(Possible)) + 1 = k
  BY <1>1, <1>2, Rotation
<1>4. At(h) = k
  BY <1>3 DEF At
<1> QED
  BY <1>3, <1>4 DEF SelectionInv, LoopInv

\* A call moves the machine along a transition that was eligible when it came
\* in, and never moves it when that transition throws.
THEOREM MovesAlongTransitionHolds == Spec => []MovesAlongTransition
<1>1. SelectionInv => MovesAlongTransition
  BY DEF SelectionInv, FrozenInv, LoopInv, MovesAlongTransition
<1> QED
  BY <1>1, SelectionCorrect, PTL

\* Without fuzzing, a call throws only if every transition sure to be
\* executable throws.
THEOREM ThrowsOnlyAsLastResortHolds == Spec => []ThrowsOnlyAsLastResort
<1>1. SelectionInv => ThrowsOnlyAsLastResort
  <2> SUFFICES ASSUME SelectionInv, running # 0, ~ call.fuzz, ContainsThrow(Possible[running]),
                      NEW k \in DOMAIN Possible, MustPassAtEntry(Possible[k])
               PROVE  ContainsThrow(Possible[k])
    BY DEF ThrowsOnlyAsLastResort
  <2>1. i = Len(Possible) /\ call.known
    BY DEF SelectionInv, LoopInv
  <2> QED
    BY <2>1, AllVisited
<1> QED
  BY <1>1, SelectionCorrect, PTL

\* A call refuses only if no transition of its trigger was sure to be
\* executable.
THEOREM RefusesOnlyIfNoneEligibleHolds == Spec => []RefusesOnlyIfNoneEligible
<1>1. SelectionInv => RefusesOnlyIfNoneEligible
  <2> SUFFICES ASSUME SelectionInv, pc = "returned", running = 0, call.known,
                      NEW k \in DOMAIN Possible, MustPassAtEntry(Possible[k])
               PROVE  FALSE
    BY DEF RefusesOnlyIfNoneEligible
  <2>1. i = Len(Possible) /\ candidate = 0
    BY DEF SelectionInv, LoopInv
  <2> QED
    BY <2>1, AllVisited
<1> QED
  BY <1>1, SelectionCorrect, PTL

\* A call that runs no transition leaves the state and the object as they
\* were, the default transition of a property apart.
THEOREM RefusalLeavesNoTraceHolds == Spec => []RefusalLeavesNoTrace
<1>1. Init => RefusalLeavesNoTrace
  BY DEF Init, RefusalLeavesNoTrace
<1>2. SelectionInv /\ SelectionInv' /\ RefusalLeavesNoTrace /\ [Next]_vars => RefusalLeavesNoTrace'
  <2> SUFFICES ASSUME SelectionInv, SelectionInv', RefusalLeavesNoTrace, [Next]_vars,
                      pc' = "returned", running' = 0
               PROVE  /\ machine_state' = entry'.state
                      /\ \A v \in ObjectVariables :
                           object'[v] # entry'.object[v] =>
                             call'.trigger = [kind |-> "property", name |-> v] /\ changed'
    BY DEF RefusalLeavesNoTrace
  <2>1. machine_state' = entry'.state
    BY DEF SelectionInv, FrozenInv
  <2>2. CASE pc = "done"
    <3>1. /\ object = entry.object /\ entry' = entry /\ call' = call
          /\ ReturnMethod \/ ReturnProperty \/ ReturnArbitrary \/ UNCHANGED vars
      BY <2>2 DEF SelectionInv, FrozenInv, Next, Call, Step, vars, Ready, CallMethod, CallUnknownMethod,
                  SetProperty, MakeArbitraryTransition, Enter, ResetState, OtherMachineExecutes,
                  SkipTransition, FailPreconditions, KeepCandidate, TakeTransition, Iterate,
                  LeaveLoop, SettleFailure, SettleCandidate, ExecuteStatement, EndTransition,
                  ReturnMethod, ReturnProperty, ReturnArbitrary, Return, Abort, execution
    <3>2. CASE ReturnMethod \/ ReturnArbitrary \/ UNCHANGED vars
      BY <2>1, <3>1, <3>2 DEF ReturnMethod, ReturnArbitrary, vars, environment
    <3>3. CASE ReturnProperty
      <4>1. call.trigger \in [kind : {"property"}, name : Properties]
        BY <3>3 DEF ReturnProperty, SelectionInv, TypeOK, Trigger
      <4>2. call.trigger = [kind |-> "property", name |-> call.trigger.name]
        BY <4>1
      <4>3. object \in [ObjectVariables -> Values]
        BY DEF SelectionInv, TypeOK
      <4> QED
        BY <2>1, <3>1, <3>3, <4>2, <4>3 DEF ReturnProperty
    <3> QED
      BY <3>1, <3>2, <3>3
  <2>3. CASE pc = "returned"
    <3>1. \/ \E fuzz, interface, m : CallUnknownMethod(interface, m, fuzz)
          \/ OtherMachineExecutes \/ UNCHANGED vars
      BY <2>3 DEF Next, Call, Step, CallMethod, SetProperty, MakeArbitraryTransition, Find, ResetState,
                  SkipTransition, FailPreconditions, KeepCandidate, TakeTransition, Iterate,
                  LeaveLoop, SettleFailure, SettleCandidate, ExecuteStatement, EndTransition,
                  ReturnMethod, ReturnProperty, ReturnArbitrary, Return, Abort
    <3>2. CASE OtherMachineExecutes \/ UNCHANGED vars
      BY <2>1, <2>3, <3>2 DEF RefusalLeavesNoTrace, OtherMachineExecutes, vars, environment, execution
    <3>3. CASE \E fuzz, interface, m : CallUnknownMethod(interface, m, fuzz)
      BY <2>1, <3>3 DEF CallUnknownMethod, Enter
    <3> QED
      BY <3>1, <3>2, <3>3
  <2>4. CASE pc \notin {"done", "returned"}
    <3>1. \E fuzz, interface, m : CallUnknownMethod(interface, m, fuzz)
      BY <2>4 DEF Next, Call, Step, vars, CallMethod, SetProperty, MakeArbitraryTransition, Find, ResetState,
                  OtherMachineExecutes, SkipTransition, FailPreconditions, KeepCandidate, TakeTransition,
                  NextIteration, Execute, LeaveLoop, SettleFailure, SettleCandidate, ExecuteStatement,
                  EndTransition, ReturnMethod, ReturnProperty, ReturnArbitrary, Return, Abort, Iterate
    <3> QED
      BY <2>1, <3>1 DEF CallUnknownMethod, Enter
  <2> QED
    BY <2>2, <2>3, <2>4
<1> QED
  BY <1>1, <1>2, SelectionCorrect, PTL DEF Spec

----------------------------------------------------------------------------
(* Replies and errors. *)

LEMMA AnswerInit == Init => AnswerInv
BY DEF Init, AnswerInv, Answers, AnswersIn, OnTimeout

\* The output sequence and the place of the call determine the invariant.
LEMMA AnswerKept ==
  ASSUME AnswerInv, UNCHANGED <<transitions, call, output, outputted, running, statement,
                                candidate, failure>>,
         pc' = pc \/ pc' \in {"idle", "aborted"} \/ (pc = "find" /\ pc' = "failure")
  PROVE  AnswerInv'
<1>1. Possible' = Possible
  BY DEF Possible
<1>2. Answers' = Answers /\ AllPlain' = AllPlain /\ ExactlyOneAnswer' = ExactlyOneAnswer
      /\ AnsweredSoFar' = AnsweredSoFar
  BY <1>1 DEF Answers, AnswersIn, AllPlain, ExactlyOneAnswer, AnsweredSoFar, Plain
<1> QED
  BY <1>1, <1>2 DEF AnswerInv

\* A call starts with nothing output, or with the unit reply to a method.
LEMMA AnswerCall ==
  ASSUME TypeOK, Call
  PROVE  AnswerInv'
<1>1. ASSUME output' = <<>>, ~ outputted', pc' \in {"find", "done"}
      PROVE  AnswerInv'
  <2>1. Answers' = {}
    BY <1>1 DEF Answers, AnswersIn
  <2> QED
    BY <1>1, <2>1 DEF AnswerInv
<1>2. ASSUME NEW fuzz, NEW interface, NEW m, CallUnknownMethod(interface, m, fuzz)
      PROVE  AnswerInv'
  <2>1. Answers' = {1} /\ 1 \in DOMAIN output'
    BY <1>2 DEF CallUnknownMethod, Answers, AnswersIn, IsAnswer
  <2>2. call'.trigger.kind = "method" /\ pc' = "returned"
    BY <1>2 DEF CallUnknownMethod, Enter, OnMethod
  <2> QED
    BY <2>1, <2>2 DEF AnswerInv, ExactlyOneAnswer
<1>3. \/ \E fuzz, interface, m : CallUnknownMethod(interface, m, fuzz)
      \/ output' = <<>> /\ ~ outputted' /\ pc' \in {"find", "done"}
  BY DEF Call, CallMethod, SetProperty, MakeArbitraryTransition, Enter, Find
<1> QED
  BY <1>1, <1>2, <1>3

\* Executing a transition starts with no answer, or after another outcome.
LEMMA AnswerExecute ==
  ASSUME TypeOK, AnswerInv, pc' = "execute", outputted', statement' = 0,
         UNCHANGED <<call, output>>,
         failure' # 0 => candidate' # 0,
         failure' = 0 => Answers = {}
  PROVE  AnswerInv'
<1>1. Answers' = Answers
  BY DEF Answers, AnswersIn
<1>2. ~ AnsweredSoFar'
  BY DEF AnsweredSoFar
<1> QED
  BY <1>1, <1>2 DEF AnswerInv

\* The precondition that failed on entry fails again, if it is plain, and its
\* error is the one answer.
LEMMA AnswerFailure ==
  ASSUME TypeOK, FrozenInv, LoopInv, AnswerInv, SettleFailure
  PROVE  AnswerInv'
<1>1. /\ Possible' = Possible /\ call' = call /\ failure' = failure /\ pc' = "candidate"
      /\ output = <<>> /\ ~ outputted /\ Selecting
  BY DEF SettleFailure, Possible, selection, AnswerInv, Selecting
<1>2. Answers = {}
  BY <1>1 DEF Answers, AnswersIn
<1>3. CASE failure = 0
  <2>1. output' = output /\ outputted' = outputted
    BY <1>3 DEF SettleFailure, NoFailure, ThrowFailure
  <2> QED
    BY <1>1, <1>2, <1>3, <2>1 DEF AnswerInv, Answers, AnswersIn
<1>4. CASE failure # 0
  <2> DEFINE t == Possible[failure]
             x == [kind |-> "throw", value |-> FailedError]
  <2>1. t \in ObjectTransition /\ t.preconditions \in Seq(Precondition) /\ ThrowingFailure(t)
        /\ call.trigger.kind = "method"
    BY <1>4, PossibleType, TransitionType DEF TypeOK, LoopInv
  <2>2. ThrowFailure
    BY <1>4 DEF SettleFailure, NoFailure
  <2>3. \A p : Evaluate(p.expression) = OutcomesAtEntry(p, entry.fuzzing)
    BY <1>1 DEF FrozenInv, Evaluate, OutcomesAtEntry
  <2>4. ASSUME AllPlain
        PROVE  output' = Append(output, x)
    <3>1. PICK k \in DOMAIN t.preconditions :
            /\ t.preconditions[k].throws
            /\ CanFail(t.preconditions[k])
            /\ \A j \in 1..(k - 1) : CanHold(t.preconditions[j])
      BY <2>1, <2>3 DEF ThrowingFailure, CanFail, CanHold
    <3>2. \A j \in DOMAIN t.preconditions :
            ~ (CanHold(t.preconditions[j]) /\ CanFail(t.preconditions[j]))
      <4> SUFFICES ASSUME NEW j \in DOMAIN t.preconditions,
                          CanHold(t.preconditions[j]), CanFail(t.preconditions[j])
                   PROVE  FALSE
        OBVIOUS
      <4>1. t.preconditions[j] \in Precondition
        BY <2>1
      <4>2. t.preconditions[j].expression \in Expression
        BY <4>1 DEF Precondition
      <4>3. t.preconditions[j].expression.kind # "fuzzy"
        BY <1>4, <2>4, PossibleType DEF AllPlain, Plain, TypeOK
      <4> QED
        BY <4>2, <4>3, PlainOutcome DEF CanHold, CanFail, Evaluate
    <3>3. k \in DOMAIN t.preconditions /\ DOMAIN t.preconditions = 1..Len(t.preconditions)
      BY <2>1
    <3>4. ~ Satisfiable(t)
      BY <3>1, <3>2 DEF Satisfiable
    <3>5. \A h \in DOMAIN t.preconditions : FailsAt(t, h) => h = k
      <4> SUFFICES ASSUME NEW h \in DOMAIN t.preconditions, FailsAt(t, h), h # k
                   PROVE  FALSE
        OBVIOUS
      <4>1. CASE h < k
        BY <3>1, <3>2, <3>3, <4>1 DEF FailsAt
      <4>2. CASE h > k
        <5>1. k \in 1..(h - 1)
          BY <3>3, <4>2
        <5> QED
          BY <3>1, <3>2, <5>1 DEF FailsAt, CanReach
      <4> QED
        BY <3>3, <4>1, <4>2
    <3> QED
      BY <2>2, <3>1, <3>4, <3>5 DEF ThrowFailure
  <2>5. AllPlain' = AllPlain
    BY <1>1 DEF AllPlain, Plain
  <2>6. AllPlain => ExactlyOneAnswer'
    <3> SUFFICES ASSUME AllPlain PROVE ExactlyOneAnswer'
      OBVIOUS
    <3>1. x \in Output /\ IsAnswer(x)
      BY DEF Output, IsAnswer
    <3>2. output \in Seq(Output)
      BY DEF TypeOK
    <3> HIDE DEF x
    <3>3. AnswersIn(Append(output, x)) = AnswersIn(output) \cup {Len(output) + 1}
          /\ DOMAIN Append(output, x) = DOMAIN output \cup {Len(output) + 1}
      BY <3>1, <3>2, AppendAnswer
    <3> QED
      BY <1>2, <2>4, <3>3 DEF ExactlyOneAnswer, Answers
  <2> QED
    BY <1>1, <1>4, <2>1, <2>2, <2>5, <2>6 DEF AnswerInv, ThrowFailure
<1> QED
  BY <1>3, <1>4

\* The statements of a transition triggered by a method answer once, those of
\* any other never.
LEMMA AnswerStatement ==
  ASSUME TypeOK, FrozenInv, LoopInv, AnswerInv, ExecuteStatement
  PROVE  AnswerInv'
<1> DEFINE t == Possible[running]
           s == t.statements[statement + 1]
<1>1. /\ pc = "execute" /\ pc' = "execute"
      /\ running \in 1..Len(Possible) /\ statement \in 0..Len(t.statements)
      /\ statement' = statement + 1 /\ statement < Len(t.statements)
      /\ UNCHANGED <<transitions, call, candidate, failure, running, outputted>>
  BY DEF ExecuteStatement, TypeOK, selection
<1>2. t \in ObjectTransition /\ PreChecked(call.trigger, t)
      /\ t.statements \in Seq(Statement) /\ statement + 1 \in DOMAIN t.statements
      /\ DOMAIN t.statements = 1..Len(t.statements)
  BY <1>1, PossibleType, TransitionType
<1>3. Possible' = Possible
  BY <1>1 DEF Possible
<1>4. output \in Seq(Output)
  BY DEF TypeOK
<1>5. \/ output' = output /\ ~ IsAnswer(s)
      \/ \E x \in Output : output' = Append(output, x) /\ x.kind = s.kind
  <2>1. PICK v \in Evaluate(s.expression) :
          \/ s.kind = "assign" /\ output' = output
          \/ s.kind = "bind" /\ output' = output
          \/ /\ s.kind \in {"reply", "throw", "emit"}
             /\ output' = Append(output, [kind |-> s.kind, value |-> v])
    BY DEF ExecuteStatement
  <2>2. v \in Values
    BY EvaluateType DEF Evaluate
  <2>3. CASE s.kind \in {"reply", "throw", "emit"}
    <3>1. [kind |-> s.kind, value |-> v] \in Output
      BY <1>2, <2>2, <2>3, StatementType
    <3> QED
      BY <2>1, <2>3, <3>1
  <2> QED
    BY <2>1, <2>3 DEF IsAnswer
<1>6. /\ IsAnswer(s) => Answers' = Answers \cup {Len(output) + 1} /\ Len(output) + 1 \in DOMAIN output'
      /\ ~ IsAnswer(s) => Answers' = Answers
      /\ DOMAIN output \subseteq DOMAIN output'
  <2>1. CASE output' = output /\ ~ IsAnswer(s)
    BY <2>1 DEF Answers, AnswersIn
  <2>2. ASSUME NEW x \in Output, output' = Append(output, x), x.kind = s.kind
        PROVE  <1>6!1 /\ <1>6!2 /\ <1>6!3
    <3>1. IsAnswer(x) <=> IsAnswer(s)
      BY <2>2 DEF IsAnswer
    <3> HIDE DEF s
    <3> QED
      BY <1>4, <2>2, <3>1, AppendAnswer DEF Answers
  <2> QED
    BY <1>5, <2>1, <2>2
<1>7. AnsweredSoFar' <=> AnsweredSoFar \/ IsAnswer(s)
  <2>1. 1..(statement + 1) = (1..statement) \cup {statement + 1}
    BY <1>1
  <2> QED
    BY <1>1, <1>3, <2>1 DEF AnsweredSoFar
<1>8. CASE call.trigger.kind # "method"
  <2>1. ~ IsAnswer(s)
    BY <1>2, <1>8 DEF PreChecked
  <2> QED
    BY <1>1, <1>6, <1>8, <2>1 DEF AnswerInv
<1>9. CASE call.trigger.kind = "method"
  <2>1. IsAnswer(s) => ~ AnsweredSoFar
    <3>1. PICK k \in DOMAIN t.statements :
            \A j \in DOMAIN t.statements : IsAnswer(t.statements[j]) <=> j = k
      BY <1>2, <1>9 DEF PreChecked
    <3>2. 1..statement \subseteq DOMAIN t.statements /\ statement + 1 \notin 1..statement
      BY <1>1, <1>2
    <3> QED
      BY <1>2, <3>1, <3>2 DEF AnsweredSoFar
  <2>2. failure = 0 => IF AnsweredSoFar THEN ExactlyOneAnswer ELSE Answers = {}
    BY <1>1, <1>9 DEF AnswerInv
  <2>3. failure = 0 => IF AnsweredSoFar' THEN ExactlyOneAnswer' ELSE Answers' = {}
    BY <1>6, <1>7, <2>1, <2>2 DEF ExactlyOneAnswer
  <2> QED
    BY <1>1, <1>9, <2>3 DEF AnswerInv
<1> QED
  BY <1>8, <1>9

\* At the end of its statements, a transition of a method has answered.
LEMMA AnswerEnd ==
  ASSUME TypeOK, AnswerInv, EndTransition
  PROVE  AnswerInv'
<1>1. /\ pc = "execute" /\ pc' = "done"
      /\ running \in 1..Len(Possible) /\ statement = Len(Possible[running].statements)
      /\ UNCHANGED <<call, candidate, failure, output, outputted>>
  BY DEF EndTransition, TypeOK, selection
<1>2. Answers' = Answers /\ (ExactlyOneAnswer' <=> ExactlyOneAnswer)
  BY <1>1 DEF Answers, AnswersIn, ExactlyOneAnswer
<1>3. call.trigger.kind = "method" => AnsweredSoFar
  <2>1. PreChecked(call.trigger, Possible[running])
        /\ DOMAIN Possible[running].statements = 1..statement
    BY <1>1, PossibleType, TransitionType
  <2> QED
    BY <2>1 DEF PreChecked, AnsweredSoFar
<1> QED
  BY <1>1, <1>2, <1>3 DEF AnswerInv

\* A method call that output nothing is made up for by the unit reply.
LEMMA AnswerReturn ==
  ASSUME TypeOK, AnswerInv, ReturnMethod \/ ReturnProperty \/ ReturnArbitrary
  PROVE  AnswerInv'
<1>1. /\ pc = "done" /\ pc' = "returned" /\ (failure = 0 \/ candidate = 0)
      /\ UNCHANGED <<transitions, call, candidate, failure, outputted>>
  BY DEF ReturnMethod, ReturnProperty, ReturnArbitrary, Return, selection
<1>2. AllPlain' = AllPlain
  BY <1>1 DEF AllPlain, Plain, Possible
<1>3. CASE output' = output
  <2>1. Answers' = Answers /\ (ExactlyOneAnswer' <=> ExactlyOneAnswer)
    BY <1>3 DEF Answers, AnswersIn, ExactlyOneAnswer
  <2>2. call.trigger.kind = "method" => outputted
    <3>1. call.trigger.kind = "method" /\ ~ outputted =>
            output' = Append(output, [kind |-> "reply", value |-> Unit])
      BY DEF ReturnMethod, ReturnProperty, ReturnArbitrary
    <3>2. output' # Append(output, [kind |-> "reply", value |-> Unit])
      <4>1. output \in Seq(Output) /\ [kind |-> "reply", value |-> Unit] \in Output
        BY DEF TypeOK, Output
      <4>2. Len(Append(output, [kind |-> "reply", value |-> Unit])) = Len(output) + 1
            /\ Len(output) \in Nat
        BY <4>1
      <4>3. Len(output) # Len(output) + 1
        BY <4>2
      <4> QED
        BY <1>3, <4>2, <4>3
    <3> QED
      BY <3>1, <3>2
  <2> QED
    BY <1>1, <1>2, <2>1, <2>2 DEF AnswerInv
<1>4. CASE output' # output
  <2> DEFINE x == [kind |-> "reply", value |-> Unit]
  <2>1. call.trigger.kind = "method" /\ ~ outputted /\ output' = Append(output, x)
    BY <1>4 DEF ReturnMethod, ReturnProperty, ReturnArbitrary
  <2>2. x \in Output /\ IsAnswer(x) /\ output \in Seq(Output)
    BY DEF Output, IsAnswer, TypeOK
  <2> HIDE DEF x
  <2>3. Answers' = Answers \cup {Len(output) + 1} /\ Len(output) + 1 \in DOMAIN output'
    BY <2>1, <2>2, AppendAnswer DEF Answers
  <2>4. AllPlain => Answers = {}
    BY <1>1, <2>1 DEF AnswerInv
  <2> QED
    BY <1>1, <1>2, <2>1, <2>3, <2>4 DEF AnswerInv, ExactlyOneAnswer
<1> QED
  BY <1>3, <1>4

LEMMA AnswerNext ==
  ASSUME TypeOK, FrozenInv, LoopInv, AnswerInv, [Next]_vars
  PROVE  AnswerInv'
<1>1. CASE Call
  BY <1>1, AnswerCall
<1>2. CASE ResetState \/ OtherMachineExecutes \/ LeaveLoop \/ Abort \/ UNCHANGED vars
  <2>1. /\ UNCHANGED <<transitions, call, output, outputted, running, statement, candidate, failure>>
        /\ pc' = pc \/ pc' \in {"idle", "aborted"} \/ (pc = "find" /\ pc' = "failure")
    BY <1>2 DEF ResetState, OtherMachineExecutes, LeaveLoop, Abort, vars, selection, execution
  <2> QED
    BY <2>1, AnswerKept
<1>3. CASE SkipTransition \/ FailPreconditions \/ KeepCandidate
  <2>1. pc = "find" /\ pc' = "find" /\ UNCHANGED <<call, output, outputted>>
    BY <1>3 DEF SkipTransition, FailPreconditions, KeepCandidate, Iterate, NextIteration
  <2>2. Answers' = {}
    BY <2>1 DEF AnswerInv, Answers, AnswersIn
  <2> QED
    BY <2>1, <2>2 DEF AnswerInv
<1>4. CASE TakeTransition
  <2>1. /\ pc = "find" /\ pc' = "execute" /\ outputted' /\ statement' = 0 /\ failure' = 0
        /\ UNCHANGED <<call, output>>
    BY <1>4 DEF TakeTransition, Iterate, Execute
  <2>2. Answers = {}
    BY <2>1 DEF AnswerInv, Answers, AnswersIn
  <2> QED
    BY <2>1, <2>2, AnswerExecute
<1>5. CASE SettleFailure
  BY <1>5, AnswerFailure
<1>6. CASE SettleCandidate
  <2>1. pc = "candidate" /\ UNCHANGED <<transitions, call, candidate, failure, output>>
    BY <1>6 DEF SettleCandidate, selection
  <2>2. failure = 0 => Answers = {} /\ ~ outputted
    BY <2>1 DEF AnswerInv, Answers, AnswersIn
  <2>3. CASE candidate = 0
    <3>1. pc' = "done" /\ outputted' = outputted
      BY <1>6, <2>3 DEF SettleCandidate
    <3>2. Answers' = Answers /\ (ExactlyOneAnswer' <=> ExactlyOneAnswer) /\ (AllPlain' <=> AllPlain)
      BY <2>1 DEF Answers, AnswersIn, ExactlyOneAnswer, AllPlain, Plain, Possible
    <3> QED
      BY <2>1, <2>2, <3>1, <3>2 DEF AnswerInv
  <2>4. CASE candidate # 0
    <3>1. pc' = "execute" /\ outputted' /\ statement' = 0
      BY <1>6, <2>4 DEF SettleCandidate, Execute
    <3> QED
      BY <2>1, <2>2, <2>4, <3>1, AnswerExecute
  <2> QED
    BY <2>3, <2>4
<1>7. CASE ExecuteStatement
  BY <1>7, AnswerStatement
<1>8. CASE EndTransition
  BY <1>8, AnswerEnd
<1>9. CASE ReturnMethod \/ ReturnProperty \/ ReturnArbitrary
  BY <1>9, AnswerReturn
<1> QED
  BY <1>1, <1>2, <1>3, <1>4, <1>5, <1>6, <1>7, <1>8, <1>9 DEF Next, Step

LEMMA AnswersCorrect == Spec => []AnswerInv
<1>1. Init => AnswerInv
  BY AnswerInit
<1>2. SelectionInv /\ AnswerInv /\ [Next]_vars => AnswerInv'
  BY AnswerNext DEF SelectionInv
<1> QED
  BY <1>1, <1>2, SelectionCorrect, PTL DEF Spec

\* Every method call that returns is answered exactly once, if no
\* precondition of its transitions is fuzzy, and no other call is answered.
THEOREM AnsweredOnceHolds == Spec => []AnsweredOnce
<1>1. AnswerInv => AnsweredOnce
  BY DEF AnswerInv, AnsweredOnce, AllPlain, ExactlyOneAnswer
<1> QED
  BY <1>1, AnswersCorrect, PTL

----------------------------------------------------------------------------
(* The local scope and the state. *)

\* Only a call binds names, and its return unbinds them.
THEOREM LocalsRestoredHolds == Spec => []LocalsRestored
<1>1. Init => LocalsRestored
  BY DEF Init, LocalsRestored
<1>2. LocalsRestored /\ [Next]_vars => LocalsRestored'
  <2> SUFFICES ASSUME LocalsRestored, [Next]_vars, Ready' PROVE locals' = NoLocals
    BY DEF LocalsRestored
  <2>1. CASE Call
    BY <2>1 DEF Call, CallMethod, CallUnknownMethod, SetProperty, MakeArbitraryTransition,
                Enter, Find, Ready, LocalsRestored
  <2>2. CASE ResetState
    BY <2>2 DEF ResetState
  <2>3. CASE OtherMachineExecutes \/ UNCHANGED vars
    BY <2>3 DEF OtherMachineExecutes, vars, environment, Ready, LocalsRestored
  <2>4. CASE ReturnMethod \/ ReturnProperty \/ ReturnArbitrary
    BY <2>4 DEF ReturnMethod, ReturnProperty, ReturnArbitrary, Return
  <2>5. CASE Step /\ ~ (ReturnMethod \/ ReturnProperty \/ ReturnArbitrary)
    BY <2>5 DEF Step, SkipTransition, FailPreconditions, KeepCandidate, TakeTransition, Iterate,
                NextIteration, Execute, LeaveLoop, SettleFailure, SettleCandidate,
                ExecuteStatement, EndTransition, Abort, Ready
  <2> QED
    BY <2>1, <2>2, <2>3, <2>4, <2>5 DEF Next
<1> QED
  BY <1>1, <1>2, PTL DEF Spec

\* During a call the local scope has the names that the call bound.
ScopeInv == Selecting \/ pc = "execute" => DOMAIN locals = DOMAIN call.args

LEMMA ScopeNext ==
  ASSUME TypeOK, ScopeInv, [Next]_vars
  PROVE  ScopeInv'
<1> USE DEF ScopeInv, Selecting
<1>1. CASE Call
  <2>1. ASSUME NEW fuzz, NEW interface, NEW m, NEW args, CallMethod(interface, m, args, fuzz)
        PROVE  ScopeInv'
    BY <2>1 DEF CallMethod, Enter, Find
  <2>2. ASSUME NEW fuzz, NEW interface, NEW m, CallUnknownMethod(interface, m, fuzz)
        PROVE  ScopeInv'
    BY <2>2 DEF CallUnknownMethod
  <2>3. ASSUME NEW fuzz, NEW p, NEW v, SetProperty(p, v, fuzz)
        PROVE  ScopeInv'
    BY <2>3 DEF SetProperty, Enter, Find
  <2>4. ASSUME NEW fuzz, MakeArbitraryTransition(fuzz)
        PROVE  ScopeInv'
    BY <2>4 DEF MakeArbitraryTransition, Enter, Find
  <2> QED
    BY <1>1, <2>1, <2>2, <2>3, <2>4 DEF Call
<1>2. CASE ResetState \/ OtherMachineExecutes
  BY <1>2 DEF ResetState, OtherMachineExecutes, Ready
<1>3. CASE SkipTransition \/ FailPreconditions \/ KeepCandidate \/ TakeTransition
  BY <1>3 DEF SkipTransition, FailPreconditions, KeepCandidate, TakeTransition, Iterate,
              environment
<1>4. CASE LeaveLoop \/ SettleFailure \/ SettleCandidate
  BY <1>4 DEF LeaveLoop, SettleFailure, SettleCandidate, environment
<1>5. CASE ExecuteStatement
  <2>1. call' = call /\ pc = "execute"
    BY <1>5 DEF ExecuteStatement
  <2>2. DOMAIN locals' = DOMAIN locals
    BY <1>5 DEF ExecuteStatement, environment
  <2> QED
    BY <2>1, <2>2
<1>6. CASE EndTransition \/ ReturnMethod \/ ReturnProperty \/ ReturnArbitrary \/ Abort
  BY <1>6 DEF EndTransition, ReturnMethod, ReturnProperty, ReturnArbitrary, Return, Abort
<1>7. CASE UNCHANGED vars
  BY <1>7 DEF vars, environment
<1> QED
  BY <1>1, <1>2, <1>3, <1>4, <1>5, <1>6, <1>7 DEF Next, Step

\* An expression whose variables are in the environment has a value.
LEMMA DefinedInScope ==
  ASSUME TypeOK, NEW e \in Expression, e.kind = "local" => e.of \in DOMAIN locals
  PROVE  Evaluate(e) # {}
<1>1. CASE e.kind \in {"literal", "fuzzy"}
  <2>1. e.of \in Values
    BY <1>1 DEF Expression
  <2> QED
    BY <1>1, <2>1 DEF Evaluate, Outcomes
<1>2. CASE e.kind = "local"
  <2>1. locals[e.of] \in Values
    BY <1>2 DEF TypeOK, Arguments
  <2> QED
    BY <1>2, <2>1 DEF Evaluate, Outcomes
<1>3. CASE e.kind = "object"
  <2>1. e.of \in ObjectVariables
    BY <1>3 DEF Expression
  <2>2. object[e.of] \in Values
    BY <2>1 DEF TypeOK
  <2> QED
    BY <1>3, <2>2 DEF Evaluate, Outcomes
<1> QED
  BY <1>1, <1>2, <1>3 DEF Expression

\* What the checks found in scope is there in a call that binds it all.
LEMMA DefinedIfChecked ==
  ASSUME TypeOK, ScopeInv, ScopeAtCheck(call.trigger) \subseteq DOMAIN call.args,
         Selecting \/ pc = "execute", NEW k \in 1..Len(Possible)
  PROVE  /\ \A j \in DOMAIN Possible[k].preconditions :
              Evaluate(Possible[k].preconditions[j].expression) # {}
         /\ \A j \in DOMAIN Possible[k].statements :
              /\ Evaluate(Possible[k].statements[j].expression) # {}
              /\ Possible[k].statements[j].kind = "bind" =>
                   Possible[k].statements[j].target \in DOMAIN locals
<1>1. call.trigger \in Trigger /\ transitions \in Descriptions
  BY DEF TypeOK
<1>2. k \in DOMAIN Possible /\ Possible[k] \in ObjectTransition
  BY PossibleType
<1>3. Checked(call.trigger, Possible[k])
  BY <1>1, <1>2, DescriptionsAssumption DEF Possible
<1>4. ScopeAtCheck(call.trigger) \subseteq DOMAIN locals
  BY DEF ScopeInv
<1>5. ASSUME NEW j \in DOMAIN Possible[k].preconditions
      PROVE  Evaluate(Possible[k].preconditions[j].expression) # {}
  <2> DEFINE e == Possible[k].preconditions[j].expression
  <2>1. e \in Expression
    <3>1. Possible[k].preconditions \in Seq(Precondition)
      BY <1>2, TransitionType
    <3>2. Possible[k].preconditions[j] \in Precondition
      BY <3>1
    <3> QED
      BY <3>2 DEF Precondition
  <2>2. e.kind = "local" => e.of \in DOMAIN locals
    BY <1>3, <1>4 DEF Checked
  <2> QED
    BY <2>1, <2>2, DefinedInScope
<1>6. ASSUME NEW j \in DOMAIN Possible[k].statements
      PROVE  /\ Evaluate(Possible[k].statements[j].expression) # {}
             /\ Possible[k].statements[j].kind = "bind" =>
                  Possible[k].statements[j].target \in DOMAIN locals
  <2> DEFINE e == Possible[k].statements[j].expression
  <2>1. e \in Expression
    BY <1>2, TransitionType DEF Statement
  <2>2. e.kind = "local" => e.of \in DOMAIN locals
    BY <1>3, <1>4 DEF Checked
  <2>3. Possible[k].statements[j].kind = "bind" => Possible[k].statements[j].target \in DOMAIN locals
    BY <1>3, <1>4 DEF Checked
  <2> QED
    BY <2>1, <2>2, <2>3, DefinedInScope
<1> QED
  BY <1>5, <1>6

\* A variable is missing only in calls that do not bind what the transition
\* was checked with.
THEOREM VariablesExistHolds == Spec => []VariablesExist
<1>1. Init => ScopeInv
  BY DEF Init, ScopeInv, Selecting
<1>2. TypeOK /\ ScopeInv => VariablesExist
  <2> SUFFICES ASSUME TypeOK, ScopeInv, UndefinedVariable,
                      ScopeAtCheck(call.trigger) \subseteq DOMAIN call.args
               PROVE  FALSE
    BY DEF VariablesExist
  <2>1. CASE /\ pc = "find" /\ i < Len(Possible)
             /\ \E k \in DOMAIN Possible[Current].preconditions : UndefinedAt(Possible[Current], k)
    <3>1. Current \in 1..Len(Possible)
      BY <2>1, PossibleType, IndexInTable DEF Current, TypeOK
    <3> QED
      BY <2>1, <3>1, DefinedIfChecked DEF UndefinedAt, Selecting
  <2>2. CASE /\ pc = "failure" /\ failure # 0
             /\ \E k \in DOMAIN Possible[failure].preconditions : UndefinedAt(Possible[failure], k)
    <3>1. failure \in 1..Len(Possible)
      BY <2>2, PossibleType DEF TypeOK
    <3> QED
      BY <2>2, <3>1, DefinedIfChecked DEF UndefinedAt, Selecting
  <2>3. CASE /\ pc = "execute" /\ statement < Len(Possible[running].statements)
             /\ LET s == Possible[running].statements[statement + 1]
                IN  \/ Evaluate(s.expression) = {}
                    \/ s.kind = "bind" /\ s.target \notin DOMAIN locals
    <3>1. running \in 1..Len(Possible)
      BY <2>3, PossibleType DEF TypeOK
    <3>2. Possible[running].statements \in Seq(Statement)
      BY <3>1, PossibleType, TransitionType
    <3>3. statement + 1 \in DOMAIN Possible[running].statements
      BY <2>3, <3>1, <3>2 DEF TypeOK
    <3> QED
      BY <2>3, <3>1, <3>3, DefinedIfChecked
  <2> QED
    BY <2>1, <2>2, <2>3 DEF UndefinedVariable
<1> QED
  BY <1>1, <1>2, ScopeNext, TypeCorrect, PTL DEF Spec

\* The state moves at the end of a transition that does not throw, or by a
\* reset, and at no other step.
THEOREM StateMovesOnlyAtEndHolds == Spec => StateMovesOnlyAtEnd
<1> DEFINE Moves ==
      machine_state' # machine_state =>
        \/ /\ pc = "execute" /\ pc' = "done"
           /\ statement = Len(Possible[running].statements)
           /\ ~ ContainsThrow(Possible[running])
        \/ pc' = "idle"
<1>1. [Next]_vars => [Moves]_vars
  <2> SUFFICES ASSUME Next PROVE Moves
    OBVIOUS
  <2>1. CASE EndTransition \/ ResetState
    BY <2>1 DEF EndTransition, ResetState
  <2>2. CASE ~ (EndTransition \/ ResetState)
    BY <2>2 DEF Next, Call, Step, CallMethod, CallUnknownMethod, SetProperty, MakeArbitraryTransition,
                Enter, OtherMachineExecutes, SkipTransition, FailPreconditions, KeepCandidate,
                TakeTransition, Iterate, LeaveLoop, SettleFailure, SettleCandidate,
                ExecuteStatement, ReturnMethod, ReturnProperty, ReturnArbitrary, Return, Abort
  <2> QED
    BY <2>1, <2>2
<1> QED
  BY <1>1, PTL DEF Spec, StateMovesOnlyAtEnd
-----------------------------------------------------------------------------
(* The machine against the reachability analysis.                          *)

\* A transition of any trigger is an edge of the graph.
LEMMA TransitionIsEdge ==
  ASSUME NEW trigger \in Trigger, NEW k \in DOMAIN transitions[trigger]
  PROVE  \E e \in Edges : e.from = transitions[trigger][k].from /\ e.to = transitions[trigger][k].to
<1> DEFINE t == transitions[trigger][k]
           e == [from |-> t.from, to |-> t.to, guarded |-> t.preconditions # <<>>]
<1>1. e \in EdgesOf(trigger)
  BY DEF EdgesOf
<1>2. e \in Edges
  BY <1>1 DEF Edges
<1> QED
  BY <1>2

\* An edge is worth at least "possibly", preconditions or not.
LEMMA EdgeEntry ==
  ASSUME NEW edges, NEW e \in edges
  PROVE  Entry(edges, e.from, e.to) >= POSSIBLY_REACHABLE
<1> DEFINE parallel == {d \in edges : d.from = e.from /\ d.to = e.to}
<1>1. e \in parallel
  OBVIOUS
<1>2. parallel # {}
  BY <1>1
<1>3. Entry(edges, e.from, e.to) \in {REACHABLE, POSSIBLY_REACHABLE}
  BY <1>2 DEF Entry
<1> QED
  BY <1>3 DEF REACHABLE, POSSIBLY_REACHABLE

\* Reachability is closed under the transitions of the machine.
LEMMA ReachableAlongEdge ==
  ASSUME NEW e \in Edges, e.to \in MachineStates,
         e.from \in ReachableBy(Edges, MachineStates, StartingState, POSSIBLY_REACHABLE)
  PROVE  e.to \in ReachableBy(Edges, MachineStates, StartingState, POSSIBLY_REACHABLE)
<1>1. Entry(Edges, e.from, e.to) >= POSSIBLY_REACHABLE
  BY EdgeEntry
<1> QED
  BY <1>1 DEF ReachableBy, ClosedUnder

LEMMA StartReachable ==
  StartingState \in ReachableBy(Edges, MachineStates, StartingState, POSSIBLY_REACHABLE)
BY ConstantsAssumption DEF ReachableBy

\* The state moves along the transition executed, or back to the start.
LEMMA MovesOnEdges ==
  ASSUME SelectionInv, NeverUnreachable, Next
  PROVE  NeverUnreachable'
<1>1. transitions' = transitions
  BY DEF Next, Call, CallMethod, CallUnknownMethod, SetProperty, MakeArbitraryTransition, Enter,
         ResetState, OtherMachineExecutes, Step, SkipTransition, FailPreconditions, KeepCandidate,
         TakeTransition, Iterate, LeaveLoop, SettleFailure, SettleCandidate, ExecuteStatement,
         EndTransition, ReturnMethod, ReturnProperty, ReturnArbitrary, Return, Abort
<1>2. Edges' = Edges
  BY <1>1 DEF Edges, EdgesOf
<1>3. CASE machine_state' = machine_state
  BY <1>2, <1>3 DEF NeverUnreachable
<1>4. CASE ResetState
  BY <1>2, <1>4, StartReachable DEF ResetState, NeverUnreachable
<1>5. CASE EndTransition /\ machine_state' # machine_state
  <2> DEFINE t == Possible[running]
  <2>1. pc = "execute" /\ machine_state' = t.to
    BY <1>5 DEF EndTransition
  <2>2. running \in DOMAIN Possible /\ running # 0 /\ call.trigger \in Trigger /\ t \in ObjectTransition
    BY <2>1, PossibleType DEF SelectionInv, TypeOK
  <2>3. t.from = machine_state
    BY <2>1, <2>2 DEF SelectionInv, FrozenInv, LoopInv, CouldPassAtEntry, EligibleAtEntry
  <2>4. PICK e \in Edges : e.from = t.from /\ e.to = t.to
    BY <2>2, TransitionIsEdge DEF Possible
  <2>5. t.to \in MachineStates
    BY <2>2, TransitionType
  <2> QED
    BY <1>2, <2>1, <2>3, <2>4, <2>5, ReachableAlongEdge DEF NeverUnreachable
<1>6. \/ machine_state' = machine_state \/ ResetState
      \/ EndTransition /\ machine_state' # machine_state
  BY DEF Next, Call, CallMethod, CallUnknownMethod, SetProperty, MakeArbitraryTransition, Enter,
         OtherMachineExecutes, Step, SkipTransition, FailPreconditions, KeepCandidate,
         TakeTransition, Iterate, LeaveLoop, SettleFailure, SettleCandidate, ExecuteStatement,
         ReturnMethod, ReturnProperty, ReturnArbitrary, Return, Abort
<1> QED
  BY <1>3, <1>4, <1>5, <1>6

\* For every machine: a state that the analysis marks unreachable is never
\* the machine's state.
THEOREM NeverUnreachableHolds == Spec => []NeverUnreachable
<1>1. Init => NeverUnreachable
  BY StartReachable DEF Init, NeverUnreachable
<1>2. SelectionInv /\ NeverUnreachable /\ [Next]_vars => NeverUnreachable'
  <2>1. ASSUME SelectionInv, NeverUnreachable, UNCHANGED vars
        PROVE  NeverUnreachable'
    BY <2>1 DEF vars, NeverUnreachable, Edges, EdgesOf
  <2> QED
    BY <2>1, MovesOnEdges
<1> QED
  BY <1>1, <1>2, SelectionCorrect, PTL DEF Spec
=============================================================================
