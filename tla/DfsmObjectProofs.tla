-------------------------- MODULE DfsmObjectProofs --------------------------
(***************************************************************************)
(* Proofs about DfsmObject, for any number of objects, names and outputs:  *)
(* that counting callbacks implements Lifecycle, that an object runs with  *)
(* exactly one timer and that every method call is answered.               *)
(***************************************************************************)
EXTENDS DfsmObject, FiniteSetTheorems, TLAPS

----------------------------------------------------------------------------
(* The inductive invariant. *)

Requested(o) == {n \in BusNames[o] : names[o][n] = "requested"}

\* As long as no name was refused, the callbacks outstanding are the names
\* the bus has not answered for.
CountInv ==
  \A o \in pending :
    /\ o \in registered
    /\ outstanding[o] # 0
    /\ o \notin erroneous =>
         /\ outstanding[o] = Cardinality(Requested(o))
         /\ \A n \in BusNames[o] : names[o][n] \in {"requested", "acquired"}

Inv == TypeOK /\ Coupled /\ CountInv

----------------------------------------------------------------------------
(* Lemmas. *)

\* The answers of a prefix of a sequence are finitely many.
LEMMA PrefixAnswers ==
  ASSUME NEW queue \in Seq(Entries), NEW n \in 0..Len(queue)
  PROVE  /\ Cardinality(AnswersIn(SubSeq(queue, 1, n))) \in Nat
         /\ SubSeq(queue, 1, Len(queue)) = queue
<1>1. Len(queue) \in Nat /\ n \in Nat /\ n <= Len(queue)
  OBVIOUS
<1>2. SubSeq(queue, 1, n) \in Seq(Entries) /\ Len(SubSeq(queue, 1, n)) = n
  BY <1>1
<1>3. AnswersIn(SubSeq(queue, 1, n)) \in SUBSET (1..n)
  BY <1>1, <1>2 DEF AnswersIn
<1>4. IsFiniteSet(1..n)
  BY <1>1, FS_Interval
<1> QED
  BY <1>3, <1>4, FS_Subset, FS_CardinalityType

\* What output leaves in the history.
LEMMA OutputLast ==
  ASSUME NEW kind \in {"method", "property", "arbitrary"},
         NEW queue \in Seq(Entries), Output(kind, queue)
  PROVE  /\ last'.kind = kind /\ last'.queue \in Seq(Entries)
         /\ last'.sent \in 0..Len(last'.queue)
         /\ last'.answers \in Nat /\ last'.failed \in BOOLEAN
         /\ last'.kind = "method" /\ (\E k \in DOMAIN queue : AnswersIn(queue) = {k}) =>
              last'.answers >= 1
<1>1. PICK n \in {k \in 0..Len(queue) : k < Len(queue) => queue[k + 1] = "emit"} :
        last' = [kind |-> kind, queue |-> queue, sent |-> n, failed |-> n < Len(queue),
                 answers |-> Cardinality(AnswersIn(SubSeq(queue, 1, n)))
                               + IF kind = "method" /\ n < Len(queue) THEN 1 ELSE 0]
  BY DEF Output
<1> DEFINE sent == Cardinality(AnswersIn(SubSeq(queue, 1, n)))
<1>2. sent \in Nat /\ n \in 0..Len(queue) /\ Len(queue) \in Nat
  BY PrefixAnswers
<1>3. last'.answers = sent + IF kind = "method" /\ n < Len(queue) THEN 1 ELSE 0
  BY <1>1
<1>4. ASSUME kind = "method", NEW k \in DOMAIN queue, AnswersIn(queue) = {k}
      PROVE  last'.answers >= 1
  <2>1. CASE n < Len(queue)
    <3> HIDE DEF sent
    <3> QED
      BY <1>2, <1>3, <1>4, <2>1
  <2>2. CASE n = Len(queue)
    <3>1. sent = Cardinality({k})
      BY <1>4, <2>2, PrefixAnswers
    <3>2. Cardinality({k}) = 1
      BY FS_Singleton
    <3> HIDE DEF sent
    <3> QED
      BY <1>2, <1>3, <2>2, <3>1, <3>2
  <2> QED
    BY <1>2, <2>1, <2>2
<1> HIDE DEF sent
<1>5. last'.answers \in Nat
  BY <1>2, <1>3
<1> QED
  BY <1>1, <1>2, <1>4, <1>5

\* The history after a step that is no call.
LEMMA NoCallType ==
  ASSUME last' = NoCall
  PROVE  /\ last'.kind \in {"none", "method", "property", "arbitrary"}
         /\ last'.queue \in Seq(Entries) /\ last'.sent \in 0..Len(last'.queue)
         /\ last'.answers \in Nat /\ last'.failed \in BOOLEAN
<1>1. last'.queue = <<>> /\ last'.sent = 0
  BY DEF NoCall
<1>2. last'.kind = "none" /\ last'.answers = 0 /\ last'.failed = FALSE
  BY DEF NoCall
<1>3. Len(last'.queue) = 0 /\ last'.queue \in Seq(Entries)
  BY <1>1
<1>4. last'.sent \in 0..Len(last'.queue)
  <2>1. 0 \in 0..0
    OBVIOUS
  <2> QED
    BY <1>1, <1>3, <2>1
<1>5. last'.kind \in {"none", "method", "property", "arbitrary"}
  BY <1>2
<1>6. last'.answers \in Nat
  BY <1>2
<1>7. last'.failed \in BOOLEAN
  BY <1>2, Zenon
<1> QED
  BY <1>3, <1>4, <1>5, <1>6, <1>7

\* One name that was requested is answered.
LEMMA OneAnswered ==
  ASSUME TypeOK, NEW o \in Objects, NEW n \in BusNames[o]
  PROVE  /\ IsFiniteSet(Requested(o)) /\ Cardinality(Requested(o)) \in Nat
         /\ Cardinality(Requested(o) \ {n}) =
              IF names[o][n] = "requested" THEN Cardinality(Requested(o)) - 1
                                           ELSE Cardinality(Requested(o))
         /\ IsFiniteSet(Requested(o) \ {n})
<1>1. IsFiniteSet(BusNames[o]) /\ Requested(o) \in SUBSET BusNames[o]
  BY ObjectsAssumption DEF Requested
<1>2. IsFiniteSet(Requested(o)) /\ Cardinality(Requested(o)) \in Nat
  BY <1>1, FS_Subset, FS_CardinalityType
<1> QED
  BY <1>2, FS_RemoveElement DEF Requested

----------------------------------------------------------------------------
(* The invariant holds. *)

LEMMA InvInit == Init => Inv
<1> SUFFICES ASSUME Init PROVE Inv
  OBVIOUS
<1>1. TypeOK
  BY ObjectsAssumption DEF Init, TypeOK, NameStates, NoCall
<1>2. Coupled /\ CountInv
  BY DEF Init, Coupled, CountInv
<1> QED
  BY <1>1, <1>2 DEF Inv

\* The simulation of an object that is not running is started or not.
LEMMA FinishType ==
  ASSUME TypeOK, NEW o \in Objects, NEW error \in BOOLEAN, Finish(o, error)
  PROVE  /\ pending' = pending \ {o}
         /\ results' \in [Objects -> Seq({"ok", "error"})]
         /\ connected' \subseteq Objects /\ scheduled' \subseteq Objects
         /\ started' \subseteq Objects /\ sources' \in [Objects -> Nat]
         /\ unfuzzed_transition_count' \in 0..unfuzzed_transition_limit
         /\ IF error THEN UNCHANGED simulation
            ELSE /\ connected' = connected \cup {o} /\ scheduled' = scheduled \cup {o}
                 /\ started' = started \cup {o}
                 /\ sources' = [sources EXCEPT ![o] = @ + 1]
<1>1. results' \in [Objects -> Seq({"ok", "error"})]
  BY DEF Finish, Complete, TypeOK
<1>2. CASE error
  BY <1>1, <1>2 DEF Finish, simulation, TypeOK
<1>3. CASE ~ error
  <2>1. pending' = pending \ {o} /\ Start(o)
    BY <1>3 DEF Finish
  <2>2. unfuzzed_transition_count' \in 0..unfuzzed_transition_limit
    BY <2>1, ObjectsAssumption DEF Start
  <2>3. sources' \in [Objects -> Nat]
    BY <2>1 DEF Start, TypeOK
  <2> QED
    BY <1>1, <1>3, <2>1, <2>2, <2>3 DEF Start, TypeOK
<1> QED
  BY <1>2, <1>3

LEMMA RegisterInv ==
  ASSUME Inv, NEW o \in Objects, RegisterOnBus(o)
  PROVE  Inv'
<1> USE DEF Inv
<1>1. last' = NoCall /\ moved' = moved
  BY DEF RegisterOnBus
<1>2. /\ last'.kind \in {"none", "method", "property", "arbitrary"}
      /\ last'.queue \in Seq(Entries) /\ last'.sent \in 0..Len(last'.queue)
      /\ last'.answers \in Nat /\ last'.failed \in BOOLEAN
  BY NoCallType DEF RegisterOnBus
<1>3. CASE RegisterAgain(o) \/ RegisterClash(o)
  <2>1. results' \in [Objects -> Seq({"ok", "error"})]
    <3>1. PICK r \in {"ok", "error"} : results' = [results EXCEPT ![o] = Append(@, r)]
      BY <1>3 DEF RegisterAgain, RegisterClash, Complete
    <3>2. Append(results[o], r) \in Seq({"ok", "error"})
      BY DEF TypeOK
    <3> QED
      BY <3>1, <3>2 DEF TypeOK
  <2>2. UNCHANGED <<registered, exported, names, outstanding, pending, erroneous,
                    simulation, unfuzzed_transition_count>>
    BY <1>3 DEF RegisterAgain, RegisterClash
  <2>3. TypeOK'
    BY <1>1, <1>2, <2>1, <2>2 DEF TypeOK, simulation
  <2>4. Coupled' /\ CountInv'
    BY <2>2 DEF Coupled, CountInv, Requested, simulation
  <2> QED
    BY <2>3, <2>4
<1>4. CASE RegisterObject(o)
  <2>1. /\ o \notin registered /\ registered' = registered \cup {o}
        /\ exported' = exported \cup {o} /\ erroneous' = erroneous \ {o}
        /\ names' = [names EXCEPT ![o] = [n \in BusNames[o] |-> "requested"]]
        /\ outstanding' = [outstanding EXCEPT ![o] = Cardinality(BusNames[o])]
    BY <1>4 DEF RegisterObject, RequestNames
  <2>2. IsFiniteSet(BusNames[o]) /\ Cardinality(BusNames[o]) \in Nat
        /\ (Cardinality(BusNames[o]) = 0 <=> BusNames[o] = {})
    BY ObjectsAssumption, FS_CardinalityType, FS_EmptySet
  <2>3. /\ registered' \subseteq Objects /\ exported' \subseteq Objects
        /\ erroneous' \subseteq Objects /\ DOMAIN names' = Objects
        /\ \A q \in Objects : names'[q] \in [BusNames[q] -> NameStates]
        /\ outstanding' \in [Objects -> Nat]
    BY <2>1, <2>2 DEF TypeOK, NameStates
  <2>4. o \notin started /\ o \notin connected /\ o \notin scheduled
        /\ o \notin pending /\ sources[o] = 0
    BY <2>1 DEF Coupled, CountInv
  <2>5. CASE BusNames[o] = {}
    <3>1. Finish(o, FALSE)
      BY <1>4, <2>5 DEF RegisterObject
    <3>2. /\ pending' = pending \ {o}
          /\ results' \in [Objects -> Seq({"ok", "error"})]
          /\ connected' \subseteq Objects /\ scheduled' \subseteq Objects
          /\ started' \subseteq Objects /\ sources' \in [Objects -> Nat]
          /\ unfuzzed_transition_count' \in 0..unfuzzed_transition_limit
          /\ connected' = connected \cup {o} /\ scheduled' = scheduled \cup {o}
          /\ started' = started \cup {o}
          /\ sources' = [sources EXCEPT ![o] = @ + 1]
      BY <3>1, FinishType
    <3>3. TypeOK'
      BY <1>1, <1>2, <2>3, <3>2 DEF TypeOK
    <3>4. Coupled'
      BY <2>1, <2>4, <3>2 DEF Coupled, TypeOK
    <3>5. CountInv'
      <4>1. \A q \in pending : names'[q] = names[q] /\ outstanding'[q] = outstanding[q] /\ q # o
        BY <2>1, <2>4 DEF TypeOK
      <4>2. \A q \in pending : Requested(q)' = Requested(q)
        BY <4>1 DEF Requested
      <4> QED
        BY <2>1, <3>2, <4>1, <4>2 DEF CountInv
    <3> QED
      BY <3>3, <3>4, <3>5
  <2>6. CASE BusNames[o] # {}
    <3>1. pending' = pending \cup {o}
          /\ UNCHANGED <<results, simulation, unfuzzed_transition_count>>
      BY <1>4, <2>6 DEF RegisterObject
    <3>2. TypeOK'
      BY <1>1, <1>2, <2>3, <3>1 DEF TypeOK, simulation
    <3>3. Coupled'
      BY <2>1, <2>4, <3>1 DEF Coupled, TypeOK, simulation
    <3>4. CountInv'
      <4>1. Requested(o)' = BusNames[o]
        BY <2>1 DEF Requested, TypeOK
      <4>2. outstanding'[o] = Cardinality(BusNames[o]) /\ outstanding'[o] # 0
        BY <2>1, <2>2, <2>6 DEF TypeOK
      <4>3. \A n \in BusNames[o] : names'[o][n] = "requested"
        BY <2>1 DEF TypeOK
      <4>4. \A q \in pending : names'[q] = names[q] /\ outstanding'[q] = outstanding[q] /\ q # o
        BY <2>1, <2>4 DEF TypeOK
      <4>5. \A q \in pending : Requested(q)' = Requested(q)
        BY <4>4 DEF Requested
      <4> QED
        BY <2>1, <3>1, <4>1, <4>2, <4>3, <4>4, <4>5 DEF CountInv
    <3> QED
      BY <3>2, <3>3, <3>4
  <2> QED
    BY <2>5, <2>6
<1> QED
  BY <1>3, <1>4 DEF RegisterOnBus

\* What the callbacks of a name do to the rest of the state.
LEMMA NameAnsweredInv ==
  ASSUME Inv, NEW o \in registered, NEW n \in BusNames[o], NEW error \in BOOLEAN,
         NEW reply \in {"acquired", "lost"}, names[o][n] # reply,
         names' = [names EXCEPT ![o][n] = reply],
         erroneous' = IF error THEN erroneous \cup {o} ELSE erroneous,
         reply = "lost" => error, error <=> o \in erroneous',
         NameAnswered(o, error), last' = NoCall,
         UNCHANGED <<registered, exported, moved>>
  PROVE  Inv'
<1> USE DEF Inv
<1>1. o \in Objects
  BY DEF TypeOK
<1>2. /\ last'.kind \in {"none", "method", "property", "arbitrary"}
      /\ last'.queue \in Seq(Entries) /\ last'.sent \in 0..Len(last'.queue)
      /\ last'.answers \in Nat /\ last'.failed \in BOOLEAN
  BY NoCallType DEF RegisterOnBus
<1>3. /\ DOMAIN names' = Objects
      /\ \A q \in Objects : names'[q] \in [BusNames[q] -> NameStates]
      /\ erroneous' \subseteq Objects
      /\ \A q \in Objects : q # o => names'[q] = names[q]
      /\ \A m \in BusNames[o] : names'[o][m] = IF m = n THEN reply ELSE names[o][m]
  BY <1>1 DEF TypeOK, NameStates
<1>4. \A q \in Objects : q # o => Requested(q)' = Requested(q)
  BY <1>3 DEF Requested
<1>5. Requested(o)' = Requested(o) \ {n}
  BY <1>3 DEF Requested
<1>6. CASE o \notin pending
  <2>1. UNCHANGED <<outstanding, pending, results, simulation, unfuzzed_transition_count>>
    BY <1>6 DEF NameAnswered
  <2>2. TypeOK'
    BY <1>2, <1>3, <2>1 DEF TypeOK, simulation
  <2>3. Coupled'
    BY <2>1 DEF Coupled, simulation
  <2>4. CountInv'
    <3>1. ASSUME NEW q \in pending PROVE q # o /\ q \in Objects
      BY <1>6, <3>1 DEF TypeOK
    <3> QED
      BY <1>3, <1>4, <2>1, <3>1 DEF CountInv
  <2> QED
    BY <2>2, <2>3, <2>4
<1>7. CASE o \in pending
  <2>1. outstanding' = [outstanding EXCEPT ![o] = @ - 1] /\ outstanding[o] \in Nat \ {0}
    BY <1>1, <1>7 DEF NameAnswered, CountInv, TypeOK
  <2>2. outstanding' \in [Objects -> Nat] /\ outstanding'[o] = outstanding[o] - 1
        /\ \A q \in Objects : q # o => outstanding'[q] = outstanding[q]
    BY <1>1, <2>1 DEF TypeOK
  <2>3. o \notin started /\ o \notin connected /\ o \notin scheduled /\ sources[o] = 0
    BY <1>1, <1>7 DEF Coupled
  <2>4. ASSUME NEW q \in pending, q # o
        PROVE  /\ q \in registered /\ outstanding'[q] # 0
               /\ q \notin erroneous' =>
                    /\ outstanding'[q] = Cardinality(Requested(q)')
                    /\ \A m \in BusNames[q] : names'[q][m] \in {"requested", "acquired"}
    <3>1. q \in Objects
      BY DEF TypeOK
    <3> QED
      BY <1>3, <1>4, <2>2, <2>4, <3>1 DEF CountInv
  <2>5. CASE outstanding[o] > 1
    <3>1. UNCHANGED <<pending, results, simulation, unfuzzed_transition_count>>
      BY <1>7, <2>5 DEF NameAnswered
    <3>2. TypeOK'
      BY <1>2, <1>3, <2>2, <3>1 DEF TypeOK, simulation
    <3>3. Coupled'
      BY <3>1 DEF Coupled, simulation
    <3>4. ASSUME o \notin erroneous'
          PROVE  /\ outstanding'[o] = Cardinality(Requested(o)')
                 /\ \A m \in BusNames[o] : names'[o][m] \in {"requested", "acquired"}
      <4>1. o \notin erroneous /\ reply = "acquired"
        BY <3>4
      <4>2. names[o][n] = "requested" /\ outstanding[o] = Cardinality(Requested(o))
            /\ \A m \in BusNames[o] : names[o][m] \in {"requested", "acquired"}
        BY <1>7, <4>1 DEF CountInv
      <4>3. outstanding'[o] = Cardinality(Requested(o)')
        <5>1. Cardinality(Requested(o) \ {n}) = Cardinality(Requested(o)) - 1
          BY <1>1, <4>2, OneAnswered
        <5> QED
          BY <1>5, <2>2, <4>2, <5>1
      <4> QED
        BY <1>3, <4>1, <4>2, <4>3
    <3>5. outstanding'[o] # 0
      BY <2>1, <2>2, <2>5
    <3>6. CountInv'
      BY <1>7, <2>4, <3>1, <3>4, <3>5 DEF CountInv
    <3> QED
      BY <3>2, <3>3, <3>6
  <2>6. CASE ~ (outstanding[o] > 1)
    <3>1. Finish(o, error)
      BY <1>7, <2>6 DEF NameAnswered
    <3>2. /\ pending' = pending \ {o}
          /\ results' \in [Objects -> Seq({"ok", "error"})]
          /\ connected' \subseteq Objects /\ scheduled' \subseteq Objects
          /\ started' \subseteq Objects /\ sources' \in [Objects -> Nat]
          /\ unfuzzed_transition_count' \in 0..unfuzzed_transition_limit
          /\ IF error THEN UNCHANGED simulation
             ELSE /\ connected' = connected \cup {o} /\ scheduled' = scheduled \cup {o}
                  /\ started' = started \cup {o}
                  /\ sources' = [sources EXCEPT ![o] = @ + 1]
      BY <1>1, <3>1, FinishType
    <3>3. TypeOK'
      BY <1>2, <1>3, <2>2, <3>2 DEF TypeOK
    <3>4. Coupled'
      <4>1. CASE error
        BY <2>3, <3>2, <4>1 DEF Coupled, simulation
      <4>2. CASE ~ error
        BY <1>1, <2>3, <3>2, <4>2 DEF Coupled, TypeOK
      <4> QED
        BY <4>1, <4>2
    <3>5. CountInv'
      BY <2>4, <3>2 DEF CountInv
    <3> QED
      BY <3>3, <3>4, <3>5
  <2> QED
    BY <2>5, <2>6
<1> QED
  BY <1>6, <1>7

LEMMA UnregisterInv ==
  ASSUME Inv, NEW o \in Objects, UnregisterOnBus(o)
  PROVE  Inv'
<1> USE DEF Inv
<1>1. /\ last'.kind \in {"none", "method", "property", "arbitrary"}
      /\ last'.queue \in Seq(Entries) /\ last'.sent \in 0..Len(last'.queue)
      /\ last'.answers \in Nat /\ last'.failed \in BOOLEAN
  BY NoCallType DEF UnregisterOnBus
<1>2. /\ names' = [names EXCEPT ![o] = [n \in BusNames[o] |-> "none"]]
      /\ DOMAIN names' = Objects
      /\ \A q \in Objects : names'[q] \in [BusNames[q] -> NameStates]
      /\ \A q \in Objects : q # o => names'[q] = names[q]
  BY DEF UnregisterOnBus, TypeOK, NameStates
<1>3. sources' = [sources EXCEPT ![o] = 0]
  <2>1. sources[o] = IF o \in scheduled THEN 1 ELSE 0
    BY DEF Coupled
  <2>2. (IF o \in scheduled THEN sources[o] - 1 ELSE sources[o]) = 0
    BY <2>1
  <2>3. sources' = [sources EXCEPT ![o] = IF o \in scheduled THEN sources[o] - 1 ELSE sources[o]]
    BY DEF UnregisterOnBus
  <2> QED
    BY <2>2, <2>3
<1>4. TypeOK'
  <2>1. sources' \in [Objects -> Nat]
    BY <1>3 DEF TypeOK
  <2> QED
    BY <1>1, <1>2, <2>1 DEF TypeOK, UnregisterOnBus
<1>5. Coupled'
  <2>1. sources'[o] = 0 /\ \A q \in Objects : q # o => sources'[q] = sources[q]
    BY <1>3 DEF TypeOK
  <2> QED
    BY <2>1 DEF Coupled, UnregisterOnBus
<1>6. CountInv'
  <2>1. \A q \in pending' : q \in pending /\ q # o /\ q \in Objects /\ names'[q] = names[q]
    BY <1>2 DEF UnregisterOnBus, TypeOK
  <2>2. \A q \in pending' : Requested(q)' = Requested(q)
    BY <2>1 DEF Requested
  <2> QED
    BY <2>1, <2>2 DEF CountInv, UnregisterOnBus
<1> QED
  BY <1>4, <1>5, <1>6

LEMMA DispatchInv ==
  ASSUME Inv, NEW o \in Objects, DispatchResult(o)
  PROVE  Inv'
<1> USE DEF Inv
<1>1. results' \in [Objects -> Seq({"ok", "error"})]
  <2>1. Tail(results[o]) \in Seq({"ok", "error"})
    BY DEF DispatchResult, TypeOK
  <2> QED
    BY <2>1 DEF DispatchResult, TypeOK
<1>2. TypeOK'
  BY <1>1 DEF DispatchResult, TypeOK, simulation
<1>3. Coupled'
  BY DEF DispatchResult, Coupled, simulation
<1>4. CountInv'
  <2>1. \A q \in Objects : Requested(q)' = Requested(q)
    BY DEF DispatchResult, Requested
  <2>2. UNCHANGED <<registered, names, outstanding, pending, erroneous>>
    BY DEF DispatchResult
  <2> QED
    BY <2>1, <2>2 DEF CountInv, TypeOK
<1> QED
  BY <1>2, <1>3, <1>4

LEMMA ResetInv ==
  ASSUME Inv, NEW o \in Objects, Reset(o)
  PROVE  Inv'
<1> USE DEF Inv
<1>1. /\ last'.kind \in {"none", "method", "property", "arbitrary"}
      /\ last'.queue \in Seq(Entries) /\ last'.sent \in 0..Len(last'.queue)
      /\ last'.answers \in Nat /\ last'.failed \in BOOLEAN
  BY NoCallType DEF Reset
<1>2. scheduled' = scheduled /\ sources' = sources
  <2>1. CASE o \in started
    <3>1. o \in scheduled
      BY <2>1 DEF Coupled
    <3>2. sources' = [sources EXCEPT ![o] = sources[o]] /\ scheduled' = scheduled \cup {o}
      BY <2>1, <3>1 DEF Reset, Reschedule
    <3> QED
      BY <3>1, <3>2 DEF TypeOK
  <2> QED
    BY <2>1 DEF Reset
<1>3. unfuzzed_transition_count' \in 0..unfuzzed_transition_limit
  BY ObjectsAssumption DEF Reset
<1>4. TypeOK'
  BY <1>1, <1>2, <1>3 DEF Reset, TypeOK, registration
<1>5. Coupled' /\ CountInv'
  BY <1>2 DEF Reset, Coupled, CountInv, Requested, registration
<1> QED
  BY <1>4, <1>5

\* A call counts, outputs and leaves the registration and the timer alone.
LEMMA CallInv ==
  ASSUME Inv, NEW o \in Objects, MethodCall(o) \/ SetProperty(o) \/ ArbitraryTransition(o)
  PROVE  Inv' /\ Answered'
<1> USE DEF Inv
<1>1. ASSUME NEW kind \in {"method", "property", "arbitrary"}, NEW queue \in Seq(Entries),
             Output(kind, queue),
             kind = "method" => \E k \in DOMAIN queue : AnswersIn(queue) = {k}
      PROVE  /\ last'.kind \in {"none", "method", "property", "arbitrary"}
             /\ last'.queue \in Seq(Entries) /\ last'.sent \in 0..Len(last'.queue)
             /\ last'.answers \in Nat /\ last'.failed \in BOOLEAN
             /\ Answered'
  BY <1>1, OutputLast DEF Answered
<1>2. \A queue \in OtherOutputs : queue \in Seq(Entries) /\ Append(queue, "emit") \in Seq(Entries)
  BY OutputsAssumption DEF Entries
<1>3. /\ last'.kind \in {"none", "method", "property", "arbitrary"}
      /\ last'.queue \in Seq(Entries) /\ last'.sent \in 0..Len(last'.queue)
      /\ last'.answers \in Nat /\ last'.failed \in BOOLEAN
      /\ Answered'
  <2>1. CASE MethodCall(o)
    BY <1>1, <2>1, OutputsAssumption DEF MethodCall
  <2>2. CASE SetProperty(o)
    <3>1. PICK queue \in OtherOutputs, changed \in BOOLEAN :
            Output("property", IF changed THEN Append(queue, "emit") ELSE queue)
      BY <2>2 DEF SetProperty
    <3>2. (IF changed THEN Append(queue, "emit") ELSE queue) \in Seq(Entries)
      BY <1>2
    <3> QED
      BY <1>1, <3>1, <3>2
  <2>3. CASE ArbitraryTransition(o)
    BY <1>1, <1>2, <2>3 DEF ArbitraryTransition
  <2> QED
    BY <2>1, <2>2, <2>3
<1>4. unfuzzed_transition_count' \in 0..unfuzzed_transition_limit
  <2>1. CountTransition
    BY DEF MethodCall, SetProperty, ArbitraryTransition
  <2> QED
    BY <2>1, ObjectsAssumption DEF CountTransition, TypeOK
<1>5. UNCHANGED <<registration, simulation>> /\ moved' = moved \cup {o}
  <2>1. ASSUME ArbitraryTransition(o) PROVE o \in scheduled
    BY <2>1 DEF ArbitraryTransition, Coupled
  <2>2. ASSUME ArbitraryTransition(o) PROVE scheduled' = scheduled
    BY <2>1, <2>2 DEF ArbitraryTransition
  <2> QED
    BY <2>2 DEF MethodCall, SetProperty, ArbitraryTransition, simulation
<1>6. TypeOK'
  BY <1>3, <1>4, <1>5 DEF TypeOK, registration, simulation
<1>7. Coupled' /\ CountInv'
  BY <1>5 DEF Coupled, CountInv, Requested, registration, simulation
<1> QED
  BY <1>3, <1>6, <1>7

LEMMA InvNext == Inv /\ [Next]_vars => Inv'
<1> SUFFICES ASSUME Inv, [Next]_vars PROVE Inv'
  OBVIOUS
<1>1. CASE UNCHANGED vars
  <2>1. TypeOK'
    BY <1>1 DEF vars, registration, simulation, Inv, TypeOK
  <2>2. Coupled'
    BY <1>1 DEF vars, registration, simulation, Inv, Coupled
  <2>3. CountInv'
    <3>1. \A o \in Objects : Requested(o)' = Requested(o)
      BY <1>1 DEF vars, registration, Requested
    <3> QED
      BY <1>1, <3>1 DEF vars, registration, Inv, TypeOK, CountInv
  <2> QED
    BY <2>1, <2>2, <2>3 DEF Inv
<1>2. ASSUME NEW o \in Objects, NEW n \in BusNames[o], NameAcquired(o, n)
      PROVE  Inv'
  <2>1. /\ o \in registered /\ names[o][n] # "acquired"
        /\ names' = [names EXCEPT ![o][n] = "acquired"]
        /\ NameAnswered(o, o \in erroneous) /\ last' = NoCall /\ erroneous' = erroneous
        /\ UNCHANGED <<registered, exported, moved>>
    BY <1>2 DEF NameAcquired
  <2>2. erroneous' = IF o \in erroneous THEN erroneous \cup {o} ELSE erroneous
    BY <2>1
  <2>3. (o \in erroneous) \in BOOLEAN
    OBVIOUS
  <2>4. CASE o \in erroneous
    <3>1. NameAnswered(o, TRUE)
      BY <2>1, <2>4
    <3> QED
      BY <2>1, <2>2, <2>4, <3>1, NameAnsweredInv
  <2>5. CASE o \notin erroneous
    <3>1. (o \in erroneous) = FALSE
      BY <2>5
    <3>2. NameAnswered(o, FALSE)
      BY <2>1, <3>1
    <3> QED
      BY <2>1, <2>2, <2>5, <3>2, NameAnsweredInv
  <2> QED
    BY <2>4, <2>5
<1>3. ASSUME NEW o \in Objects, NEW n \in BusNames[o], NameLost(o, n)
      PROVE  Inv'
  <2>1. /\ o \in registered /\ names[o][n] # "lost"
        /\ names' = [names EXCEPT ![o][n] = "lost"]
        /\ NameAnswered(o, TRUE) /\ last' = NoCall /\ erroneous' = erroneous \cup {o}
        /\ UNCHANGED <<registered, exported, moved>>
    BY <1>3 DEF NameLost
  <2> QED
    BY <2>1, NameAnsweredInv
<1> QED
  BY <1>1, <1>2, <1>3, RegisterInv, DispatchInv, UnregisterInv, ResetInv, CallInv DEF Next

LEMMA InvCorrect == Spec => []Inv
BY InvInit, InvNext, PTL DEF Spec

\* Every variable keeps its type, for any objects, names and limits.
THEOREM TypeCorrect == Spec => []TypeOK
BY InvCorrect, PTL DEF Inv

\* An object runs if and only if it has a connection and one live timer.
THEOREM CoupledHolds == Spec => []Coupled
BY InvCorrect, PTL DEF Inv

\* A method call has been answered when its handler returns.
THEOREM AnsweredHolds == Spec => []Answered
<1>1. Init => Answered
  BY DEF Init, Answered, NoCall
<1>2. Inv /\ Answered /\ [Next]_vars => Answered'
  <2> SUFFICES ASSUME Inv, Answered, [Next]_vars PROVE Answered'
    OBVIOUS
  <2>1. CASE UNCHANGED last
    BY <2>1 DEF Answered
  <2>2. CASE last' = NoCall
    BY <2>2 DEF Answered, NoCall
  <2>3. ASSUME NEW o \in Objects, MethodCall(o) \/ SetProperty(o) \/ ArbitraryTransition(o)
        PROVE  Answered'
    BY <2>3, CallInv
  <2> QED
    BY <2>1, <2>2, <2>3 DEF Next, vars, RegisterOnBus, DispatchResult, UnregisterOnBus, NameAcquired, NameLost, Reset
<1> QED
  BY <1>1, <1>2, InvCorrect, PTL DEF Spec

----------------------------------------------------------------------------
(* DfsmObject implements Lifecycle. *)

\* The steps that leave the registration and the running objects alone.
LEMMA Stutter ==
  ASSUME UNCHANGED <<registered, pending, started, names>>,
         \A o \in Objects : o \in erroneous' <=> o \in erroneous
  PROVE  UNCHANGED <<[o \in Objects |-> Phase(o)], names>>
<1>1. \A o \in Objects : Phase(o)' = Phase(o)
  BY DEF Phase
<1> QED
  BY <1>1

\* A step that changes the phase of one object.
LEMMA OnePhase ==
  ASSUME NEW o \in Objects, NEW p, Phase(o)' = p,
         \A q \in Objects : q # o =>
           /\ q \in registered' <=> q \in registered
           /\ q \in pending' <=> q \in pending
           /\ q \in erroneous' <=> q \in erroneous
           /\ q \in started' <=> q \in started
  PROVE  [q \in Objects |-> Phase(q)]' = [[q \in Objects |-> Phase(q)] EXCEPT ![o] = p]
<1>1. \A q \in Objects : q # o => Phase(q)' = Phase(q)
  BY DEF Phase
<1> QED
  BY <1>1

LEMMA RegisterPhase ==
  ASSUME Inv, NEW o \in Objects, RegisterObject(o)
  PROVE  Abstract!Register(o)
<1> USE DEF Inv
<1>1. /\ o \notin registered /\ registered' = registered \cup {o}
      /\ erroneous' = erroneous \ {o}
      /\ names' = [names EXCEPT ![o] = [n \in BusNames[o] |-> "requested"]]
  BY DEF RegisterObject, RequestNames
<1>2. IF BusNames[o] = {} THEN pending' = pending \ {o} /\ started' = started \cup {o}
                          ELSE pending' = pending \cup {o} /\ started' = started
  BY DEF RegisterObject, Finish, Start, simulation
<1>3. Phase(o) = "unregistered"
  BY <1>1 DEF Phase
<1>4. Phase(o)' = IF BusNames[o] = {} THEN "started" ELSE "registering"
  BY <1>1, <1>2 DEF Phase
<1>5. [q \in Objects |-> Phase(q)]' =
        [[q \in Objects |-> Phase(q)] EXCEPT ![o] =
           IF BusNames[o] = {} THEN "started" ELSE "registering"]
  BY <1>1, <1>2, <1>4, OnePhase
<1> QED
  BY <1>1, <1>3, <1>5 DEF Abstract!Register

LEMMA UnregisterPhase ==
  ASSUME Inv, NEW o \in Objects, UnregisterOnBus(o)
  PROVE  Abstract!Unregister(o)
<1>1. /\ o \in registered /\ registered' = registered \ {o} /\ pending' = pending \ {o}
      /\ started' = started \ {o} /\ erroneous' = erroneous
      /\ names' = [names EXCEPT ![o] = [n \in BusNames[o] |-> "none"]]
  BY DEF UnregisterOnBus
<1>2. Phase(o) # "unregistered" /\ Phase(o)' = "unregistered"
  BY <1>1 DEF Phase
<1>3. [q \in Objects |-> Phase(q)]' = [[q \in Objects |-> Phase(q)] EXCEPT ![o] = "unregistered"]
  BY <1>1, <1>2, OnePhase
<1> QED
  BY <1>1, <1>2, <1>3 DEF Abstract!Unregister

\* The last callback has come when no name is requested any more.
LEMMA LastCallback ==
  ASSUME Inv, NEW o \in pending, o \notin erroneous, NEW n \in BusNames[o],
         names[o][n] = "requested"
  PROVE  outstanding[o] > 1 <=>
           \E m \in BusNames[o] : m # n /\ names[o][m] = "requested"
<1> USE DEF Inv
<1>1. o \in Objects /\ outstanding[o] = Cardinality(Requested(o))
  BY DEF CountInv, TypeOK
<1>2. /\ IsFiniteSet(Requested(o) \ {n})
      /\ Cardinality(Requested(o)) \in Nat
      /\ Cardinality(Requested(o) \ {n}) = Cardinality(Requested(o)) - 1
  BY <1>1, OneAnswered
<1>3. Cardinality(Requested(o) \ {n}) = 0 <=> Requested(o) \ {n} = {}
  BY <1>2, FS_EmptySet
<1>4. outstanding[o] > 1 <=> Requested(o) \ {n} # {}
  <2>1. Cardinality(Requested(o)) # 0
    <3>1. n \in Requested(o) /\ IsFiniteSet(Requested(o))
      BY <1>1, OneAnswered DEF Requested
    <3> QED
      BY <3>1, FS_EmptySet
  <2> QED
    BY <1>1, <1>2, <1>3, <2>1
<1> QED
  BY <1>4 DEF Requested

LEMMA AcquirePhase ==
  ASSUME Inv, NEW o \in Objects, NEW n \in BusNames[o], NameAcquired(o, n)
  PROVE  Abstract!Acquire(o, n)
<1> USE DEF Inv
<1>1. /\ o \in registered /\ names[o][n] \in {"requested", "lost"}
      /\ names' = [names EXCEPT ![o][n] = "acquired"]
      /\ NameAnswered(o, o \in erroneous)
      /\ registered' = registered /\ erroneous' = erroneous
  BY DEF NameAcquired
<1>2. \A m \in BusNames[o] : names'[o][m] = IF m = n THEN "acquired" ELSE names[o][m]
  BY <1>1 DEF TypeOK
<1>3. CASE o \notin pending
  <2>1. pending' = pending /\ started' = started
    BY <1>1, <1>3 DEF NameAnswered, simulation
  <2>2. UNCHANGED [q \in Objects |-> Phase(q)]
    BY <1>1, <2>1, Stutter DEF Phase
  <2>3. Phase(o) \in {"started", "failed"}
    BY <1>1, <1>3 DEF Phase
  <2> QED
    BY <1>1, <2>2, <2>3 DEF Abstract!Acquire
<1>4. CASE o \in pending \ erroneous
  <2>1. Phase(o) = "registering" /\ names[o][n] = "requested"
    BY <1>1, <1>4 DEF Phase, CountInv
  <2>2. outstanding[o] > 1 <=> ~ Abstract!AllAcquired(o)
    <3>1. \A m \in BusNames[o] : names[o][m] \in {"requested", "acquired"}
      BY <1>4 DEF CountInv
    <3> QED
      BY <1>2, <1>4, <2>1, <3>1, LastCallback DEF Abstract!AllAcquired
  <2>3. CASE outstanding[o] > 1
    <3>1. pending' = pending /\ started' = started
      BY <1>1, <1>4, <2>3 DEF NameAnswered, simulation
    <3>2. Phase(o)' = "registering"
      BY <1>1, <1>4, <3>1 DEF Phase
    <3>3. [q \in Objects |-> Phase(q)]' = [[q \in Objects |-> Phase(q)] EXCEPT ![o] = "registering"]
      BY <1>1, <3>1, <3>2, OnePhase
    <3> QED
      BY <1>1, <2>1, <2>2, <2>3, <3>3 DEF Abstract!Acquire
  <2>4. CASE ~ (outstanding[o] > 1)
    <3>1. (o \in erroneous) = FALSE
      BY <1>4
    <3>2. Finish(o, FALSE)
      BY <1>1, <1>4, <2>4, <3>1 DEF NameAnswered
    <3>3. pending' = pending \ {o} /\ started' = started \cup {o}
      BY <3>2 DEF Finish, Start
    <3>4. Phase(o)' = "started"
      BY <1>1, <3>3 DEF Phase
    <3>5. [q \in Objects |-> Phase(q)]' = [[q \in Objects |-> Phase(q)] EXCEPT ![o] = "started"]
      BY <1>1, <3>3, <3>4, OnePhase
    <3> QED
      BY <1>1, <2>1, <2>2, <2>4, <3>5 DEF Abstract!Acquire
  <2> QED
    BY <2>3, <2>4
<1>5. CASE o \in pending \cap erroneous
  <2>1. Phase(o) = "failing" /\ o \notin started
    BY <1>1, <1>5 DEF Phase, Coupled
  <2>2. started' = started /\ pending' \in {pending, pending \ {o}}
    <3>1. (o \in erroneous) = TRUE
      BY <1>5
    <3>2. NameAnswered(o, TRUE)
      BY <1>1, <3>1
    <3> QED
      BY <1>5, <3>2 DEF NameAnswered, Finish, simulation
  <2>3. PICK p \in {"failing", "failed"} : Phase(o)' = p
    BY <1>1, <1>5, <2>1, <2>2 DEF Phase
  <2>4. [q \in Objects |-> Phase(q)]' = [[q \in Objects |-> Phase(q)] EXCEPT ![o] = p]
    BY <1>1, <2>2, <2>3, OnePhase
  <2> QED
    BY <1>1, <2>1, <2>4 DEF Abstract!Acquire
<1> QED
  BY <1>3, <1>4, <1>5

LEMMA LosePhase ==
  ASSUME Inv, NEW o \in Objects, NEW n \in BusNames[o], NameLost(o, n)
  PROVE  Abstract!Lose(o, n)
<1> USE DEF Inv
<1>1. /\ o \in registered /\ names[o][n] \in {"requested", "acquired"}
      /\ names' = [names EXCEPT ![o][n] = "lost"]
      /\ NameAnswered(o, TRUE)
      /\ registered' = registered /\ erroneous' = erroneous \cup {o}
  BY DEF NameLost
<1>2. CASE o \notin pending
  <2>1. pending' = pending /\ started' = started
    BY <1>1, <1>2 DEF NameAnswered, simulation
  <2>2. \A q \in Objects : Phase(q)' = Phase(q)
    BY <1>1, <1>2, <2>1 DEF Phase
  <2>3. Phase(o) \in {"started", "failed"}
    BY <1>1, <1>2 DEF Phase
  <2> QED
    BY <1>1, <2>2, <2>3 DEF Abstract!Lose
<1>3. CASE o \in pending
  <2>1. Phase(o) \in {"registering", "failing"} /\ o \notin started
    BY <1>1, <1>3 DEF Phase, Coupled
  <2>2. started' = started /\ pending' \in {pending, pending \ {o}}
    BY <1>1, <1>3 DEF NameAnswered, Finish, simulation
  <2>3. PICK p \in {"failing", "failed"} : Phase(o)' = p
    BY <1>1, <1>3, <2>1, <2>2 DEF Phase
  <2>4. [q \in Objects |-> Phase(q)]' = [[q \in Objects |-> Phase(q)] EXCEPT ![o] = p]
    BY <1>1, <2>2, <2>3, OnePhase
  <2> QED
    BY <1>1, <2>1, <2>4 DEF Abstract!Lose
<1> QED
  BY <1>2, <1>3

\* Counting the callbacks of the names implements the contract of the
\* registration: the simulation of an object starts when all of its names
\* are owned, and never after one was refused.
THEOREM LifecycleImplemented == Spec => ImplementsLifecycle
<1>1. Init => Abstract!Init
  BY DEF Init, Abstract!Init, Phase
<1>2. Inv /\ [Next]_vars => [Abstract!Next]_<<[o \in Objects |-> Phase(o)], names>>
  <2> SUFFICES ASSUME Inv, [Next]_vars
               PROVE  Abstract!Next \/ UNCHANGED <<[o \in Objects |-> Phase(o)], names>>
    OBVIOUS
  <2>1. CASE UNCHANGED <<registered, pending, erroneous, started, names>>
    BY <2>1, Stutter
  <2>2. ASSUME NEW o \in Objects, RegisterOnBus(o)
        PROVE  Abstract!Next \/ UNCHANGED <<[q \in Objects |-> Phase(q)], names>>
    <3>1. CASE RegisterObject(o)
      BY <3>1, RegisterPhase DEF Abstract!Next
    <3>2. CASE RegisterAgain(o) \/ RegisterClash(o)
      BY <2>1, <3>2 DEF RegisterAgain, RegisterClash, simulation
    <3> QED
      BY <2>2, <3>1, <3>2 DEF RegisterOnBus
  <2>3. ASSUME NEW o \in Objects, UnregisterOnBus(o)
        PROVE  Abstract!Next
    BY <2>3, UnregisterPhase DEF Abstract!Next
  <2>4. ASSUME NEW o \in Objects, NEW n \in BusNames[o], NameAcquired(o, n) \/ NameLost(o, n)
        PROVE  Abstract!Next
    BY <2>4, AcquirePhase, LosePhase DEF Abstract!Next
  <2>5. ASSUME NEW o \in Objects,
               DispatchResult(o) \/ Reset(o) \/ MethodCall(o) \/ SetProperty(o) \/ ArbitraryTransition(o)
        PROVE  UNCHANGED <<registered, pending, erroneous, started, names>>
    BY <2>5 DEF DispatchResult, Reset, MethodCall, SetProperty, ArbitraryTransition,
                registration, simulation
  <2>6. CASE UNCHANGED vars
    BY <2>1, <2>6 DEF vars, registration, simulation
  <2> QED
    BY <2>1, <2>2, <2>3, <2>4, <2>5, <2>6 DEF Next
<1> QED
  BY <1>1, <1>2, InvCorrect, PTL DEF Spec, ImplementsLifecycle, Abstract!Spec
=============================================================================
