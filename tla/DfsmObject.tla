----------------------------- MODULE DfsmObject -----------------------------
(***************************************************************************)
(* The simulated D-Bus objects (dfsm/dfsm-object.c) with the output        *)
(* sequences of their calls (dfsm/dfsm-dbus-output-sequence.c): their      *)
(* registration on the bus, the timer of their arbitrary transitions, the  *)
(* calls they answer and the count of transitions until fuzzing starts,    *)
(* which all the objects of the process share.                             *)
(*                                                                         *)
(* Everything runs on one main loop.  A handler is one step: no callback   *)
(* comes between its parts.  What the machine puts in an output sequence   *)
(* is taken from MethodOutputs and OtherOutputs, which is what Machine     *)
(* shows of it.  GDBus is external: it owns names, holds the exported      *)
(* objects and may fail to send a signal.                                  *)
(***************************************************************************)
EXTENDS Naturals, Sequences, FiniteSets

CONSTANTS
  Objects,          \* the simulated objects
  BusNames,         \* the well-known names of each
  Exports,          \* the <<path, interface>> pairs of each
  MethodOutputs,    \* output sequences of a method call
  OtherOutputs,     \* output sequences of a property's setter or a tick
  unfuzzed_transition_limit,
  MaxResults        \* bound: registration results waiting for the main loop

Entries == {"reply", "throw", "emit"}
IsAnswer(e) == e \in {"reply", "throw"}
AnswersIn(queue) == {k \in DOMAIN queue : IsAnswer(queue[k])}

ASSUME ObjectsAssumption ==
  /\ IsFiniteSet(Objects)
  /\ \A o \in Objects : IsFiniteSet(BusNames[o]) /\ Exports[o] # {}
  /\ unfuzzed_transition_limit \in Nat

\* AnsweredOnce of Machine.
ASSUME OutputsAssumption ==
  /\ MethodOutputs \subseteq Seq(Entries) /\ OtherOutputs \subseteq Seq(Entries)
  /\ \A queue \in MethodOutputs : \E k \in DOMAIN queue : AnswersIn(queue) = {k}
  /\ \A queue \in OtherOutputs : AnswersIn(queue) = {}

VARIABLES
  registered,     \* objects whose registration_ids and bus_name_ids are set
  exported,       \* objects whose interfaces GDBus has on the connection
  names,          \* what GDBus last told the callbacks of each name
  outstanding,    \* outstanding_bus_ownership_callbacks of the registration
  pending,        \* objects whose registration has its async_result
  erroneous,      \* objects whose registration has its error set
  results,        \* results completed in idle, not yet dispatched
  connected,      \* objects with a connection
  scheduled,      \* objects whose timeout_id is not 0
  sources,        \* live timeout sources of each object in the main loop
  started,        \* objects with DFSM_SIMULATION_STATUS_STARTED
  moved,          \* objects whose machine may have left its initial state
  unfuzzed_transition_count,
  last            \* history: how the last handler answered

registration == <<registered, exported, names, outstanding, pending, erroneous, results>>
simulation == <<connected, scheduled, sources, started>>
vars == <<registration, simulation, moved, unfuzzed_transition_count, last>>

NoCall == [kind |-> "none", queue |-> <<>>, sent |-> 0, answers |-> 0, failed |-> FALSE]

Init ==
  /\ registered = {} /\ exported = {} /\ pending = {} /\ erroneous = {}
  /\ names = [o \in Objects |-> [n \in BusNames[o] |-> "none"]]
  /\ outstanding = [o \in Objects |-> 0]
  /\ results = [o \in Objects |-> <<>>]
  /\ connected = {} /\ scheduled = {} /\ started = {}
  /\ sources = [o \in Objects |-> 0]
  /\ moved = {}
  /\ unfuzzed_transition_count = 0
  /\ last = NoCall

----------------------------------------------------------------------------
(* Registration. *)

Complete(o, result) == results' = [results EXCEPT ![o] = Append(@, result)]

\* start_simulation; Coupled shows that its assertions hold.
Start(o) ==
  /\ connected' = connected \cup {o}
  /\ scheduled' = scheduled \cup {o}
  /\ sources' = [sources EXCEPT ![o] = @ + 1]
  /\ started' = started \cup {o}
  /\ unfuzzed_transition_count' = 0

\* register_on_bus_finish
Finish(o, error) ==
  /\ pending' = pending \ {o}
  /\ Complete(o, IF error THEN "error" ELSE "ok")
  /\ IF error THEN UNCHANGED <<simulation, unfuzzed_transition_count>> ELSE Start(o)

RegisterAgain(o) ==
  /\ o \in registered
  /\ Complete(o, "ok")
  /\ UNCHANGED <<registered, exported, names, outstanding, pending, erroneous,
                 simulation, unfuzzed_transition_count>>

\* GDBus refuses an interface at a path that already exports it, and the
\* interfaces registered before it are taken back.
RegisterClash(o) ==
  /\ o \notin registered
  /\ \E q \in exported : Exports[q] \cap Exports[o] # {}
  /\ Complete(o, "error")
  /\ UNCHANGED <<registered, exported, names, outstanding, pending, erroneous,
                 simulation, unfuzzed_transition_count>>

\* Mutant: the callback held is not released if names were requested.
RequestNamesHeld(o) ==
  /\ names' = [names EXCEPT ![o] = [n \in BusNames[o] |-> "requested"]]
  /\ outstanding' = [outstanding EXCEPT ![o] =
                       IF BusNames[o] = {} THEN 0 ELSE Cardinality(BusNames[o]) + 1]

\* One callback is held while the names are requested and then released.
RequestNames(o) ==
  /\ names' = [names EXCEPT ![o] = [n \in BusNames[o] |-> "requested"]]
  /\ outstanding' = [outstanding EXCEPT ![o] = Cardinality(BusNames[o])]

RegisterObject(o) ==
  /\ o \notin registered
  /\ \A q \in exported : Exports[q] \cap Exports[o] = {}
  /\ registered' = registered \cup {o}
  /\ exported' = exported \cup {o}
  /\ erroneous' = erroneous \ {o}
  /\ RequestNames(o)
  /\ IF BusNames[o] = {}
       THEN Finish(o, FALSE)
       ELSE /\ pending' = pending \cup {o}
            /\ UNCHANGED <<results, simulation, unfuzzed_transition_count>>

\* dfsm_object_register_on_bus
RegisterOnBus(o) ==
  /\ Len(results[o]) < MaxResults
  /\ RegisterAgain(o) \/ RegisterClash(o) \/ RegisterObject(o)
  /\ last' = NoCall
  /\ UNCHANGED moved

\* The end of name_acquired_cb and name_lost_cb: is this the last callback?
NameAnswered(o, error) ==
  IF o \notin pending
    THEN UNCHANGED <<outstanding, pending, results, simulation, unfuzzed_transition_count>>
    ELSE /\ outstanding' = [outstanding EXCEPT ![o] = @ - 1]
         /\ IF outstanding[o] > 1
              THEN UNCHANGED <<pending, results, simulation, unfuzzed_transition_count>>
              ELSE Finish(o, error)

NameAcquired(o, n) ==
  /\ o \in registered
  /\ names[o][n] \in {"requested", "lost"}
  /\ names' = [names EXCEPT ![o][n] = "acquired"]
  /\ NameAnswered(o, o \in erroneous)
  /\ last' = NoCall
  /\ UNCHANGED <<registered, exported, erroneous, moved>>

\* Mutant: the loss of a name is not taken for an error.
NameLostSilently(o, n) ==
  /\ o \in registered
  /\ names[o][n] \in {"requested", "acquired"}
  /\ names' = [names EXCEPT ![o][n] = "lost"]
  /\ NameAnswered(o, o \in erroneous)
  /\ last' = NoCall
  /\ UNCHANGED <<registered, exported, erroneous, moved>>

NameLost(o, n) ==
  /\ o \in registered
  /\ names[o][n] \in {"requested", "acquired"}
  /\ names' = [names EXCEPT ![o][n] = "lost"]
  /\ erroneous' = erroneous \cup {o}
  /\ NameAnswered(o, TRUE)
  /\ last' = NoCall
  /\ UNCHANGED <<registered, exported, moved>>

\* The main loop calls the callback of a registration.
DispatchResult(o) ==
  /\ results[o] # <<>>
  /\ results' = [results EXCEPT ![o] = Tail(@)]
  /\ UNCHANGED <<registered, exported, names, outstanding, pending, erroneous,
                 simulation, moved, unfuzzed_transition_count, last>>

\* The names are given up, so GDBus calls none of their callbacks any more.
\* The interfaces are unregistered from the object's connection, which is
\* NULL until the simulation has started: then they stay exported.
UnregisterOnBus(o) ==
  /\ o \in registered
  /\ registered' = registered \ {o}
  /\ pending' = pending \ {o}
  /\ names' = [names EXCEPT ![o] = [n \in BusNames[o] |-> "none"]]
  /\ exported' = IF o \in connected THEN exported \ {o} ELSE exported
  /\ connected' = connected \ {o}
  /\ sources' = [sources EXCEPT ![o] = IF o \in scheduled THEN @ - 1 ELSE @]
  /\ scheduled' = scheduled \ {o}
  /\ started' = started \ {o}
  /\ last' = NoCall
  /\ UNCHANGED <<outstanding, erroneous, results, moved, unfuzzed_transition_count>>

----------------------------------------------------------------------------
(* The running simulation. *)

\* Mutant: the timeout is forgotten, not removed.
RescheduleForgetting(o) ==
  /\ sources' = [sources EXCEPT ![o] = @ + 1]
  /\ scheduled' = scheduled \cup {o}

Reschedule(o) ==
  /\ sources' = [sources EXCEPT ![o] = IF o \in scheduled THEN @ ELSE @ + 1]
  /\ scheduled' = scheduled \cup {o}

\* dfsm_object_reset leaves the machine as it is.
Reset(o) ==
  /\ IF o \in started THEN Reschedule(o) ELSE UNCHANGED <<scheduled, sources>>
  /\ unfuzzed_transition_count' = 0
  /\ last' = NoCall
  /\ UNCHANGED <<registration, connected, started, moved>>

\* Mutant: the limit is counted past by one.
CountPastLimit ==
  unfuzzed_transition_count' =
    IF unfuzzed_transition_count <= unfuzzed_transition_limit
      THEN unfuzzed_transition_count + 1 ELSE unfuzzed_transition_count

CountTransition ==
  unfuzzed_transition_count' =
    IF unfuzzed_transition_count < unfuzzed_transition_limit
      THEN unfuzzed_transition_count + 1 ELSE unfuzzed_transition_count

\* Mutant: a runtime error is logged and the call left unanswered.
OutputSilently(kind, queue) ==
  \E n \in {k \in 0..Len(queue) : k < Len(queue) => queue[k + 1] = "emit"} :
    last' = [kind |-> kind, queue |-> queue, sent |-> n, failed |-> n < Len(queue),
             answers |-> Cardinality(AnswersIn(SubSeq(queue, 1, n)))]

\* dfsm_dbus_output_sequence_output sends the entries in order, up to a
\* signal that cannot be sent; a method call is then answered by an error.
Output(kind, queue) ==
  \E n \in {k \in 0..Len(queue) : k < Len(queue) => queue[k + 1] = "emit"} :
    last' = [kind |-> kind, queue |-> queue, sent |-> n, failed |-> n < Len(queue),
             answers |-> Cardinality(AnswersIn(SubSeq(queue, 1, n)))
                           + IF kind = "method" /\ n < Len(queue) THEN 1 ELSE 0]

\* Calls are dispatched to every object exported, started or not.
MethodCall(o) ==
  /\ o \in exported
  /\ \E queue \in MethodOutputs : Output("method", queue)
  /\ CountTransition
  /\ moved' = moved \cup {o}
  /\ UNCHANGED <<registration, simulation>>

\* A property that changed is announced after the machine's own output.
SetProperty(o) ==
  /\ o \in exported
  /\ \E queue \in OtherOutputs, changed \in BOOLEAN :
       Output("property", IF changed THEN Append(queue, "emit") ELSE queue)
  /\ CountTransition
  /\ moved' = moved \cup {o}
  /\ UNCHANGED <<registration, simulation>>

\* arbitrary_transition_timeout_cb: the source that fired is gone.
ArbitraryTransition(o) ==
  /\ sources[o] > 0
  /\ \E queue \in OtherOutputs : Output("arbitrary", queue)
  /\ CountTransition
  /\ moved' = moved \cup {o}
  /\ scheduled' = scheduled \cup {o}
  /\ UNCHANGED <<registration, connected, sources, started>>

Next ==
  \E o \in Objects :
    \/ RegisterOnBus(o) \/ DispatchResult(o) \/ UnregisterOnBus(o)
    \/ \E n \in BusNames[o] : NameAcquired(o, n) \/ NameLost(o, n)
    \/ Reset(o) \/ MethodCall(o) \/ SetProperty(o) \/ ArbitraryTransition(o)

Spec == Init /\ [][Next]_vars

\* The bus answers every request for a name, one way or the other.
NameReply(o, n) == names[o][n] = "requested" /\ (NameAcquired(o, n) \/ NameLost(o, n))

FairSpec == Spec /\ \A o \in Objects : \A n \in BusNames[o] : WF_vars(NameReply(o, n))
----------------------------------------------------------------------------
(* Properties. *)

NameStates == {"none", "requested", "acquired", "lost"}

\* Every variable has its type.
TypeOK ==
  /\ registered \subseteq Objects /\ exported \subseteq Objects
  /\ pending \subseteq Objects /\ erroneous \subseteq Objects
  /\ DOMAIN names = Objects
  /\ \A o \in Objects : names[o] \in [BusNames[o] -> NameStates]
  /\ outstanding \in [Objects -> Nat]
  /\ results \in [Objects -> Seq({"ok", "error"})]
  /\ connected \subseteq Objects /\ scheduled \subseteq Objects
  /\ started \subseteq Objects /\ moved \subseteq Objects
  /\ sources \in [Objects -> Nat]
  /\ unfuzzed_transition_count \in 0..unfuzzed_transition_limit
  /\ last.kind \in {"none", "method", "property", "arbitrary"}
  /\ last.queue \in Seq(Entries) /\ last.sent \in 0..Len(last.queue)
  /\ last.answers \in Nat /\ last.failed \in BOOLEAN

\* An object runs if and only if it has a connection and exactly one timer:
\* no reset, failed registration or unregistration leaves a second timer, or
\* one that ticks without a connection, and the assertions of
\* start_simulation and schedule_arbitrary_transition hold.
Coupled ==
  \A o \in Objects :
    /\ o \in started => o \in registered \ pending
    /\ o \in connected <=> o \in started
    /\ o \in scheduled <=> o \in started
    /\ sources[o] = IF o \in started THEN 1 ELSE 0

\* The last call's handler has answered it when it returns, whichever
\* signal of its output could not be sent.
Answered == last.kind = "method" => last.answers >= 1

\* A registration does not wait for ever for names the bus has answered for.
RegistrationCompletes == \A o \in Objects : o \in pending ~> o \notin pending

Phase(o) ==
  IF o \notin registered THEN "unregistered"
  ELSE IF o \in pending \ erroneous THEN "registering"
  ELSE IF o \in pending THEN "failing"
  ELSE IF o \in started THEN "started" ELSE "failed"

Abstract == INSTANCE Lifecycle WITH phase <- [o \in Objects |-> Phase(o)]

\* Counting callbacks starts the simulation when all of the object's names
\* are owned and never after one was refused, with names won and lost again
\* in any order.
ImplementsLifecycle == Abstract!Spec

----------------------------------------------------------------------------
(* What the comments and the manual say and the code does not do. *)

\* dfsm_object_reset: resets the simulation to its initial state, as if it
\* had just been created.
ResetIsInitial == [][\A o \in Objects : Reset(o) => o \notin moved']_vars
=============================================================================
