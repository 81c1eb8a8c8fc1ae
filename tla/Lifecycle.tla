----------------------------- MODULE Lifecycle -----------------------------
(***************************************************************************)
(* What registering simulated objects on a bus promises, as the comment of *)
(* dfsm_object_register_on_bus (dfsm/dfsm-object.c) has it: the simulation *)
(* of an object starts once all of its well-known names are owned, and     *)
(* does not start once one was refused.  There is no counting of callbacks *)
(* here: the names themselves say how far the registration is.             *)
(***************************************************************************)
CONSTANTS
  Objects,    \* the simulated objects
  BusNames    \* the well-known names of each

VARIABLES
  phase,   \* how far each object is
  names    \* what the bus last said of each name of each object

Init ==
  /\ phase = [o \in Objects |-> "unregistered"]
  /\ names = [o \in Objects |-> [n \in BusNames[o] |-> "none"]]

Register(o) ==
  /\ phase[o] = "unregistered"
  /\ phase' = [phase EXCEPT ![o] = IF BusNames[o] = {} THEN "started" ELSE "registering"]
  /\ names' = [names EXCEPT ![o] = [n \in BusNames[o] |-> "requested"]]

AllAcquired(o) == \A n \in BusNames[o] : names'[o][n] = "acquired"

Acquire(o, n) ==
  /\ names[o][n] \in {"requested", "lost"}
  /\ names' = [names EXCEPT ![o][n] = "acquired"]
  /\ \/ /\ phase[o] = "registering"
        /\ phase' = [phase EXCEPT ![o] = IF AllAcquired(o) THEN "started" ELSE "registering"]
     \/ /\ phase[o] = "failing"
        /\ \E p \in {"failing", "failed"} : phase' = [phase EXCEPT ![o] = p]
     \/ /\ phase[o] \in {"started", "failed"}
        /\ UNCHANGED phase

\* The first name lost decides the registration, not when it is over.
Lose(o, n) ==
  /\ names[o][n] \in {"requested", "acquired"}
  /\ names' = [names EXCEPT ![o][n] = "lost"]
  /\ \/ /\ phase[o] \in {"registering", "failing"}
        /\ \E p \in {"failing", "failed"} : phase' = [phase EXCEPT ![o] = p]
     \/ /\ phase[o] \in {"started", "failed"}
        /\ UNCHANGED phase

Unregister(o) ==
  /\ phase[o] # "unregistered"
  /\ phase' = [phase EXCEPT ![o] = "unregistered"]
  /\ names' = [names EXCEPT ![o] = [n \in BusNames[o] |-> "none"]]

Next ==
  \E o \in Objects :
    \/ Register(o) \/ Unregister(o)
    \/ \E n \in BusNames[o] : Acquire(o, n) \/ Lose(o, n)

Spec == Init /\ [][Next]_<<phase, names>>
=============================================================================
