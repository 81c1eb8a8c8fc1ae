---------------------------- MODULE Reachability ----------------------------
(***************************************************************************)
(* dfsm_machine_calculate_state_reachability (dfsm/dfsm-machine.c), with   *)
(* which bendy-bus-lint tells the unreachable states of a simulation: the  *)
(* most reachable of the unvisited states is popped off the queue and its  *)
(* transitions are relaxed, until only unreachable states are left.        *)
(***************************************************************************)
EXTENDS StateGraph

CONSTANTS
  NumStates,     \* length of the array of state names
  Descriptions   \* the sets of transitions the machine may have

States == 0..(NumStates - 1)
StartingState == 0

ASSUME NumStatesAssumption == NumStates \in Nat \ {0}
ASSUME DescriptionsAssumption == \A edges \in Descriptions : edges \subseteq Edge(States)

VARIABLES
  transitions,        \* the transitions of the machine
  unvisited_states,   \* the queue, its higher numbers first
  reachability,       \* the result array
  pc                  \* "loop" or "done"

vars == <<transitions, unvisited_states, reachability, pc>>

Init ==
  /\ transitions \in Descriptions
  /\ unvisited_states = States
  /\ reachability = [s \in States |-> IF s = StartingState THEN REACHABLE ELSE UNREACHABLE]
  /\ pc = "loop"

\* Mutant: the head of the queue is popped, whatever its reachability.
HeadOfQueue(s) == \A u \in unvisited_states : u <= s

\* pop_most_reachable_state_from_queue: the first of the most reachable.
MostReachable(s) ==
  \A u \in unvisited_states :
    reachability[u] < reachability[s] \/ (reachability[u] = reachability[s] /\ u <= s)

Relaxed(s, neighbour) ==
  Greater(reachability[neighbour],
          Lesser(reachability[s], Entry(transitions, s, neighbour)))

\* Mutant: the state is left in the queue.
VisitKeeping(s) ==
  /\ reachability[s] # UNREACHABLE
  /\ reachability' = [neighbour \in States |-> Relaxed(s, neighbour)]
  /\ UNCHANGED <<transitions, unvisited_states, pc>>

Visit(s) ==
  /\ reachability[s] # UNREACHABLE
  /\ unvisited_states' = unvisited_states \ {s}
  /\ reachability' = [neighbour \in States |-> Relaxed(s, neighbour)]
  /\ UNCHANGED <<transitions, pc>>

\* The rest of the states are unreachable.
Break(s) ==
  /\ reachability[s] = UNREACHABLE
  /\ unvisited_states' = unvisited_states \ {s}
  /\ pc' = "done"
  /\ UNCHANGED <<transitions, reachability>>

Pop ==
  /\ pc = "loop"
  /\ \E s \in unvisited_states :
       /\ MostReachable(s)
       /\ Visit(s) \/ Break(s)

Finish ==
  /\ pc = "loop"
  /\ unvisited_states = {}
  /\ pc' = "done"
  /\ UNCHANGED <<transitions, unvisited_states, reachability>>

Next == Pop \/ Finish

Spec == Init /\ [][Next]_vars
FairSpec == Spec /\ WF_vars(Next)
----------------------------------------------------------------------------
(* Properties. *)

\* Every entry of the result array is a reachability.
TypeOK ==
  /\ transitions \in Descriptions
  /\ unvisited_states \subseteq States
  /\ reachability \in [States -> Reachabilities]
  /\ pc \in {"loop", "done"}

\* When the calculation ends, a state is marked with the best reachability
\* of the paths that lead to it: REACHABLE if one goes over transitions
\* without preconditions only, UNREACHABLE if there is none.
Exact ==
  pc = "done" =>
    \A s \in States, k \in {POSSIBLY_REACHABLE, REACHABLE} :
      reachability[s] >= k <=> s \in ReachableBy(transitions, States, StartingState, k)

\* Once a state has been popped its mark is final: each state need be popped
\* only once, and the states left when the loop breaks off are unreachable.
VisitedIsFinal ==
  [][\A s \in States \ unvisited_states : reachability'[s] = reachability[s]]_vars

\* The calculation ends.
Terminates == <>(pc = "done")
=============================================================================
