------------------------- MODULE ReachabilityProofs -------------------------
(***************************************************************************)
(* Proof that the reachability calculation is exact, for every number of   *)
(* states and every set of transitions.  The induction is over the loop:   *)
(* the visited states are marked no lower than the unvisited ones, their   *)
(* transitions are relaxed, and no mark is higher than a path justifies.   *)
(***************************************************************************)
EXTENDS Reachability, TLAPS

----------------------------------------------------------------------------
(* The inductive invariant. *)

Visited == States \ unvisited_states

Worth == {POSSIBLY_REACHABLE, REACHABLE}

\* No mark promises a path that is not there.
SoundInv ==
  \A s \in States, k \in Worth :
    reachability[s] >= k => s \in ReachableBy(transitions, States, StartingState, k)

\* The transitions of the visited states are relaxed.
RelaxedInv ==
  \A s \in Visited, t \in States :
    reachability[t] >= Lesser(reachability[s], Entry(transitions, s, t))

\* The most reachable states are visited first.
OrderedInv == \A s \in Visited, u \in unvisited_states : reachability[s] >= reachability[u]

\* What is left when the loop ends is unreachable.
DoneInv == pc = "done" => \A u \in States : reachability[u] # UNREACHABLE => u \in Visited

\* A break leaves one unreachable state out of the queue; all of the states
\* out of the queue but that one have been relaxed.
Inv ==
  /\ TypeOK
  /\ reachability[StartingState] = REACHABLE
  /\ SoundInv
  /\ RelaxedInv
  /\ OrderedInv
  /\ DoneInv

----------------------------------------------------------------------------
(* Lemmas about the graph. *)

LEMMA StartInStates == StartingState \in States
BY NumStatesAssumption DEF StartingState, States

LEMMA EntryType ==
  \A edges, f, t : Entry(edges, f, t) \in Reachabilities
BY DEF Entry, Reachabilities

\* The starting state is reachable by any measure.
LEMMA StartReachable ==
  ASSUME NEW edges, NEW states, NEW start \in states, NEW k
  PROVE  start \in ReachableBy(edges, states, start, k)
BY DEF ReachableBy

\* A path can be made longer by one edge that is worth as much.
LEMMA ReachableStep ==
  ASSUME NEW edges, NEW states, NEW start, NEW k, NEW t \in states,
         NEW f \in ReachableBy(edges, states, start, k), Entry(edges, f, t) >= k
  PROVE  t \in ReachableBy(edges, states, start, k)
BY DEF ReachableBy, ClosedUnder

\* A closed set with the starting state holds every reachable state.
LEMMA ReachableLeast ==
  ASSUME NEW edges, NEW states, NEW start, NEW k, NEW S \in SUBSET states,
         start \in S, ClosedUnder(edges, states, S, k)
  PROVE  ReachableBy(edges, states, start, k) \subseteq S
BY DEF ReachableBy

\* Reachabilities are the numbers 0, 1 and 2, and closed under relaxation.
LEMMA Relaxation ==
  ASSUME NEW a \in Reachabilities, NEW b \in Reachabilities, NEW c \in Reachabilities
  PROVE  /\ Greater(a, Lesser(b, c)) \in Reachabilities
         /\ Greater(a, Lesser(b, c)) >= a
         /\ Greater(a, Lesser(b, c)) >= Lesser(b, c)
         /\ a >= b => Greater(a, Lesser(b, c)) = a
         /\ b >= a => b >= Greater(a, Lesser(b, c))
         /\ \A k \in Worth : Greater(a, Lesser(b, c)) >= k => a >= k \/ (b >= k /\ c >= k)
         /\ \A k \in Worth : b >= k /\ c >= k => Lesser(b, c) >= k
BY DEF Reachabilities, Worth, Greater, Lesser, UNREACHABLE, POSSIBLY_REACHABLE, REACHABLE

----------------------------------------------------------------------------
(* The invariant holds. *)

LEMMA InvInit == Init => Inv
<1> SUFFICES ASSUME Init PROVE Inv
  OBVIOUS
<1>1. TypeOK
  BY DEF Init, TypeOK, Reachabilities
<1>2. reachability[StartingState] = REACHABLE
  BY StartInStates DEF Init
<1>3. SoundInv
  <2> SUFFICES ASSUME NEW s \in States, NEW k \in Worth, reachability[s] >= k
               PROVE  s \in ReachableBy(transitions, States, StartingState, k)
    BY DEF SoundInv
  <2>1. s = StartingState
    BY DEF Init, Worth, POSSIBLY_REACHABLE, REACHABLE, UNREACHABLE
  <2> QED
    BY <2>1, StartReachable, StartInStates
<1>4. Visited = {}
  BY DEF Init, Visited
<1> QED
  BY <1>1, <1>2, <1>3, <1>4 DEF Inv, RelaxedInv, OrderedInv, DoneInv, Init

\* Popping and relaxing the most reachable state.
LEMMA InvVisit ==
  ASSUME Inv, NEW s \in unvisited_states, MostReachable(s), Visit(s), pc = "loop"
  PROVE  Inv'
<1> DEFINE E(t) == Entry(transitions, s, t)
<1>1. /\ s \in States /\ reachability[s] \in Reachabilities
      /\ \A t \in States : reachability[t] \in Reachabilities
      /\ \A t : E(t) \in Reachabilities
  BY EntryType DEF Inv, TypeOK
<1>2. /\ transitions' = transitions /\ pc' = pc
      /\ unvisited_states' = unvisited_states \ {s}
      /\ reachability' = [t \in States |-> Greater(reachability[t], Lesser(reachability[s], E(t)))]
  BY DEF Visit, Relaxed
<1>3. Visited' = Visited \cup {s}
  BY <1>1, <1>2 DEF Visited
<1>4. \A u \in unvisited_states : reachability[s] >= reachability[u]
  <2> SUFFICES ASSUME NEW u \in unvisited_states PROVE reachability[s] >= reachability[u]
    OBVIOUS
  <2>1. u \in States
    BY DEF Inv, TypeOK
  <2>2. reachability[u] < reachability[s] \/ reachability[u] = reachability[s]
    BY DEF MostReachable
  <2> QED
    BY <1>1, <2>1, <2>2 DEF Reachabilities, UNREACHABLE, POSSIBLY_REACHABLE, REACHABLE
<1>5. \A t \in States : /\ reachability'[t] \in Reachabilities
                        /\ reachability'[t] >= reachability[t]
                        /\ reachability'[t] >= Lesser(reachability[s], E(t))
  BY <1>1, <1>2, Relaxation
<1>6. \A v \in Visited \cup {s} : v \in States /\ reachability'[v] = reachability[v]
  <2> SUFFICES ASSUME NEW v \in Visited \cup {s}
               PROVE  v \in States /\ reachability'[v] = reachability[v]
    OBVIOUS
  <2>1. v \in States
    BY <1>1 DEF Visited
  <2>2. reachability[v] >= reachability[s]
    BY <1>1, <2>1 DEF Inv, OrderedInv, Reachabilities, UNREACHABLE, POSSIBLY_REACHABLE, REACHABLE
  <2> QED
    BY <1>1, <1>2, <2>1, <2>2, Relaxation
<1>7. TypeOK'
  BY <1>1, <1>2, <1>5 DEF Inv, TypeOK
<1>8. reachability'[StartingState] = REACHABLE
  BY <1>5, StartInStates DEF Inv, Reachabilities, UNREACHABLE, POSSIBLY_REACHABLE, REACHABLE
<1>9. SoundInv'
  <2> SUFFICES ASSUME NEW t \in States, NEW k \in Worth, reachability'[t] >= k
               PROVE  t \in ReachableBy(transitions, States, StartingState, k)
    BY <1>2 DEF SoundInv
  <2>1. reachability[t] >= k \/ (reachability[s] >= k /\ E(t) >= k)
    BY <1>1, <1>2, Relaxation
  <2>2. CASE reachability[t] >= k
    BY <2>2 DEF Inv, SoundInv
  <2>3. CASE reachability[s] >= k /\ E(t) >= k
    <3>1. s \in ReachableBy(transitions, States, StartingState, k)
      BY <1>1, <2>3 DEF Inv, SoundInv
    <3> QED
      BY <2>3, <3>1, ReachableStep
  <2> QED
    BY <2>1, <2>2, <2>3
<1>10. RelaxedInv'
  <2> SUFFICES ASSUME NEW v \in Visited \cup {s}, NEW t \in States
               PROVE  reachability'[t] >= Lesser(reachability[v], Entry(transitions, v, t))
    BY <1>2, <1>3, <1>6 DEF RelaxedInv
  <2>1. CASE v = s
    BY <1>5, <2>1
  <2>2. CASE v \in Visited
    <3>1. reachability[t] >= Lesser(reachability[v], Entry(transitions, v, t))
      BY <2>2 DEF Inv, RelaxedInv
    <3>2. Lesser(reachability[v], Entry(transitions, v, t)) \in Reachabilities
      BY <1>1, <1>6, EntryType DEF Lesser
    <3> QED
      BY <1>1, <1>5, <3>1, <3>2 DEF Reachabilities, UNREACHABLE, POSSIBLY_REACHABLE, REACHABLE
  <2> QED
    BY <2>1, <2>2
<1>11. OrderedInv'
  <2> SUFFICES ASSUME NEW v \in Visited \cup {s}, NEW u \in unvisited_states \ {s}
               PROVE  reachability[v] >= reachability'[u]
    BY <1>2, <1>3, <1>6 DEF OrderedInv
  <2>1. u \in States /\ v \in States
    BY <1>6 DEF Inv, TypeOK
  <2>2. reachability[s] >= reachability'[u]
    BY <1>1, <1>2, <1>4, <2>1, Relaxation
  <2>3. reachability[v] >= reachability[s]
    BY <1>1 DEF Inv, OrderedInv, Reachabilities, UNREACHABLE, POSSIBLY_REACHABLE, REACHABLE
  <2> QED
    BY <1>1, <1>5, <2>1, <2>2, <2>3 DEF Reachabilities, UNREACHABLE, POSSIBLY_REACHABLE, REACHABLE
<1>12. DoneInv'
  BY <1>2 DEF DoneInv
<1> QED
  BY <1>7, <1>8, <1>9, <1>10, <1>11, <1>12 DEF Inv

\* Breaking off at an unreachable state.
LEMMA InvBreak ==
  ASSUME Inv, NEW s \in unvisited_states, MostReachable(s), Break(s)
  PROVE  Inv'
<1>1. /\ s \in States /\ reachability[s] = UNREACHABLE
      /\ transitions' = transitions /\ reachability' = reachability /\ pc' = "done"
      /\ unvisited_states' = unvisited_states \ {s}
  BY DEF Break, Inv, TypeOK
<1>2. \A t \in States : reachability[t] \in Reachabilities
  BY DEF Inv, TypeOK
<1>3. \A u \in unvisited_states : reachability[u] = UNREACHABLE
  <2> SUFFICES ASSUME NEW u \in unvisited_states PROVE reachability[u] = UNREACHABLE
    OBVIOUS
  <2>1. u \in States
    BY DEF Inv, TypeOK
  <2>2. reachability[u] < reachability[s] \/ reachability[u] = reachability[s]
    BY DEF MostReachable
  <2> QED
    BY <1>1, <1>2, <2>1, <2>2 DEF Reachabilities, UNREACHABLE, POSSIBLY_REACHABLE, REACHABLE
<1>4. Visited' = Visited \cup {s}
  BY <1>1 DEF Visited
<1>5. TypeOK'
  BY <1>1 DEF Inv, TypeOK
<1>6. SoundInv' /\ reachability'[StartingState] = REACHABLE
  BY <1>1 DEF Inv, SoundInv
<1>7. RelaxedInv'
  <2> SUFFICES ASSUME NEW v \in Visited \cup {s}, NEW t \in States
               PROVE  reachability[t] >= Lesser(reachability[v], Entry(transitions, v, t))
    BY <1>1, <1>4 DEF RelaxedInv
  <2>1. CASE v \in Visited
    BY <2>1 DEF Inv, RelaxedInv
  <2>2. CASE v = s
    <3>1. Entry(transitions, s, t) \in Reachabilities
      BY EntryType
    <3>2. Lesser(UNREACHABLE, Entry(transitions, s, t)) = UNREACHABLE
      BY <3>1 DEF Lesser, Reachabilities, UNREACHABLE, POSSIBLY_REACHABLE, REACHABLE
    <3> QED
      BY <1>1, <1>2, <2>2, <3>2 DEF Reachabilities, UNREACHABLE, POSSIBLY_REACHABLE, REACHABLE
  <2> QED
    BY <2>1, <2>2
<1>8. OrderedInv'
  <2> SUFFICES ASSUME NEW v \in Visited \cup {s}, NEW u \in unvisited_states
               PROVE  reachability[v] >= reachability[u]
    BY <1>1, <1>4 DEF OrderedInv
  <2>1. v \in States
    BY <1>1 DEF Visited
  <2> QED
    BY <1>2, <1>3, <2>1 DEF Reachabilities, UNREACHABLE, POSSIBLY_REACHABLE, REACHABLE
<1>9. DoneInv'
  BY <1>1, <1>3, <1>4 DEF DoneInv, Visited
<1> QED
  BY <1>5, <1>6, <1>7, <1>8, <1>9 DEF Inv

LEMMA InvNext == Inv /\ [Next]_vars => Inv'
<1> SUFFICES ASSUME Inv, [Next]_vars PROVE Inv'
  OBVIOUS
<1>1. CASE Pop
  BY <1>1, InvVisit, InvBreak DEF Pop
<1>2. CASE Finish \/ UNCHANGED vars
  <2>1. /\ UNCHANGED <<transitions, unvisited_states, reachability>>
        /\ pc' \in {"loop", "done"}
        /\ pc' = "done" /\ pc # "done" => unvisited_states = {}
    BY <1>2 DEF Finish, vars, Inv, TypeOK
  <2>2. TypeOK' /\ SoundInv' /\ RelaxedInv' /\ OrderedInv' /\ reachability'[StartingState] = REACHABLE
    BY <2>1 DEF Inv, TypeOK, SoundInv, RelaxedInv, OrderedInv, Visited
  <2>3. DoneInv'
    BY <2>1 DEF Inv, DoneInv, Visited
  <2> QED
    BY <2>2, <2>3 DEF Inv
<1> QED
  BY <1>1, <1>2 DEF Next

LEMMA InvHolds == Spec => []Inv
<1> QED
  BY InvInit, InvNext, PTL DEF Spec

----------------------------------------------------------------------------
(* What the invariant says of the result. *)

\* Type correctness for every number of states.
THEOREM TypeCorrect == Spec => []TypeOK
<1>1. Inv => TypeOK
  BY DEF Inv
<1> QED
  BY <1>1, InvHolds, PTL

\* When the calculation ends, a mark is worth k if and only if a path worth k
\* leads to the state.
THEOREM ExactHolds == Spec => []Exact
<1>1. Inv => Exact
  <2> SUFFICES ASSUME Inv, pc = "done", NEW s \in States, NEW k \in Worth
               PROVE  reachability[s] >= k <=> s \in ReachableBy(transitions, States, StartingState, k)
    BY DEF Exact, Worth
  <2>1. reachability[s] >= k => s \in ReachableBy(transitions, States, StartingState, k)
    BY DEF Inv, SoundInv
  <2> DEFINE S == {t \in States : reachability[t] >= k}
  <2>2. StartingState \in S
    BY StartInStates DEF Inv, Worth, POSSIBLY_REACHABLE, REACHABLE
  <2>3. ClosedUnder(transitions, States, S, k)
    <3> SUFFICES ASSUME NEW f \in S, NEW t \in States, Entry(transitions, f, t) >= k
                 PROVE  reachability[t] >= k
      BY DEF ClosedUnder
    <3>1. /\ f \in States /\ reachability[f] >= k /\ reachability[f] \in Reachabilities
          /\ reachability[t] \in Reachabilities
          /\ Entry(transitions, f, t) \in Reachabilities
      BY EntryType DEF Inv, TypeOK
    <3>2. f \in Visited
      BY <3>1 DEF Inv, DoneInv, Worth, UNREACHABLE, POSSIBLY_REACHABLE, REACHABLE
    <3>3. reachability[t] >= Lesser(reachability[f], Entry(transitions, f, t))
      BY <3>2 DEF Inv, RelaxedInv
    <3> QED
      BY <3>1, <3>3 DEF Lesser, Reachabilities, Worth, UNREACHABLE, POSSIBLY_REACHABLE, REACHABLE
  <2>4. ReachableBy(transitions, States, StartingState, k) \subseteq S
    BY <2>2, <2>3, ReachableLeast
  <2> QED
    BY <2>1, <2>4
<1> QED
  BY <1>1, InvHolds, PTL

\* A state that has been popped keeps its mark.
THEOREM VisitedIsFinalHolds == Spec => VisitedIsFinal
<1> DEFINE Final == \A s \in States \ unvisited_states : reachability'[s] = reachability[s]
<1>1. Inv /\ [Next]_vars => [Final]_vars
  <2> SUFFICES ASSUME Inv, Next, NEW v \in Visited
               PROVE  reachability'[v] = reachability[v]
    BY DEF Visited
  <2>1. CASE Finish
    BY <2>1 DEF Finish
  <2>2. CASE Pop
    <3>1. PICK s \in unvisited_states : Visit(s) \/ Break(s)
      BY <2>2 DEF Pop
    <3>2. CASE Visit(s)
      <4>1. /\ s \in States /\ v \in States /\ reachability[v] >= reachability[s]
            /\ reachability[v] \in Reachabilities /\ reachability[s] \in Reachabilities
        BY DEF Inv, TypeOK, OrderedInv, Visited
      <4>2. Relaxed(s, v) = reachability[v]
        BY <4>1, EntryType, Relaxation DEF Relaxed
      <4> QED
        BY <3>2, <4>1, <4>2 DEF Visit
    <3>3. CASE Break(s)
      BY <3>3 DEF Break
    <3> QED
      BY <3>1, <3>2, <3>3
  <2> QED
    BY <2>1, <2>2 DEF Next
<1> QED
  BY <1>1, InvHolds, PTL DEF Spec, VisitedIsFinal
=============================================================================
