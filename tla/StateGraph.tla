----------------------------- MODULE StateGraph -----------------------------
(***************************************************************************)
(* The graph of a machine's states that the reachability analysis of       *)
(* dfsm/dfsm-machine.c works on, and what "reachable" means in it.  A      *)
(* transition is seen as the pair of states it connects and whether it has *)
(* preconditions; one that throws counts, though it never moves.           *)
(***************************************************************************)
EXTENDS Naturals

UNREACHABLE == 0
POSSIBLY_REACHABLE == 1
REACHABLE == 2
Reachabilities == {UNREACHABLE, POSSIBLY_REACHABLE, REACHABLE}

Edge(states) == [from : states, to : states, guarded : BOOLEAN]

Lesser(a, b) == IF a < b THEN a ELSE b
Greater(a, b) == IF a > b THEN a ELSE b

\* One entry of the transition matrix: parallel transitions coalesced.
Entry(edges, from, to) ==
  LET parallel == {e \in edges : e.from = from /\ e.to = to}
  IN  IF \E e \in parallel : ~ e.guarded THEN REACHABLE
      ELSE IF parallel # {} THEN POSSIBLY_REACHABLE ELSE UNREACHABLE

ClosedUnder(edges, states, S, k) ==
  \A f \in S, t \in states : Entry(edges, f, t) >= k => t \in S

\* The states on some path from start every edge of which is worth k or more.
ReachableBy(edges, states, start, k) ==
  {s \in states :
     \A S \in SUBSET states : start \in S /\ ClosedUnder(edges, states, S, k) => s \in S}
=============================================================================
