------------------------ MODULE MachineReachability ------------------------
(***************************************************************************)
(* The running machine against the reachability analysis: the graph that   *)
(* build_transition_matrix draws from the transition tables covers every   *)
(* way the machine moves.  The analysis assumes that every method is       *)
(* called and every property is set at some point, which is the call's     *)
(* environment in Machine.                                                 *)
(***************************************************************************)
EXTENDS Machine, StateGraph

EdgesOf(trigger) ==
  {[from |-> t.from, to |-> t.to, guarded |-> t.preconditions # <<>>] :
     t \in {transitions[trigger][k] : k \in DOMAIN transitions[trigger]}}

\* Mutant: the arbitrary transitions are left out of the matrix.
EdgesWithoutArbitrary == UNION {EdgesOf(trigger) : trigger \in Trigger \ {OnTimeout}}

Edges == UNION {EdgesOf(trigger) : trigger \in Trigger}

\* A state that the analysis marks unreachable, and bendy-bus-lint reports,
\* is one the machine is never in, whatever calls, ticks and resets come.
NeverUnreachable ==
  machine_state \in ReachableBy(Edges, MachineStates, StartingState, POSSIBLY_REACHABLE)
=============================================================================
