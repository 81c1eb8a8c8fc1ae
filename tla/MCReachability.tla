--------------------------- MODULE MCReachability ---------------------------
(***************************************************************************)
(* Instances of Reachability for TLC: every graph of three states with at  *)
(* most one transition between two states, with or without preconditions,  *)
(* and some of four states, with parallel transitions too.                 *)
(***************************************************************************)
EXTENDS Reachability

Plain(f, t) == [from |-> f, to |-> t, guarded |-> FALSE]
Guarded(f, t) == [from |-> f, to |-> t, guarded |-> TRUE]

\* A graph for each matrix of reachabilities.
Graph(matrix) ==
  {Plain(p[1], p[2]) : p \in {q \in DOMAIN matrix : matrix[q] = REACHABLE}}
    \cup {Guarded(p[1], p[2]) : p \in {q \in DOMAIN matrix : matrix[q] = POSSIBLY_REACHABLE}}

Pairs == {p \in States \X States : p[1] # p[2]}

\* Four states: chains and diamonds where the order of visits matters.
Diamonds ==
  {{a, b, c, d} : a \in {Plain(0, 1), Guarded(0, 1)}, b \in {Guarded(0, 2), Plain(0, 2)},
                  c \in {Plain(1, 2), Plain(2, 3)}, d \in {Plain(2, 1), Guarded(1, 3), Plain(3, 3)}}

MCDescriptions ==
  {Graph(matrix) : matrix \in [{p \in Pairs : p[1] < 3 /\ p[2] < 3} -> Reachabilities]}
    \cup {Graph([p \in Pairs |-> IF p[2] \in next[p[1]] THEN kind ELSE POSSIBLY_REACHABLE]) :
            next \in [States -> {{1}, {2, 3}, {0, 3}}], kind \in {UNREACHABLE, REACHABLE}}
    \cup Diamonds
    \cup {g \cup {Guarded(0, 1), Guarded(2, 3)} : g \in Diamonds}
=============================================================================
