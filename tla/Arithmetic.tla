----------------------------- MODULE Arithmetic -----------------------------
(***************************************************************************)
(* The numeric operators of dfsm_ast_expression_binary_evaluate()          *)
(* (dfsm/dfsm-ast-expression-binary.c) on integers.  The code is one macro *)
(* per operator, expanded for seven types; here a type is its greatest     *)
(* value, max, and whether it is wide.  Types narrower than int are        *)
(* promoted, so that C computes on them without overflow; int and wider    *)
(* ones overflow, which ABS() of the least value does.  What a build makes *)
(* of that is any value of the type, so the two operators that use ABS()   *)
(* are sets of results.                                                    *)
(***************************************************************************)
EXTENDS Integers

Least(max) == -max - 1
Abs(n)     == IF n >= 0 THEN n ELSE -n

\* The operators / and % of C: the quotient is truncated towards zero.
Quotient(l, r) ==
    IF (l >= 0) = (r >= 0) THEN Abs(l) \div Abs(r) ELSE -(Abs(l) \div Abs(r))
-----------------------------------------------------------------------------
(* Unsigned types: 0..max.                                                 *)

UnsignedTimes(l, r, max) ==
    IF r = 0 \/ l <= max \div r THEN l * r ELSE max

UnsignedDivide(l, r, max) ==
    IF r # 0 THEN l \div r ELSE IF l = 0 THEN 0 ELSE max

UnsignedModulus(l, r) == IF r # 0 THEN l % r ELSE 0

UnsignedPlus(l, r, max) == IF l <= max - r THEN l + r ELSE max

UnsignedMinus(l, r) == IF l >= r THEN l - r ELSE 0
-----------------------------------------------------------------------------
(* Signed types: Least(max)..max.                                          *)

\* ABS() of either operand overflows.
TimesOverflows(l, r, max, wide)   == wide /\ l = Least(max) /\ r # 0
ModulusOverflows(l, r, max, wide) == wide /\ r # 0 /\ Least(max) \in {l, r}

SignedTimes(l, r, max, wide) ==
    IF TimesOverflows(l, r, max, wide) THEN Least(max)..max
    ELSE IF r = 0 THEN {0}
    ELSE IF Abs(l) <= Abs(Quotient(max, r)) THEN {l * r}
    ELSE IF (l >= 0) = (r >= 0) THEN {max} ELSE {Least(max)}

SignedDivide(l, r, max) ==
    IF r # 0
      THEN IF l = Least(max) /\ r = -1 THEN max ELSE Quotient(l, r)
      ELSE IF l = 0 THEN 0 ELSE IF l > 0 THEN max ELSE Least(max)

SignedModulus(l, r, max, wide) ==
    IF ModulusOverflows(l, r, max, wide) THEN Least(max)..max
    ELSE IF r = 0 THEN {0}
    ELSE IF l >= 0 THEN {Abs(l) % Abs(r)} ELSE {-(Abs(l) % Abs(r))}

SignedPlus(l, r, max) ==
    IF r >= 0 THEN IF l <= max - r THEN l + r ELSE max
              ELSE IF l >= Least(max) - r THEN l + r ELSE Least(max)

SignedMinus(l, r, max) ==
    IF r >= 0 THEN IF l >= Least(max) + r THEN l - r ELSE Least(max)
              ELSE IF l <= max + r THEN l - r ELSE max
-----------------------------------------------------------------------------
(* What the comment above the operators promises.                          *)

Saturated(n, min, max) == IF n < min THEN min ELSE IF n > max THEN max ELSE n

\* q and m are the quotient and the remainder of l by r, the remainder with
\* the sign of the dividend.
IsDivision(q, m, l, r) ==
    /\ l = q * r + m
    /\ Abs(m) < Abs(r)
    /\ m = 0 \/ (m > 0) = (l > 0)
=============================================================================
