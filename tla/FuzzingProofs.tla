--------------------------- MODULE FuzzingProofs ---------------------------
(***************************************************************************)
(* Proofs about Fuzzing, for integers of every width.                      *)
(***************************************************************************)
EXTENDS Fuzzing, FiniteSetTheorems, FunctionTheorems,
        SequenceTheorems, TLAPS

-----------------------------------------------------------------------------
(* Ranges.                                                                 *)

\* The bounds of every type are integers, the small ranges of both kinds and the
\* values of a narrower type fit.
LEMMA Widths ==
    /\ MaxByte \in Nat /\ MaxInt16 \in Nat /\ MaxUInt16 \in Nat
    /\ MaxInt32 \in Nat /\ MaxUInt32 \in Nat /\ MaxUInt64 \in Nat /\ MaxInt64 \in Nat
    /\ 10 <= MaxByte /\ 10 <= MaxInt16 /\ 10 <= MaxUInt16
    /\ 10 <= MaxInt32 /\ 10 <= MaxUInt32
    /\ MaxUInt32 <= MaxInt64 /\ MaxInt64 <= MaxUInt64
    /\ MaxUInt32 + 1 > 0
<1> DEFINE W == MaxUInt32 + 1
<1>1. /\ MaxByte \in Nat /\ MaxInt16 \in Nat /\ MaxInt32 \in Nat
      /\ 10 <= MaxByte /\ MaxByte <= MaxInt16 /\ MaxUInt16 <= MaxInt32
  BY WidthsAssumption
<1>2. MaxUInt16 \in Nat /\ 10 <= MaxUInt16 /\ 10 <= MaxInt32
  BY <1>1, SMT DEF MaxUInt16
<1>3. MaxUInt32 \in Nat /\ 21 <= MaxUInt32
  BY <1>1, <1>2, SMT DEF MaxUInt32
<1>4. W \in Nat /\ W >= 22
  BY <1>3, SMT
<1> HIDE DEF W
<1>5. W * W \in Nat /\ W * W >= 22 * W
  BY <1>4, SMT
<1>6. MaxUInt64 = W * W - 1
  BY DEF MaxUInt64, W
<1>7. MaxUInt64 \in Nat /\ MaxUInt64 >= 22 * W - 1
  BY <1>4, <1>5, <1>6, SMT
<1>8. MaxInt64 = (MaxUInt64 - 1) \div 2
  BY DEF MaxInt64
<1>9. MaxInt64 \in Nat /\ W <= MaxInt64 /\ MaxInt64 <= MaxUInt64
  BY <1>4, <1>7, <1>8, SMT
<1>10. MaxUInt32 < W
  BY <1>3, SMT DEF W
<1> QED BY <1>1, <1>2, <1>3, <1>4, <1>7, <1>9, <1>10, SMT

\* A 64-bit integer put together from two words is one.
LEMMA TwoWords ==
    ASSUME NEW w \in RandomInt, NEW v \in RandomInt
    PROVE  w * (MaxUInt32 + 1) + v \in 0..MaxUInt64
<1> DEFINE W == MaxUInt32 + 1
<1>1. W \in Nat /\ W > 0 /\ w \in Nat /\ v \in Nat /\ w <= W - 1 /\ v <= W - 1
  BY Widths, SMT DEF RandomInt
<1>2. MaxUInt64 = W * W - 1
  BY DEF MaxUInt64
<1> HIDE DEF W
<1>3. w * W <= (W - 1) * W
  BY <1>1, SMT
<1>4. (W - 1) * W = W * W - W
  BY <1>1, SMT
<1>5. w * W \in Nat /\ W * W \in Nat
  BY <1>1, SMT
<1>6. w * W + v \in Nat /\ w * W + v <= W * W - 1
  BY <1>1, <1>3, <1>4, <1>5, SMT
<1>7. w * W + v \in 0..MaxUInt64
  BY <1>2, <1>5, <1>6, SMT
<1> QED BY <1>7 DEF W

\* What the range of each type is.
LEMMA Ranges ==
    /\ RangeOf("byte") = 0..MaxByte
    /\ RangeOf("uint16") = 0..MaxUInt16
    /\ RangeOf("uint32") = 0..MaxUInt32
    /\ RangeOf("uint64") = 0..MaxUInt64
    /\ RangeOf("int16") = (-MaxInt16 - 1)..MaxInt16
    /\ RangeOf("int32") = (-MaxInt32 - 1)..MaxInt32
    /\ RangeOf("int64") = (-MaxInt64 - 1)..MaxInt64
  BY DEF RangeOf, LowerBound, UpperBound, SignedTypes

-----------------------------------------------------------------------------
(* Integers stay in the range of their type.                               *)

\* The evaluation of an integer literal is one draw, then a value of its range.
IntegerInv ==
    /\ literal \in Literals
    /\ literal.type \in IntegerTypes =>
          /\ pc \in {"evaluate", "draw", "returned", "aborted"}
          /\ pc = "draw" => draw.menu = "integer"
          /\ edit = "none"
          /\ pc = "returned" => value \in RangeOf(literal.type)

\* Every case of fuzz_signed_int () and fuzz_unsigned_int () returns a value of the
\* range of the literal's type.
LEMMA FuzzIntegerInRange ==
    ASSUME literal \in Literals, literal.type \in IntegerTypes, FuzzInteger
    PROVE  value' \in RangeOf(literal.type)
<1> DEFINE t == literal.type
<1>0. t \in {"byte", "uint16", "uint32", "uint64", "int16", "int32", "int64"}
  BY DEF IntegerTypes, SignedTypes, UnsignedTypes
<1>1. ASSUME NEW v \in SmallRange PROVE v \in RangeOf(t)
  <2>1. CASE t \in SignedTypes
    <3>1. v \in -5..5
      BY <1>1, <2>1, SMT DEF SmallRange, RandomIntRange
    <3>2. t \in {"int16", "int32", "int64"}
      BY <2>1 DEF SignedTypes
    <3> QED BY <3>1, <3>2, Widths, Ranges, SMT
  <2>2. CASE t \notin SignedTypes
    <3>1. v \in 0..10
      BY <1>1, <2>2, SMT DEF SmallRange, RandomIntRange
    <3>2. t \in {"byte", "uint16", "uint32", "uint64"}
      BY <1>0, <2>2 DEF SignedTypes
    <3> QED BY <3>1, <3>2, Widths, Ranges, SMT
  <2> QED BY <2>1, <2>2
<1>2. Default \in RangeOf(t)
  BY LiteralsAssumption DEF Default
<1>3. LowerBound(t) \in RangeOf(t) /\ UpperBound[t] \in RangeOf(t)
  <2>1. LowerBound(t) <= UpperBound[t] /\ LowerBound(t) \in Int /\ UpperBound[t] \in Int
    BY <1>0, Widths, SMT DEF LowerBound, UpperBound, SignedTypes
  <2> QED BY <2>1, SMT DEF RangeOf
<1>4. ASSUME ReturnLarge PROVE value' \in RangeOf(t)
  <2>1. ASSUME NEW v \in RandomIntRange(LowerBound(t), UpperBound[t]) PROVE v \in RangeOf(t)
    <3>1. LowerBound(t) \in Int /\ UpperBound[t] \in Int
      BY <1>0, Widths, SMT DEF LowerBound, UpperBound, SignedTypes
    <3> QED BY <2>1, <3>1, SMT DEF RandomIntRange, RangeOf
  <2>2. ASSUME t = "uint32", NEW w \in RandomInt PROVE w \in RangeOf(t)
    BY <2>2, Ranges DEF RandomInt
  <2>3. ASSUME t = "int64", NEW w \in RandomInt
        PROVE  w \in RangeOf(t) /\ (-1 - w) % (MaxUInt32 + 1) \in RangeOf(t)
    <3>1. w \in 0..MaxUInt32 /\ (-1 - w) % (MaxUInt32 + 1) \in 0..MaxUInt32
      BY Widths, SMT DEF RandomInt
    <3> QED BY <2>3, <3>1, Widths, Ranges, SMT
  <2>4. ASSUME t = "uint64", NEW w \in RandomInt, NEW v \in RandomInt
        PROVE  w * (MaxUInt32 + 1) + v \in RangeOf(t)
    BY <2>4, TwoWords, Ranges
  <2> QED BY <1>4, <2>1, <2>2, <2>3, <2>4 DEF ReturnLarge, Return
<1> QED BY <1>1, <1>2, <1>3, <1>4 DEF FuzzInteger, Return

LEMMA IntegerInvInit == Init => IntegerInv
  BY DEF Init, IntegerInv

LEMMA IntegerInvStep == IntegerInv /\ [Next]_vars => IntegerInv'
<1> SUFFICES ASSUME IntegerInv, [Next]_vars PROVE IntegerInv'
  OBVIOUS
<1>0. literal' = literal
  BY DEF Next, Step, Unfuzzed, Fuzzed, NextInterval, DrawFails, FuzzInteger, FuzzBoolean,
         FuzzObjectPath, FuzzEmptyString, GenerateNext, StartCaseChange, ChangeCase,
         EndCaseChange, StartLetters, ChooseLetter, ReplaceLetter, AddSeparator,
         WriteLetter, EndLetters, EditOneBlock, SwapBlocks, FinishString, EvaluateAgain,
         vars
<1> SUFFICES ASSUME literal.type \in IntegerTypes
             PROVE  /\ pc' \in {"evaluate", "draw", "returned", "aborted"}
                    /\ pc' = "draw" => draw'.menu = "integer"
                    /\ edit' = "none"
                    /\ pc' = "returned" => value' \in RangeOf(literal.type)
  BY <1>0 DEF IntegerInv
<1> USE DEF IntegerInv
<1>1. literal.type \notin {"string", "path", "boolean"}
  BY DEF IntegerTypes, SignedTypes, UnsignedTypes
<1>2. CASE Unfuzzed
  BY <1>2, LiteralsAssumption DEF Unfuzzed, Return, Default
<1>3. CASE Fuzzed
  <2>1. MenuOf(literal.type) = "integer"
    BY <1>1 DEF MenuOf
  <2> QED BY <1>3, <2>1 DEF Fuzzed, StartDraw
<1>4. CASE NextInterval
  <2>1. draw'.menu = draw.menu
    BY <1>4 DEF NextInterval
  <2> QED BY <1>4, <2>1 DEF NextInterval
<1>5. CASE DrawFails
  BY <1>5 DEF DrawFails
<1>6. CASE FuzzInteger
  <2>1. value' \in RangeOf(literal.type)
    BY <1>6, FuzzIntegerInRange
  <2>2. pc' = "returned" /\ edit' = edit
    BY <1>6 DEF FuzzInteger, ReturnLarge, Return
  <2> QED BY <2>1, <2>2
<1>7. CASE FuzzBoolean \/ FuzzObjectPath \/ StartCaseChange \/ StartLetters \/ EditOneBlock
           \/ SwapBlocks
  BY <1>7 DEF FuzzBoolean, FuzzObjectPath, StartCaseChange, StartLetters, EditOneBlock,
              SwapBlocks, Drawn
<1>8. CASE FuzzEmptyString
  BY <1>1, <1>8 DEF FuzzEmptyString, EmptyString
<1>9. CASE GenerateNext \/ ReplaceLetter
  BY <1>9 DEF GenerateNext, ReplaceLetter
<1>10. CASE ChangeCase \/ EndCaseChange \/ ChooseLetter \/ AddSeparator \/ EndLetters
            \/ FinishString
  BY <1>10 DEF ChangeCase, EndCaseChange, ChooseLetter, AddSeparator, EndLetters, FinishString
<1>11. CASE EvaluateAgain
  BY <1>11 DEF EvaluateAgain
<1>12. CASE UNCHANGED vars
  BY <1>12 DEF vars
<1> QED BY <1>2, <1>3, <1>4, <1>5, <1>6, <1>7, <1>8, <1>9, <1>10, <1>11, <1>12
        DEF Next, Step

\* Whatever the widths of the integers, a fuzzed integer is in the range of its type.
THEOREM IntegersStayInRangeThm == Spec => []IntegersStayInRange
<1>1. IntegerInv => IntegersStayInRange
  BY DEF IntegerInv, IntegersStayInRange
<1> QED BY IntegerInvInit, IntegerInvStep, <1>1, PTL DEF Spec

-----------------------------------------------------------------------------
(* Only the topmost words abort.                                           *)

\* What the probabilities of the cases before the i-th add up to.
Before == [integer   |-> <<0, 6, 12, 14, 20>>,
           boolean   |-> <<0, 12, 20>>,
           string    |-> <<0, 2, 6, 8, 12, 14, 18, 20>>,
           path      |-> <<0, 14, 20>>,
           character |-> <<0, 10, 18, 20>>]

LEMMA MenusAddUp ==
    ASSUME NEW m \in DOMAIN Menu
    PROVE  /\ Len(Menu[m]) \in Nat
           /\ Before[m][1] = 0 /\ Before[m][Len(Menu[m]) + 1] = 20
           /\ \A c \in 1..Len(Menu[m]) :
                 /\ Menu[m][c].p \in Nat /\ Before[m][c] \in Nat
                 /\ Before[m][c + 1] = Before[m][c] + Menu[m][c].p
<1>1. m \in {"integer", "boolean", "string", "path", "character"}
  BY DEF Menu
<1>2. CASE m = "integer"
  <2>1. Len(Menu[m]) = 4 /\ Menu[m][1].p = 6 /\ Menu[m][2].p = 6 /\ Menu[m][3].p = 2
        /\ Menu[m][4].p = 6 /\ Before[m] = <<0, 6, 12, 14, 20>>
    BY <1>2 DEF Menu, Before
  <2>2. 1..Len(Menu[m]) = {1, 2, 3, 4}
    BY <2>1, SMT
  <2> QED BY <2>1, <2>2, SMT
<1>3. CASE m = "boolean"
  <2>1. Len(Menu[m]) = 2 /\ Menu[m][1].p = 12 /\ Menu[m][2].p = 8
        /\ Before[m] = <<0, 12, 20>>
    BY <1>3 DEF Menu, Before
  <2>2. 1..Len(Menu[m]) = {1, 2}
    BY <2>1, SMT
  <2> QED BY <2>1, <2>2, SMT
<1>4. CASE m = "string"
  <2>1. Len(Menu[m]) = 7 /\ Menu[m][1].p = 2 /\ Menu[m][2].p = 4 /\ Menu[m][3].p = 2
        /\ Menu[m][4].p = 4 /\ Menu[m][5].p = 2 /\ Menu[m][6].p = 4 /\ Menu[m][7].p = 2
        /\ Before[m] = <<0, 2, 6, 8, 12, 14, 18, 20>>
    BY <1>4 DEF Menu, Before
  <2>2. 1..Len(Menu[m]) = {1, 2, 3, 4, 5, 6, 7}
    BY <2>1, SMT
  <2> QED BY <2>1, <2>2, SMT
<1>5. CASE m = "path"
  <2>1. Len(Menu[m]) = 2 /\ Menu[m][1].p = 14 /\ Menu[m][2].p = 6
        /\ Before[m] = <<0, 14, 20>>
    BY <1>5 DEF Menu, Before
  <2>2. 1..Len(Menu[m]) = {1, 2}
    BY <2>1, SMT
  <2> QED BY <2>1, <2>2, SMT
<1>6. CASE m = "character"
  <2>1. Len(Menu[m]) = 3 /\ Menu[m][1].p = 10 /\ Menu[m][2].p = 8 /\ Menu[m][3].p = 2
        /\ Before[m] = <<0, 10, 18, 20>>
    BY <1>6 DEF Menu, Before
  <2>2. 1..Len(Menu[m]) = {1, 2, 3}
    BY <2>1, SMT
  <2> QED BY <2>1, <2>2, SMT
<1> QED BY <1>1, <1>2, <1>3, <1>4, <1>5, <1>6

\* Truncation loses less than one from an interval.
LEMMA IntervalBounds ==
    ASSUME NEW p \in Nat
    PROVE  Interval(p) \in Nat /\ 20 * Interval(p) >= p * MaxUInt32 - 19
<1> DEFINE x == p * MaxUInt32
<1>1. x \in Nat
  BY Widths, SMT
<1> HIDE DEF x
<1>2. x \div 20 \in Nat /\ 20 * (x \div 20) >= x - 19
  BY <1>1, SMT
<1> QED BY <1>2 DEF Interval, x

\* The words that no separator's share holds are fewer than the separators.
LEMMA StuckWordsAreTop ==
    ASSUME NEW s, NEW from, NEW to, NEW w \in StuckWords(s, from, to)
    PROVE  w > MaxUInt32 - Cardinality(Separators)
<1> DEFINE n == Cardinality(SeparatorsFound(s, from, to))
           k == Cardinality(Separators)
           share == MaxUInt32 \div n
<1>1. SeparatorsFound(s, from, to) \subseteq Separators
  BY DEF SeparatorsFound
<1>2. n \in Nat /\ k \in Nat /\ n <= k /\ k <= 10
  BY <1>1, SeparatorsAssumption, FS_Subset, FS_CardinalityType
<1>3. w \in 0..MaxUInt32 /\ n > 0 /\ w \div share >= n
  BY DEF StuckWords, RandomInt
<1> HIDE DEF n, k
<1>4. MaxUInt32 \in Nat /\ 10 <= MaxUInt32
  BY Widths
<1>5. share \in Nat /\ share > 0 /\ n * share > MaxUInt32 - n
  <2>1. n \in 1..10
    BY <1>2, <1>3, SMT
  <2>2. \A j \in 1..10 : /\ MaxUInt32 \div j \in Nat /\ MaxUInt32 \div j > 0
                         /\ j * (MaxUInt32 \div j) > MaxUInt32 - j
    <3>1. 1..10 = {1, 2, 3, 4, 5, 6, 7, 8, 9, 10}
      BY SMT
    <3> QED BY <1>4, <3>1, SMT
  <2> QED BY <2>1, <2>2
<1> HIDE DEF share
<1>6. w >= share * (w \div share)
  BY <1>3, <1>5, SMT
<1>7. w \div share \in Nat
  BY <1>3, <1>5, SMT
<1>8. share * (w \div share) >= share * n
  BY <1>2, <1>3, <1>5, <1>7, SMT
<1>9. share * n = n * share /\ share * n \in Nat
  BY <1>2, <1>5, SMT
<1>10. share * (w \div share) \in Nat
  BY <1>5, <1>7, SMT
<1>11. w > MaxUInt32 - n
  BY <1>2, <1>3, <1>4, <1>5, <1>6, <1>8, <1>9, <1>10, SMT
<1> QED BY <1>2, <1>3, <1>4, <1>11, SMT DEF k

\* The intervals passed by a draw add up to what their probabilities add up to,
\* less one per interval at most.
Draws == [menu : DOMAIN Menu \union {"none", "separators"},
          word : Nat, rnd : Nat, i : Nat]

DrawInv ==
    /\ draw \in Draws
    /\ pc \notin {"draw", "aborted"} => draw.menu = "none"
    /\ pc = "draw" =>
          /\ draw.menu \in DOMAIN Menu
          /\ 1 <= draw.i /\ draw.i <= Len(Menu[draw.menu]) + 1
          /\ draw.i > 1 => draw.rnd >= 1
          /\ 20 * (draw.word - draw.rnd) >=
                Before[draw.menu][draw.i] * MaxUInt32 - 19 * (draw.i - 1)
    /\ OnlyTopWordsAbort

LEMMA StartDrawInv ==
    ASSUME NEW m \in DOMAIN Menu, StartDraw(m)
    PROVE  DrawInv'
<1>1. PICK w \in RandomInt : draw' = [menu |-> m, word |-> w, rnd |-> w, i |-> 1]
  BY DEF StartDraw
<1>2. /\ draw'.menu = m /\ draw'.word = w /\ draw'.rnd = w /\ draw'.i = 1
      /\ w \in Nat /\ pc' = "draw"
  BY <1>1, Widths DEF RandomInt, StartDraw
<1>3. Before[m][1] = 0 /\ Len(Menu[m]) \in Nat
  BY MenusAddUp
<1>4. 20 * (w - w) >= 0 * MaxUInt32 - 19 * (1 - 1)
  BY <1>2, Widths, SMT
<1>5. 1 <= Len(Menu[m]) + 1
  BY <1>3, SMT
<1>6. draw' \in Draws
  BY <1>1, <1>2 DEF Draws
<1> QED BY <1>2, <1>3, <1>4, <1>5, <1>6 DEF DrawInv, OnlyTopWordsAbort

LEMMA NextIntervalInv == DrawInv /\ NextInterval => DrawInv'
<1> SUFFICES ASSUME DrawInv, NextInterval PROVE DrawInv'
  OBVIOUS
<1> DEFINE m == draw.menu
           k == draw.i
           p == Menu[m][k].p
           n == Interval(p)
<1>1. /\ pc = "draw" /\ pc' = "draw" /\ k <= Len(Menu[m]) /\ draw.rnd > n
      /\ draw' = [draw EXCEPT !.rnd = @ - n, !.i = @ + 1]
  BY DEF NextInterval
<1>2. /\ m \in DOMAIN Menu /\ draw.word \in Nat /\ draw.rnd \in Nat /\ k \in Nat /\ 1 <= k
      /\ 20 * (draw.word - draw.rnd) >= Before[m][k] * MaxUInt32 - 19 * (k - 1)
  BY <1>1 DEF DrawInv, Draws
<1>3. /\ Len(Menu[m]) \in Nat /\ p \in Nat /\ Before[m][k] \in Nat
      /\ Before[m][k + 1] = Before[m][k] + p
  <2>1. k \in 1..Len(Menu[m])
    BY <1>1, <1>2, MenusAddUp, SMT
  <2> QED BY <1>2, <2>1, MenusAddUp
<1>4. n \in Nat /\ 20 * n >= p * MaxUInt32 - 19
  BY <1>3, IntervalBounds
<1>5. /\ draw'.menu = m /\ draw'.word = draw.word /\ draw'.rnd = draw.rnd - n
      /\ draw'.i = k + 1 /\ draw' \in Draws
  <2>1. draw.rnd - n \in Nat /\ k + 1 \in Nat
    <3>1. draw.rnd > n /\ draw.rnd \in Nat /\ k \in Nat /\ n \in Nat
      BY <1>1, <1>2, <1>4
    <3> HIDE DEF n, k
    <3> QED BY <3>1, SMT
  <2>2. draw \in Draws /\ draw' = [draw EXCEPT !.rnd = draw.rnd - n, !.i = k + 1]
    BY <1>1 DEF DrawInv
  <2> HIDE DEF n, k, m, p
  <2>3. /\ draw'.menu = draw.menu /\ draw'.word = draw.word /\ draw'.rnd = draw.rnd - n
        /\ draw'.i = k + 1 /\ draw' \in Draws
    BY <2>1, <2>2 DEF Draws
  <2> QED BY <2>3 DEF m
<1> DEFINE b == Before[m][k]
           c == Before[m][k + 1]
           x == b * MaxUInt32
           y == p * MaxUInt32
<1>6. 20 * (draw.word - (draw.rnd - n)) >= c * MaxUInt32 - 19 * ((k + 1) - 1)
  <2>1. c * MaxUInt32 = x + y /\ x \in Int /\ y \in Int
    <3>1. b \in Nat /\ p \in Nat /\ c = b + p /\ MaxUInt32 \in Nat
      BY <1>3, Widths
    <3> HIDE DEF b, c, p
    <3> QED BY <3>1, SMT
  <2>2. 20 * (draw.word - draw.rnd) >= x - 19 * (k - 1)
    BY <1>2
  <2>3. 20 * n >= y - 19 /\ n \in Nat /\ k \in Nat /\ draw.word \in Nat /\ draw.rnd \in Nat
    BY <1>2, <1>4
  <2> HIDE DEF x, y, b, c, n, p, k
  <2> QED BY <2>1, <2>2, <2>3, SMT
<1>7. 1 <= k + 1 /\ k + 1 <= Len(Menu[m]) + 1 /\ draw.rnd - n >= 1
  <2>1. /\ draw.rnd > n /\ draw.rnd \in Nat /\ k \in Nat /\ n \in Nat
        /\ k <= Len(Menu[m]) /\ Len(Menu[m]) \in Nat
    BY <1>1, <1>2, <1>3, <1>4
  <2> HIDE DEF n, k, m
  <2> QED BY <2>1, SMT
<1> HIDE DEF m, k, p, n, b, c, x, y
<1>8. m = draw.menu /\ pc' = "draw"
  BY <1>1 DEF m
<1> QED BY <1>2, <1>5, <1>6, <1>7, <1>8 DEF DrawInv, OnlyTopWordsAbort, c

LEMMA DrawFailsInv == DrawInv /\ DrawFails => DrawInv'
<1> SUFFICES ASSUME DrawInv, DrawFails PROVE DrawInv'
  OBVIOUS
<1> DEFINE m == draw.menu
           n == Len(Menu[m])
<1>1. pc = "draw" /\ draw.i > n /\ pc' = "aborted" /\ draw' = draw
  BY DEF DrawFails
<1>2. /\ m \in DOMAIN Menu /\ draw.word \in Nat /\ draw.rnd \in Nat /\ draw.i \in Nat
      /\ draw.i <= n + 1 /\ (draw.i > 1 => draw.rnd >= 1)
      /\ 20 * (draw.word - draw.rnd) >= Before[m][draw.i] * MaxUInt32 - 19 * (draw.i - 1)
  BY <1>1 DEF DrawInv, Draws
<1>3. n \in Nat /\ Before[m][n + 1] = 20
  BY <1>2, MenusAddUp
<1>4. draw.i = n + 1
  BY <1>1, <1>2, <1>3, SMT
<1>5. Before[m][1] = 0
  BY <1>2, MenusAddUp
<1>6. draw.word > MaxUInt32 - n
  <2>1. MaxUInt32 \in Nat
    BY Widths
  <2> HIDE DEF n
  <2>2. n > 0
    BY <1>3, <1>5, SMT
  <2> QED BY <1>2, <1>3, <1>4, <2>1, <2>2, SMT
<1>7. m # "separators"
  BY <1>2 DEF Menu
<1> QED BY <1>1, <1>6, <1>7 DEF DrawInv, OnlyTopWordsAbort

LEMMA DrawInvInit == Init => DrawInv
  BY SMT DEF Init, DrawInv, Draws, NoDraw, OnlyTopWordsAbort, Menu

\* The steps that end a draw, and those that draw nothing.
LEMMA NoDrawInv ==
    ASSUME draw' = NoDraw, pc' # "draw"
    PROVE  DrawInv'
<1>1. draw'.menu = "none" /\ draw' \in Draws
  BY SMT DEF NoDraw, Draws
<1> QED BY <1>1 DEF DrawInv, OnlyTopWordsAbort

\* A draw that no separator's share holds.
LEMMA BlockFailsInv ==
    ASSUME NEW from, NEW to, BlockFails(from, to)
    PROVE  DrawInv'
<1>1. PICK w \in StuckWords(Default, from, to) :
        draw' = [menu |-> "separators", word |-> w, rnd |-> w, i |-> 1]
  BY DEF BlockFails
<1>2. w > MaxUInt32 - Cardinality(Separators)
  BY <1>1, StuckWordsAreTop
<1>3. w \in Nat
  BY Widths DEF StuckWords, RandomInt
<1>4. pc' = "aborted" /\ draw'.menu = "separators" /\ draw'.word = w /\ draw' \in Draws
  BY <1>1, <1>3 DEF BlockFails, Draws
<1> QED BY <1>2, <1>4 DEF DrawInv, OnlyTopWordsAbort

LEMMA DrawInvStep == DrawInv /\ [Next]_vars => DrawInv'
<1> SUFFICES ASSUME DrawInv, [Next]_vars PROVE DrawInv'
  OBVIOUS
<1>1. ASSUME draw' = draw, pc' # "draw", pc \notin {"draw", "aborted"}
      PROVE  DrawInv'
  BY <1>1 DEF DrawInv, OnlyTopWordsAbort
<1>2. "string" \in DOMAIN Menu /\ "character" \in DOMAIN Menu
      /\ MenuOf(literal.type) \in DOMAIN Menu
  BY DEF Menu, MenuOf
<1>3. CASE Unfuzzed
  BY <1>3, <1>1 DEF Unfuzzed, Return
<1>4. CASE Fuzzed
  BY <1>4, <1>2, StartDrawInv DEF Fuzzed
<1>5. CASE NextInterval
  BY <1>5, NextIntervalInv
<1>6. CASE DrawFails
  BY <1>6, DrawFailsInv
<1>7. CASE FuzzInteger
  BY <1>7, NoDrawInv DEF FuzzInteger, ReturnLarge, Return
<1>8. CASE FuzzBoolean
  BY <1>8, NoDrawInv DEF FuzzBoolean, Return
<1>9. CASE FuzzObjectPath
  BY <1>9, NoDrawInv DEF FuzzObjectPath, Return
<1>10. CASE FuzzEmptyString
  BY <1>10, <1>1, <1>2, StartDrawInv DEF FuzzEmptyString
<1>11. CASE GenerateNext
  BY <1>11, <1>2, StartDrawInv, NoDrawInv DEF GenerateNext
<1>12. CASE StartCaseChange
  BY <1>12, NoDrawInv DEF StartCaseChange
<1>13. CASE ChangeCase \/ EndCaseChange \/ EndLetters
  BY <1>13, <1>1 DEF ChangeCase, EndCaseChange, EndLetters
<1>14. CASE StartLetters
  BY <1>14, NoDrawInv DEF StartLetters
<1>15. CASE ChooseLetter
  BY <1>15, <1>2, StartDrawInv DEF ChooseLetter
<1>16. CASE ReplaceLetter
  BY <1>16, NoDrawInv DEF ReplaceLetter, WriteLetter
<1>17. CASE AddSeparator
  BY <1>17, NoDrawInv DEF AddSeparator, WriteLetter
<1>18. CASE EditOneBlock
  BY <1>18, NoDrawInv, BlockFailsInv
     DEF EditOneBlock, DeleteBlock, OverwriteBlock, CloneBlock, Edited
<1>19. CASE SwapBlocks
  BY <1>19, NoDrawInv, BlockFailsInv DEF SwapBlocks, SwappedWith, Edited
<1>20. CASE FinishString
  BY <1>20, <1>1 DEF FinishString, Return
<1>21. CASE EvaluateAgain
  BY <1>21, <1>1 DEF EvaluateAgain
<1>22. CASE UNCHANGED vars
  BY <1>22 DEF vars, DrawInv, OnlyTopWordsAbort
<1> QED BY <1>3, <1>4, <1>5, <1>6, <1>7, <1>8, <1>9, <1>10, <1>11, <1>12, <1>13, <1>14,
           <1>15, <1>16, <1>17, <1>18, <1>19, <1>20, <1>21, <1>22 DEF Next, Step

\* Whatever the size of a random word, only as many of the topmost words as there
\* are intervals can abort the program.
THEOREM OnlyTopWordsAbortThm == Spec => []OnlyTopWordsAbort
<1>1. DrawInv => OnlyTopWordsAbort
  BY DEF DrawInv
<1> QED BY DrawInvInit, DrawInvStep, <1>1, PTL DEF Spec

-----------------------------------------------------------------------------
(* Least and greatest numbers.                                             *)

LEMMA LeastNatural ==
    ASSUME NEW S \in SUBSET Nat, S # {}
    PROVE  \E m \in S : \A k \in S : m <= k
<1>1. PICK m \in S : \A k \in S : <<k, m>> \notin OpToRel(<, Nat)
  BY WFMin, NatLessThanWellFounded
<1>2. \A k \in S : ~(k < m)
  BY <1>1 DEF OpToRel
<1> QED BY <1>2, SMT

LEMMA GreatestNatural ==
    ASSUME NEW S \in SUBSET Nat, S # {}, NEW n \in Nat, \A k \in S : k <= n
    PROVE  \E m \in S : \A k \in S : k <= m
<1> DEFINE T == {b \in Nat : \A k \in S : k <= b}
<1>1. PICK b \in T : \A c \in T : b <= c
  <2>1. n \in T
    OBVIOUS
  <2> HIDE DEF T
  <2>2. T \in SUBSET Nat
    BY DEF T
  <2> QED BY <2>1, <2>2, LeastNatural
<1>2. b \in S
  <2> SUFFICES ASSUME b \notin S PROVE FALSE
    OBVIOUS
  <2>1. PICK k \in S : TRUE
    OBVIOUS
  <2>2. \A j \in S : j <= b - 1 /\ j \in Nat
    BY <1>1, SMT
  <2>3. b - 1 \in Nat
    BY <1>1, <2>1, <2>2, SMT
  <2>4. b - 1 \in T
    BY <2>2, <2>3
  <2> QED BY <1>1, <2>3, <2>4, SMT
<1> QED BY <1>1, <1>2

-----------------------------------------------------------------------------
(* Bytes and letters of strings.                                           *)

Strings == Seq(Bytes)

LEMMA Joined ==
    ASSUME NEW s \in Strings, NEW t \in Strings
    PROVE  /\ s \o t \in Strings /\ Len(s \o t) = Len(s) + Len(t)
           /\ Len(s) \in Nat /\ Len(t) \in Nat
           /\ \A p \in 1..Len(s) : (s \o t)[p] = s[p]
           /\ \A p \in 1..Len(t) : (s \o t)[Len(s) + p] = t[p]
<1>1. /\ s \o t \in Strings /\ Len(s \o t) = Len(s) + Len(t)
      /\ \A p \in 1..(Len(s) + Len(t)) :
            (s \o t)[p] = IF p <= Len(s) THEN s[p] ELSE t[p - Len(s)]
  BY ConcatProperties DEF Strings
<1>2. Len(s) \in Nat /\ Len(t) \in Nat
  BY DEF Strings
<1>3. ASSUME NEW p \in 1..Len(s) PROVE (s \o t)[p] = s[p]
  BY <1>1, <1>2, SMT
<1>4. ASSUME NEW p \in 1..Len(t) PROVE (s \o t)[Len(s) + p] = t[p]
  BY <1>1, <1>2, SMT
<1> QED BY <1>1, <1>2, <1>3, <1>4

LEMMA StringFacts ==
    ASSUME NEW s \in Strings
    PROVE  Len(s) \in Nat /\ \A p \in 1..Len(s) : s[p] \in Bytes
  BY DEF Strings

LEMMA ChunkFacts ==
    ASSUME NEW s \in Strings, NEW from \in Nat, NEW to \in Nat, from <= to, to <= Len(s)
    PROVE  /\ Chunk(s, from, to) \in Strings /\ Len(Chunk(s, from, to)) = to - from
           /\ \A p \in 1..(to - from) : Chunk(s, from, to)[p] = s[from + p]
<1>1. Len(s) \in Nat /\ \A p \in (from + 1)..to : s[p] \in Bytes
  BY StringFacts, SMT
<1> DEFINE c == SubSeq(s, from + 1, to)
<1>2. /\ c \in Seq(Bytes)
      /\ Len(c) = IF from + 1 <= to THEN to - (from + 1) + 1 ELSE 0
      /\ \A p \in 1..(to - (from + 1) + 1) : c[p] = s[from + 1 + p - 1]
  BY <1>1, SubSeqProperties, SMT
<1> HIDE DEF c
<1>3. Len(c) = to - from /\ \A p \in 1..(to - from) : c[p] = s[from + p]
  BY <1>2, SMT
<1> QED BY <1>2, <1>3 DEF c, Chunk, Strings

\* The whole of a string, and a chunk cut in two.
LEMMA WholeChunk ==
    ASSUME NEW s \in Strings
    PROVE  Chunk(s, 0, Len(s)) = s
  BY SubSeqFull DEF Chunk, Strings

LEMMA CutChunk ==
    ASSUME NEW s \in Strings, NEW from \in Nat, NEW mid \in Nat, NEW to \in Nat,
           from <= mid, mid <= to, to <= Len(s)
    PROVE  Chunk(s, from, to) = Chunk(s, from, mid) \o Chunk(s, mid, to)
<1> DEFINE a == Chunk(s, from, mid)
           b == Chunk(s, mid, to)
           c == Chunk(s, from, to)
<1>0. mid <= Len(s) /\ from <= to
  BY StringFacts, SMT
<1>1. /\ a \in Strings /\ Len(a) = mid - from
      /\ \A p \in 1..(mid - from) : a[p] = s[from + p]
  BY <1>0, ChunkFacts
<1>2. /\ b \in Strings /\ Len(b) = to - mid
      /\ \A p \in 1..(to - mid) : b[p] = s[mid + p]
  BY <1>0, ChunkFacts
<1>3. /\ c \in Strings /\ Len(c) = to - from
      /\ \A p \in 1..(to - from) : c[p] = s[from + p]
  BY <1>0, ChunkFacts
<1> HIDE DEF a, b, c
<1>4. /\ a \o b \in Strings /\ Len(a \o b) = Len(a) + Len(b)
      /\ \A p \in 1..Len(a) : (a \o b)[p] = a[p]
      /\ \A p \in 1..Len(b) : (a \o b)[Len(a) + p] = b[p]
  BY <1>1, <1>2, Joined
<1>5. ASSUME NEW p \in 1..(to - from) PROVE (a \o b)[p] = c[p]
  <2>1. CASE p <= mid - from
    BY <1>1, <1>3, <1>4, <2>1, SMT
  <2>2. CASE p > mid - from
    <3>1. p - (mid - from) \in 1..(to - mid)
      BY <2>2, SMT
    <3>2. (a \o b)[(mid - from) + (p - (mid - from))] = b[p - (mid - from)]
      BY <1>1, <1>2, <1>4, <3>1
    <3>3. b[p - (mid - from)] = s[mid + (p - (mid - from))]
      BY <1>2, <3>1
    <3>4. /\ (mid - from) + (p - (mid - from)) = p
          /\ mid + (p - (mid - from)) = from + p
      BY SMT
    <3> QED BY <1>3, <3>2, <3>3, <3>4
  <2>3. p <= mid - from \/ p > mid - from
    BY SMT
  <2> QED BY <2>1, <2>2, <2>3
<1>6. Len(a \o b) = Len(c)
  BY <1>1, <1>2, <1>3, <1>4, SMT
<1>7. a \o b = c
  BY <1>3, <1>4, <1>5, <1>6, SeqEqual DEF Strings
<1> QED BY <1>7 DEF a, b, c

LEMMA IntervalSize ==
    ASSUME NEW n \in Nat
    PROVE  /\ IsFiniteSet(1..n) /\ Cardinality(1..n) = n
           /\ IsFiniteSet(0..n) /\ 0..n \in SUBSET Nat
<1>1. IsFiniteSet(1..n) /\ Cardinality(1..n) = IF 1 > n THEN 0 ELSE n - 1 + 1
  BY FS_Interval
<1>2. IsFiniteSet(0..n)
  BY FS_Interval
<1>3. (IF 1 > n THEN 0 ELSE n - 1 + 1) = n /\ 0..n \in SUBSET Nat
  BY SMT
<1> QED BY <1>1, <1>2, <1>3

\* The places of the bytes of s that are in B, and their number.
Places(s, B) == {p \in 1..Len(s) : s[p] \in B}
Count(s, B) == Cardinality(Places(s, B))

LEMMA CountOfByte ==
    ASSUME NEW s, NEW b
    PROVE  Count(s, {b}) = Cardinality({p \in 1..Len(s) : s[p] = b})
<1>1. Places(s, {b}) = {p \in 1..Len(s) : s[p] = b}
  BY DEF Places
<1> QED BY <1>1 DEF Count

LEMMA PlacesFinite ==
    ASSUME NEW s \in Strings, NEW B
    PROVE  IsFiniteSet(Places(s, B)) /\ Count(s, B) \in Nat /\ Count(s, B) <= Len(s)
<1>1. Len(s) \in Nat
  BY StringFacts
<1>2. IsFiniteSet(1..Len(s)) /\ Cardinality(1..Len(s)) = Len(s)
  BY <1>1, IntervalSize
<1>3. Places(s, B) \in SUBSET (1..Len(s))
  BY DEF Places
<1> QED BY <1>2, <1>3, FS_Subset, FS_CardinalityType DEF Count

\* A set of numbers and the set of those a constant further are as large.
LEMMA ShiftedSet ==
    ASSUME NEW S \in SUBSET Nat, IsFiniteSet(S), NEW n \in Nat
    PROVE  /\ IsFiniteSet({n + p : p \in S})
           /\ Cardinality({n + p : p \in S}) = Cardinality(S)
<1> DEFINE T == {n + p : p \in S}
           f == [p \in S |-> n + p]
<1>1. f \in [S -> T]
  OBVIOUS
<1>2. \A p, q \in S : f[p] = f[q] => p = q
  BY SMT
<1>3. \A t \in T : \E p \in S : f[p] = t
  OBVIOUS
<1> HIDE DEF T, f
<1>4. f \in Bijection(S, T)
  <2>1. f \in Injection(S, T)
    BY <1>1, <1>2, Fun_IsInj
  <2>2. f \in Surjection(S, T)
    BY <1>1, <1>3, Fun_IsSurj
  <2> QED BY <2>1, <2>2 DEF Bijection
<1>5. ExistsBijection(S, T)
  BY <1>4 DEF ExistsBijection
<1>6. IsFiniteSet(T) /\ Cardinality(T) = Cardinality(S)
  BY <1>5, FS_Bijection
<1> QED BY <1>6 DEF T

\* What occurs in a string put together occurs in one of the parts.
LEMMA CountJoined ==
    ASSUME NEW s \in Strings, NEW t \in Strings, NEW B
    PROVE  Count(s \o t, B) = Count(s, B) + Count(t, B)
<1> DEFINE P == Places(s, B)
           Q == Places(t, B)
           R == {Len(s) + p : p \in Q}
<1>1. /\ s \o t \in Strings /\ Len(s \o t) = Len(s) + Len(t)
      /\ Len(s) \in Nat /\ Len(t) \in Nat
      /\ \A p \in 1..Len(s) : (s \o t)[p] = s[p]
      /\ \A p \in 1..Len(t) : (s \o t)[Len(s) + p] = t[p]
  BY Joined
<1>2. Places(s \o t, B) = P \cup R
  <2>1. ASSUME NEW p \in Places(s \o t, B) PROVE p \in P \cup R
    <3>1. p \in 1..(Len(s) + Len(t)) /\ (s \o t)[p] \in B
      BY <1>1 DEF Places
    <3>2. CASE p <= Len(s)
      <4>1. p \in 1..Len(s)
        BY <1>1, <3>1, <3>2, SMT
      <4> QED BY <1>1, <3>1, <4>1 DEF Places
    <3>3. CASE p > Len(s)
      <4> DEFINE q == p - Len(s)
      <4>1. q \in 1..Len(t) /\ Len(s) + q = p
        BY <1>1, <3>1, <3>3, SMT
      <4> HIDE DEF q
      <4>2. q \in Q
        BY <1>1, <3>1, <4>1 DEF Places
      <4> QED BY <4>1, <4>2
    <3>4. p <= Len(s) \/ p > Len(s)
      BY <1>1, <3>1, SMT
    <3> QED BY <3>2, <3>3, <3>4
  <2>2. ASSUME NEW p \in P PROVE p \in Places(s \o t, B)
    <3>1. p \in 1..Len(s) /\ s[p] \in B
      BY DEF Places
    <3>2. p \in 1..Len(s \o t)
      BY <1>1, <3>1, SMT
    <3> QED BY <1>1, <3>1, <3>2 DEF Places
  <2>3. ASSUME NEW q \in Q PROVE Len(s) + q \in Places(s \o t, B)
    <3>1. q \in 1..Len(t) /\ t[q] \in B
      BY DEF Places
    <3>2. Len(s) + q \in 1..Len(s \o t)
      BY <1>1, <3>1, SMT
    <3>3. (s \o t)[Len(s) + q] = t[q]
      BY <1>1, <3>1
    <3> QED BY <3>1, <3>2, <3>3 DEF Places
  <2> QED BY <2>1, <2>2, <2>3
<1>3. IsFiniteSet(P) /\ Cardinality(P) \in Nat /\ IsFiniteSet(Q) /\ Cardinality(Q) \in Nat
  BY PlacesFinite DEF Count
<1>4. Q \in SUBSET Nat
  BY <1>1, SMT DEF Places
<1>5. IsFiniteSet(R) /\ Cardinality(R) = Cardinality(Q)
  <2> HIDE DEF Q
  <2> QED BY <1>1, <1>3, <1>4, ShiftedSet
<1>6. P \cap R = {}
  BY <1>1, SMT DEF Places
<1> HIDE DEF P, Q, R
<1>7. Cardinality(P \cup R) = Cardinality(P) + Cardinality(R) - Cardinality(P \cap R)
  BY <1>3, <1>5, FS_Union
<1>8. Cardinality(P \cap R) = 0
  BY <1>6, FS_EmptySet
<1>9. Cardinality(P \cup R) = Cardinality(P) + Cardinality(Q)
  BY <1>3, <1>5, <1>7, <1>8, SMT
<1> QED BY <1>2, <1>9 DEF Count, P, Q

\* A string of one byte counts it or does not.
LEMMA CountSingle ==
    ASSUME NEW b \in Bytes, NEW B
    PROVE  <<b>> \in Strings /\ Count(<<b>>, B) = IF b \in B THEN 1 ELSE 0
<1>1. <<b>> \in Strings /\ Len(<<b>>) = 1 /\ <<b>>[1] = b
  BY DEF Strings
<1>2. 1..Len(<<b>>) = {1}
  BY <1>1, SMT
<1>3. CASE b \in B
  <2>1. Places(<<b>>, B) = {1}
    BY <1>1, <1>2, <1>3 DEF Places
  <2> QED BY <1>1, <1>3, <2>1, FS_Singleton DEF Count
<1>4. CASE b \notin B
  <2>1. Places(<<b>>, B) = {}
    BY <1>1, <1>2, <1>4 DEF Places
  <2> QED BY <1>1, <1>4, <2>1, FS_EmptySet DEF Count
<1> QED BY <1>3, <1>4

LEMMA CountEmpty ==
    ASSUME NEW B
    PROVE  <<>> \in Strings /\ Count(<<>>, B) = 0
<1>1. Places(<<>>, B) = {}
  BY SMT DEF Places
<1> QED BY <1>1, FS_EmptySet DEF Count, Strings

\* The bytes that start a character, and their number.
Starting == Bytes \ {"cont"}
Letters(s) == Count(s, Starting)

LEMMA LettersAreCharacters ==
    ASSUME NEW s \in Strings
    PROVE  CharacterCount(s) = Letters(s)
<1> DEFINE P == Places(s, Starting)
           O == {o \in 0..Len(s) : o < Len(s) /\ s[o + 1] # "cont"}
<1>1. Len(s) \in Nat /\ \A p \in 1..Len(s) : s[p] \in Bytes
  BY StringFacts
<1>2. IsFiniteSet(P) /\ Cardinality(P) \in Nat
  BY PlacesFinite DEF Count
<1>3. O \in SUBSET Nat /\ IsFiniteSet(O)
  <2>1. IsFiniteSet(0..Len(s)) /\ 0..Len(s) \in SUBSET Nat
    BY <1>1, FS_Interval, SMT
  <2>2. O \in SUBSET (0..Len(s))
    OBVIOUS
  <2> HIDE DEF O
  <2> QED BY <2>1, <2>2, FS_Subset
<1>4. P = {1 + o : o \in O}
  <2>1. ASSUME NEW p \in P PROVE p \in {1 + o : o \in O}
    <3>1. p \in 1..Len(s) /\ s[p] # "cont"
      BY DEF Places, Starting
    <3>2. p - 1 \in 0..Len(s) /\ p - 1 < Len(s) /\ (p - 1) + 1 = p /\ 1 + (p - 1) = p
      BY <1>1, <3>1, SMT
    <3>3. p - 1 \in O
      BY <3>1, <3>2
    <3> HIDE DEF O
    <3> QED BY <3>2, <3>3
  <2>2. ASSUME NEW o \in O PROVE 1 + o \in P
    <3>1. o \in 0..Len(s) /\ o < Len(s) /\ s[o + 1] # "cont"
      OBVIOUS
    <3>2. 1 + o = o + 1 /\ o + 1 \in 1..Len(s)
      BY <1>1, <3>1, SMT
    <3>3. s[o + 1] \in Starting
      BY <1>1, <3>1, <3>2 DEF Starting
    <3> QED BY <3>2, <3>3 DEF Places
  <2> HIDE DEF O, P
  <2> QED BY <2>1, <2>2
<1>5. Cardinality(P) = Cardinality(O)
  <2> HIDE DEF O, P
  <2> QED BY <1>3, <1>4, ShiftedSet
<1>6. Boundaries(s) = O \cup {Len(s)}
  BY <1>1, SMT DEF Boundaries
<1>7. Len(s) \notin O
  BY <1>1, SMT
<1>8. Cardinality(O \cup {Len(s)}) = Cardinality(O) + 1
  <2> HIDE DEF O
  <2> QED BY <1>3, <1>7, FS_AddElement
<1>9. CharacterCount(s) = Cardinality(P)
  <2> HIDE DEF O, P
  <2> QED BY <1>2, <1>5, <1>6, <1>8, SMT DEF CharacterCount
<1> QED BY <1>9 DEF Letters, Count

\* A string of characters of at most two bytes has at most twice as many bytes.
LEMMA BytesOfLetters ==
    ASSUME NEW s \in Strings, ValidUtf8(s)
    PROVE  Letters(s) \in Nat /\ Len(s) <= 2 * Letters(s)
<1> DEFINE P == Places(s, Starting)
           C == Places(s, {"cont"})
           f == [p \in C |-> p - 1]
<1>1. Len(s) \in Nat /\ \A p \in 1..Len(s) : s[p] \in Bytes
  BY StringFacts
<1>2. /\ IsFiniteSet(P) /\ Cardinality(P) \in Nat
      /\ IsFiniteSet(C) /\ Cardinality(C) \in Nat
  BY PlacesFinite DEF Count
<1>3. ASSUME NEW p \in C PROVE p - 1 \in P
  <2>1. p \in 1..Len(s) /\ p > 1 /\ s[p - 1] = "lead"
    BY DEF Places, ValidUtf8
  <2>2. p - 1 \in 1..Len(s)
    BY <1>1, <2>1, SMT
  <2>3. s[p - 1] \in Starting
    BY <1>1, <2>1, <2>2 DEF Starting
  <2> QED BY <2>2, <2>3 DEF Places
<1>4. \A p, q \in C : p - 1 = q - 1 => p = q
  BY <1>1, SMT DEF Places
<1>5. P \cup C = 1..Len(s) /\ P \cap C = {}
  BY <1>1 DEF Places, Starting
<1> HIDE DEF P, C
<1>6. f \in Injection(C, P)
  <2>1. f \in [C -> P]
    BY <1>3
  <2>2. \A p, q \in C : f[p] = f[q] => p = q
    BY <1>4
  <2> HIDE DEF f
  <2> QED BY <2>1, <2>2, Fun_IsInj
<1>7. Cardinality(C) <= Cardinality(P)
  <2> HIDE DEF f
  <2> QED BY <1>2, <1>6, FS_Injection
<1>8. Cardinality(P \cup C) = Cardinality(P) + Cardinality(C) - Cardinality(P \cap C)
  BY <1>2, FS_Union
<1>9. Cardinality(P \cup C) = Len(s) /\ Cardinality(P \cap C) = 0
  BY <1>1, <1>5, IntervalSize, FS_EmptySet
<1>10. Len(s) = Cardinality(P) + Cardinality(C)
  BY <1>2, <1>8, <1>9, SMT
<1>11. Letters(s) = Cardinality(P)
  BY DEF Letters, Count, P
<1> QED BY <1>2, <1>7, <1>10, <1>11, SMT

-----------------------------------------------------------------------------
(* Cutting strings between characters.                                     *)

LEMMA BoundaryFacts ==
    ASSUME NEW s \in Strings
    PROVE  /\ 0 \in Nat /\ Len(s) \in Boundaries(s)
           /\ ValidUtf8(s) => 0 \in Boundaries(s)
           /\ \A o \in Boundaries(s) :
                 /\ o \in Nat /\ o <= Len(s)
                 /\ o < Len(s) => s[o + 1] # "cont"
<1>1. Len(s) \in Nat
  BY StringFacts
<1>2. Len(s) \in Boundaries(s)
  BY <1>1, SMT DEF Boundaries
<1>3. ASSUME ValidUtf8(s) PROVE 0 \in Boundaries(s)
  <2>1. CASE Len(s) = 0
    BY <1>2, <2>1
  <2>2. CASE Len(s) > 0
    <3>1. s[1] # "cont"
      BY <1>1, <1>3, <2>2, SMT DEF ValidUtf8
    <3> QED BY <1>1, <3>1, SMT DEF Boundaries
  <2> QED BY <1>1, <2>1, <2>2, SMT
<1>4. ASSUME NEW o \in Boundaries(s)
      PROVE  o \in Nat /\ o <= Len(s) /\ (o < Len(s) => s[o + 1] # "cont")
  BY <1>1, SMT DEF Boundaries
<1> QED BY <1>2, <1>3, <1>4

\* What lies between two characters of a valid string is valid.
LEMMA ValidChunk ==
    ASSUME NEW s \in Strings, ValidUtf8(s),
           NEW from \in Boundaries(s), NEW to \in Boundaries(s), from <= to
    PROVE  /\ Chunk(s, from, to) \in Strings /\ ValidUtf8(Chunk(s, from, to))
           /\ Len(Chunk(s, from, to)) = to - from
<1> DEFINE c == Chunk(s, from, to)
           n == to - from
<1>1. /\ Len(s) \in Nat /\ from \in Nat /\ to \in Nat /\ to <= Len(s)
      /\ from < Len(s) => s[from + 1] # "cont"
      /\ to < Len(s) => s[to + 1] # "cont"
  BY BoundaryFacts, StringFacts
<1>2. c \in Strings /\ Len(c) = n /\ \A p \in 1..n : c[p] = s[from + p]
  BY <1>1, ChunkFacts
<1>3. n \in Nat /\ from + n = to
  BY <1>1, SMT
<1> HIDE DEF c, n
<1>4. ASSUME NEW p \in 1..n, c[p] = "lead" PROVE p < n /\ c[p + 1] = "cont"
  <2>1. s[from + p] = "lead" /\ from + p \in 1..Len(s)
    BY <1>1, <1>2, <1>3, <1>4, SMT
  <2>2. from + p < Len(s) /\ s[(from + p) + 1] = "cont"
    BY <2>1 DEF ValidUtf8
  <2>3. p < n
    BY <1>1, <1>3, <2>2, SMT
  <2>4. p + 1 \in 1..n /\ from + (p + 1) = (from + p) + 1
    BY <1>1, <1>3, <2>3, SMT
  <2> QED BY <1>2, <2>2, <2>3, <2>4
<1>5. ASSUME NEW p \in 1..n, c[p] = "cont" PROVE p > 1 /\ c[p - 1] = "lead"
  <2>1. s[from + p] = "cont" /\ from + p \in 1..Len(s)
    BY <1>1, <1>2, <1>3, <1>5, SMT
  <2>2. s[(from + p) - 1] = "lead"
    BY <2>1 DEF ValidUtf8
  <2>3. p > 1
    BY <1>1, <1>3, <2>1, SMT
  <2>4. p - 1 \in 1..n /\ from + (p - 1) = (from + p) - 1
    BY <1>1, <1>3, <2>3, SMT
  <2> QED BY <1>2, <2>2, <2>3, <2>4
<1>6. ValidUtf8(c)
  BY <1>2, <1>4, <1>5 DEF ValidUtf8
<1> QED BY <1>2, <1>6 DEF c, n

\* Valid strings joined are valid.
LEMMA ValidJoined ==
    ASSUME NEW s \in Strings, NEW t \in Strings, ValidUtf8(s), ValidUtf8(t)
    PROVE  ValidUtf8(s \o t)
<1> DEFINE u == s \o t
           m == Len(s)
           n == Len(t)
<1>1. /\ m \in Nat /\ n \in Nat /\ Len(u) = m + n
      /\ \A p \in 1..m : u[p] = s[p]
      /\ \A p \in 1..n : u[m + p] = t[p]
  BY Joined
<1>2. \A p \in 1..m : /\ s[p] = "lead" => p < m /\ s[p + 1] = "cont"
                      /\ s[p] = "cont" => p > 1 /\ s[p - 1] = "lead"
  BY DEF ValidUtf8
<1>3. \A p \in 1..n : /\ t[p] = "lead" => p < n /\ t[p + 1] = "cont"
                      /\ t[p] = "cont" => p > 1 /\ t[p - 1] = "lead"
  BY DEF ValidUtf8
<1> HIDE DEF u, m, n
<1>4. ASSUME NEW p \in 1..Len(u), p <= m
      PROVE  /\ u[p] = "lead" => p < Len(u) /\ u[p + 1] = "cont"
             /\ u[p] = "cont" => p > 1 /\ u[p - 1] = "lead"
  <2>1. p \in 1..m /\ u[p] = s[p]
    BY <1>1, <1>4, SMT
  <2>2. p < m => p < Len(u) /\ u[p + 1] = s[p + 1]
    BY <1>1, <2>1, SMT
  <2>3. p > 1 => u[p - 1] = s[p - 1]
    BY <1>1, <2>1, SMT
  <2> QED BY <1>2, <2>1, <2>2, <2>3
<1>5. ASSUME NEW p \in 1..Len(u), p > m
      PROVE  /\ u[p] = "lead" => p < Len(u) /\ u[p + 1] = "cont"
             /\ u[p] = "cont" => p > 1 /\ u[p - 1] = "lead"
  <2> DEFINE q == p - m
  <2>1. q \in 1..n /\ m + q = p
    BY <1>1, <1>5, SMT
  <2>2. u[p] = t[q]
    BY <1>1, <2>1
  <2>3. ASSUME q < n PROVE p < Len(u) /\ u[p + 1] = t[q + 1]
    <3>1. q + 1 \in 1..n /\ m + (q + 1) = p + 1 /\ p < Len(u)
      BY <1>1, <2>1, <2>3, SMT
    <3> QED BY <1>1, <3>1
  <2>4. ASSUME q > 1 PROVE p > 1 /\ u[p - 1] = t[q - 1]
    <3>1. q - 1 \in 1..n /\ m + (q - 1) = p - 1 /\ p > 1
      BY <1>1, <2>1, <2>4, SMT
    <3> QED BY <1>1, <3>1
  <2> HIDE DEF q
  <2> QED BY <1>3, <2>1, <2>2, <2>3, <2>4
<1>6. ASSUME NEW p \in 1..Len(u) PROVE p <= m \/ p > m
  BY <1>1, SMT
<1>7. ValidUtf8(u)
  BY <1>4, <1>5, <1>6 DEF ValidUtf8
<1> QED BY <1>7 DEF u

\* Between two offsets of a string lie the letters up to the first that are not
\* those up to the second.
LEMMA LettersSplit ==
    ASSUME NEW s \in Strings, NEW from \in Nat, NEW to \in Nat, from <= to, to <= Len(s)
    PROVE  /\ Letters(Chunk(s, 0, from)) \in Nat /\ Letters(Chunk(s, from, to)) \in Nat
           /\ Letters(Chunk(s, 0, to))
                 = Letters(Chunk(s, 0, from)) + Letters(Chunk(s, from, to))
<1>1. Len(s) \in Nat /\ 0 <= from /\ from <= Len(s) /\ 0 \in Nat
  BY StringFacts, SMT
<1>2. Chunk(s, 0, from) \in Strings /\ Chunk(s, from, to) \in Strings
  BY <1>1, ChunkFacts
<1>3. Chunk(s, 0, to) = Chunk(s, 0, from) \o Chunk(s, from, to)
  BY <1>1, CutChunk
<1>4. /\ Count(Chunk(s, 0, from), Starting) \in Nat
      /\ Count(Chunk(s, from, to), Starting) \in Nat
  BY <1>2, PlacesFinite
<1>5. Count(Chunk(s, 0, from) \o Chunk(s, from, to), Starting)
         = Count(Chunk(s, 0, from), Starting) + Count(Chunk(s, from, to), Starting)
  BY <1>2, CountJoined
<1> QED BY <1>3, <1>4, <1>5 DEF Letters

LEMMA LettersNatural ==
    ASSUME NEW s \in Strings, NEW o \in Nat, o <= Len(s)
    PROVE  Letters(Chunk(s, 0, o)) \in Nat
<1>1. 0 \in Nat /\ 0 <= o
  BY SMT
<1>2. Chunk(s, 0, o) \in Strings
  BY <1>1, ChunkFacts
<1> QED BY <1>2, PlacesFinite DEF Letters

\* One byte further there is one letter more, or the byte continues a character.
LEMMA LettersNext ==
    ASSUME NEW s \in Strings, NEW o \in Nat, o < Len(s)
    PROVE  Letters(Chunk(s, 0, o + 1))
              = Letters(Chunk(s, 0, o)) + (IF s[o + 1] = "cont" THEN 0 ELSE 1)
<1>1. Len(s) \in Nat /\ o + 1 \in Nat /\ o <= o + 1 /\ o + 1 <= Len(s)
      /\ o + 1 \in 1..Len(s) /\ (o + 1) - o = 1
  BY StringFacts, SMT
<1>2. s[o + 1] \in Bytes
  BY <1>1, StringFacts
<1> DEFINE c == Chunk(s, o, o + 1)
<1>3. c \in Strings /\ Len(c) = 1 /\ c[1] = s[o + 1]
  <2>1. /\ c \in Strings /\ Len(c) = (o + 1) - o
        /\ \A p \in 1..((o + 1) - o) : c[p] = s[o + p]
    BY <1>1, ChunkFacts
  <2>2. 1 \in 1..1
    BY SMT
  <2> QED BY <1>1, <2>1, <2>2
<1>4. c = <<s[o + 1]>>
  BY <1>2, <1>3, SMT DEF Strings
<1>5. Letters(c) = IF s[o + 1] = "cont" THEN 0 ELSE 1
  BY <1>2, <1>4, CountSingle DEF Letters, Starting
<1>6. /\ Letters(Chunk(s, 0, o + 1)) = Letters(Chunk(s, 0, o)) + Letters(c)
  BY <1>1, LettersSplit
<1> QED BY <1>5, <1>6

\* There is an offset a number of characters further, when the string has so many,
\* and it is between characters.
LEMMA AdvanceFacts ==
    ASSUME NEW s \in Strings, NEW from \in Nat, NEW n \in Nat, from <= Len(s),
           Letters(Chunk(s, 0, from)) + n <= Letters(s)
    PROVE  /\ Advance(s, from, n) \in Boundaries(s)
           /\ from <= Advance(s, from, n)
           /\ Letters(Chunk(s, 0, Advance(s, from, n))) = Letters(Chunk(s, 0, from)) + n
<1> DEFINE L(o) == Letters(Chunk(s, 0, o))
           Between(o) == {b \in Boundaries(s) : from <= b /\ b < o}
           k == L(from) + n
           S == {o \in from..Len(s) : L(o) <= k}
<1>1. Len(s) \in Nat /\ L(from) \in Nat /\ k \in Nat
  <2>1. L(from) \in Nat
    BY LettersNatural
  <2> HIDE DEF L
  <2> QED BY <2>1, StringFacts, SMT
<1>2. L(Len(s)) = Letters(s)
  BY WholeChunk
<1>3. ASSUME NEW o \in from..Len(s) PROVE L(o) \in Nat
  <2>1. o \in Nat /\ o <= Len(s)
    BY <1>1, <1>3, SMT
  <2> QED BY <2>1, LettersNatural
<1>4. PICK m \in S : \A o \in S : o <= m
  <2>1. from \in S
    BY <1>1, SMT
  <2>2. S \in SUBSET Nat /\ \A o \in S : o <= Len(s)
    BY <1>1, SMT
  <2> HIDE DEF S
  <2> QED BY <1>1, <2>1, <2>2, GreatestNatural
<1>5. m \in from..Len(s) /\ L(m) <= k
  OBVIOUS
<1>6. L(m) = k /\ m \in Boundaries(s)
  <2>1. CASE m = Len(s)
    BY <1>1, <1>2, <1>3, <1>5, <2>1, BoundaryFacts, SMT
  <2>2. CASE m < Len(s)
    <3>1. m \in Nat /\ m + 1 \in from..Len(s) /\ ~(m + 1 <= m)
      BY <1>1, <1>5, <2>2, SMT
    <3>2. ~(L(m + 1) <= k)
      BY <1>4, <3>1
    <3>3. L(m + 1) = L(m) + (IF s[m + 1] = "cont" THEN 0 ELSE 1)
      BY <2>2, <3>1, LettersNext
    <3>4. L(m) \in Nat
      BY <1>3, <1>5
    <3> HIDE DEF L, k
    <3>5. s[m + 1] # "cont" /\ L(m) = k
      BY <1>1, <1>5, <3>2, <3>3, <3>4, SMT
    <3> QED BY <1>1, <1>5, <3>5, SMT DEF Boundaries
  <2> QED BY <1>1, <1>5, <2>1, <2>2, SMT
<1>7. ASSUME NEW o \in from..Len(s)
      PROVE  Cardinality(Between(o)) + L(from) = L(o)
  <2> DEFINE c == Chunk(s, from, o)
             P == Places(c, Starting)
  <2>1. o \in Nat /\ from <= o /\ o <= Len(s) /\ o - from \in Nat
    BY <1>1, <1>7, SMT
  <2>2. /\ c \in Strings /\ Len(c) = o - from
        /\ \A p \in 1..(o - from) : c[p] = s[from + p] /\ c[p] \in Bytes
    BY <2>1, ChunkFacts, StringFacts
  <2>3. L(o) = L(from) + Letters(c) /\ Letters(c) \in Nat
    BY <2>1, LettersSplit
  <2>4. Letters(c) = Cardinality(P) /\ IsFiniteSet(P)
    BY <2>2, PlacesFinite DEF Letters, Count
  <2> DEFINE B == Between(o)
  <2>5. B \in SUBSET Nat /\ IsFiniteSet(B)
    <3>1. B \in SUBSET (0..Len(s)) /\ 0..Len(s) \in SUBSET Nat /\ IsFiniteSet(0..Len(s))
      BY <1>1, IntervalSize DEF Boundaries
    <3> HIDE DEF B
    <3> QED BY <3>1, FS_Subset
  <2>6. {1 + b : b \in B} = {from + p : p \in P}
    <3>1. ASSUME NEW b \in B PROVE 1 + b \in {from + p : p \in P}
      <4>1. b \in 0..Len(s) /\ from <= b /\ b < o /\ s[b + 1] # "cont"
        BY <2>1, BoundaryFacts, SMT DEF Boundaries
      <4> DEFINE p == b + 1 - from
      <4>2. p \in 1..(o - from) /\ from + p = 1 + b /\ from + p = b + 1
        BY <1>1, <2>1, <4>1, SMT
      <4> HIDE DEF p
      <4>3. c[p] # "cont" /\ c[p] \in Bytes
        BY <2>2, <4>1, <4>2
      <4>4. p \in P
        BY <2>2, <4>2, <4>3 DEF Places, Starting
      <4> HIDE DEF P
      <4> QED BY <4>2, <4>4
    <3>2. ASSUME NEW p \in P PROVE from + p \in {1 + b : b \in B}
      <4>1. p \in 1..(o - from) /\ c[p] \in Starting
        BY <2>2 DEF Places
      <4> DEFINE b == from + p - 1
      <4>2. /\ b \in 0..Len(s) /\ from <= b /\ b < o /\ b < Len(s)
            /\ 1 + b = from + p /\ b + 1 = from + p
        BY <1>1, <2>1, <4>1, SMT
      <4> HIDE DEF b
      <4>3. s[b + 1] # "cont"
        BY <2>2, <4>1, <4>2 DEF Starting
      <4>4. b \in B
        BY <4>2, <4>3 DEF Boundaries
      <4> HIDE DEF B
      <4> QED BY <4>2, <4>4
    <3> HIDE DEF B, P
    <3> QED BY <3>1, <3>2
  <2>7. P \in SUBSET Nat
    BY <2>1, <2>2, SMT DEF Places
  <2>8. Cardinality(B) = Cardinality(P)
    <3> HIDE DEF B, P
    <3>0. 1 \in Nat
      BY SMT
    <3>1. Cardinality({1 + b : b \in B}) = Cardinality(B)
      BY <2>5, <3>0, ShiftedSet
    <3>2. Cardinality({from + p : p \in P}) = Cardinality(P)
      BY <2>4, <2>7, ShiftedSet
    <3> QED BY <2>6, <3>1, <3>2
  <2> HIDE DEF B, P, L, c
  <2> QED BY <1>1, <2>3, <2>4, <2>8, SMT DEF B
<1>8. \E o \in Boundaries(s) : o >= from /\ Cardinality(Between(o)) = n
  <2>1. Cardinality(Between(m)) + L(from) = L(from) + n /\ Cardinality(Between(m)) \in Int
    <3>1. IsFiniteSet(0..Len(s)) /\ Between(m) \in SUBSET (0..Len(s))
      BY <1>1, IntervalSize DEF Boundaries
    <3> HIDE DEF Between, L
    <3>2. Cardinality(Between(m)) \in Nat
      BY <3>1, FS_Subset, FS_CardinalityType
    <3> QED BY <1>5, <1>6, <1>7, <3>2
  <2> HIDE DEF Between, L
  <2> QED BY <1>1, <1>5, <1>6, <2>1, SMT
<1> DEFINE a == Advance(s, from, n)
<1>9. a \in Boundaries(s) /\ a >= from /\ Cardinality(Between(a)) = n
  BY <1>8 DEF Advance
<1>10. L(a) = L(from) + n
  <2>1. a \in from..Len(s)
    BY <1>1, <1>9, BoundaryFacts, SMT
  <2> HIDE DEF a, Between, L
  <2>2. L(a) = n + L(from)
    BY <1>7, <1>9, <2>1
  <2> QED BY <1>1, <2>2, SMT
<1> HIDE DEF a
<1> QED BY <1>1, <1>9, <1>10, BoundaryFacts, SMT DEF a

-----------------------------------------------------------------------------
(* The edits of a valid string.                                            *)

ValidStrings == {s \in Strings : ValidUtf8(s)}

LEMMA ValidFacts ==
    ASSUME NEW s \in ValidStrings
    PROVE  /\ s \in Strings /\ ValidUtf8(s) /\ Len(s) \in Nat
           /\ 0 \in Boundaries(s) /\ Len(s) \in Boundaries(s)
           /\ Letters(s) \in Nat /\ Len(s) <= 2 * Letters(s)
           /\ CharacterCount(s) = Letters(s)
           /\ \A o \in Boundaries(s) : o \in Nat /\ o <= Len(s)
<1>1. s \in Strings /\ ValidUtf8(s)
  BY DEF ValidStrings
<1> QED BY <1>1, StringFacts, BoundaryFacts, BytesOfLetters, LettersAreCharacters

LEMMA ValidJoin ==
    ASSUME NEW s \in ValidStrings, NEW t \in ValidStrings
    PROVE  /\ s \o t \in ValidStrings /\ Len(s \o t) = Len(s) + Len(t)
           /\ Letters(s \o t) = Letters(s) + Letters(t)
<1>1. s \in Strings /\ ValidUtf8(s) /\ t \in Strings /\ ValidUtf8(t)
  BY DEF ValidStrings
<1> QED BY <1>1, Joined, ValidJoined, CountJoined DEF ValidStrings, Letters

LEMMA ValidPart ==
    ASSUME NEW s \in ValidStrings,
           NEW from \in Boundaries(s), NEW to \in Boundaries(s), from <= to
    PROVE  Chunk(s, from, to) \in ValidStrings /\ Len(Chunk(s, from, to)) = to - from
  BY ValidFacts, ValidChunk DEF ValidStrings

\* A byte that is a character of its own, and a character of two bytes.
LEMMA ValidCharacters ==
    /\ \A b \in Bytes \ {"lead", "cont"} :
          <<b>> \in ValidStrings /\ Len(<<b>>) = 1 /\ Letters(<<b>>) = 1
    /\ \A c \in GeneratedCharacters :
          c \in ValidStrings /\ Len(c) <= 2 /\ Len(c) \in Nat /\ Letters(c) = 1
<1>1. ASSUME NEW b \in Bytes \ {"lead", "cont"}
      PROVE  <<b>> \in ValidStrings /\ Len(<<b>>) = 1 /\ Letters(<<b>>) = 1
  <2>1. <<b>> \in Strings /\ Letters(<<b>>) = 1
    BY CountSingle DEF Letters, Starting
  <2>2. Len(<<b>>) = 1 /\ <<b>>[1] = b
    OBVIOUS
  <2>3. \A p \in 1..Len(<<b>>) : <<b>>[p] = b
    BY <2>2, SMT
  <2>4. ValidUtf8(<<b>>)
    BY <2>3 DEF ValidUtf8
  <2> QED BY <2>1, <2>2, <2>4 DEF ValidStrings
<1>2. <<"lead", "cont">> \in ValidStrings /\ Len(<<"lead", "cont">>) = 2
      /\ Letters(<<"lead", "cont">>) = 1
  <2> DEFINE s == <<"lead", "cont">>
  <2>1. "lead" \in Bytes /\ "cont" \in Bytes /\ "lead" # "cont"
    BY DEF Bytes
  <2> DEFINE l == <<"lead">>
             c == <<"cont">>
  <2>2. s = l \o c
    OBVIOUS
  <2>3. l \in Strings /\ Letters(l) = 1 /\ c \in Strings /\ Letters(c) = 0
    BY <2>1, CountSingle DEF Letters, Starting
  <2> HIDE DEF l, c
  <2>4. s \in Strings /\ Letters(s) = 1 + 0
    <3>1. l \o c \in Strings /\ Letters(l \o c) = Letters(l) + Letters(c)
      BY <2>3, Joined, CountJoined DEF Letters
    <3> HIDE DEF s
    <3> QED BY <2>2, <2>3, <3>1
  <2>5. Len(s) = 2 /\ s[1] = "lead" /\ s[2] = "cont"
    OBVIOUS
  <2> HIDE DEF s
  <2>6. \A p \in 1..Len(s) : p = 1 \/ p = 2
    BY <2>5, SMT
  <2>7. 1 < Len(s) /\ 1 + 1 = 2 /\ 2 > 1 /\ 2 - 1 = 1
    BY <2>5, SMT
  <2>8. ValidUtf8(s)
    BY <2>1, <2>5, <2>6, <2>7 DEF ValidUtf8
  <2>9. Letters(s) = 1
    BY <2>4, SMT
  <2> QED BY <2>4, <2>5, <2>8, <2>9 DEF ValidStrings, s
<1>3. {"A", "a"} \subseteq Bytes \ {"lead", "cont"}
  BY DEF Bytes, Uppercase, Lowercase
<1>4. ASSUME NEW c \in GeneratedCharacters
      PROVE  c \in ValidStrings /\ Len(c) <= 2 /\ Len(c) \in Nat /\ Letters(c) = 1
  <2>1. c \in {<<"A">>, <<"a">>, <<"lead", "cont">>}
    BY DEF GeneratedCharacters
  <2>2. c \in ValidStrings /\ Letters(c) = 1 /\ (Len(c) = 1 \/ Len(c) = 2)
    BY <1>1, <1>2, <1>3, <2>1
  <2> QED BY <2>2, SMT
<1> QED BY <1>1, <1>4

\* A block of a valid string is cut between characters, separators being
\* characters of their own.
LEMMA BlockFacts ==
    ASSUME NEW s \in ValidStrings,
           NEW from \in Boundaries(s), NEW to \in Boundaries(s), from <= to,
           NEW b \in RandomBlocks(s, from, to)
    PROVE  /\ b.start \in Boundaries(s) /\ b.end \in Boundaries(s)
           /\ from <= b.start /\ b.start <= b.end /\ b.end <= to
<1>1. /\ Len(s) \in Nat /\ s \in Strings /\ ValidUtf8(s)
      /\ \A o \in Boundaries(s) : o \in Nat /\ o <= Len(s)
  BY ValidFacts
<1>2. from \in Nat /\ to \in Nat /\ from <= Len(s) /\ to <= Len(s)
  BY <1>1
<1> DEFINE found == SeparatorsFound(s, from, to)
<1>3. CASE from = Len(s)
  <2>1. b = [start |-> from, end |-> from]
    BY <1>3 DEF RandomBlocks
  <2> QED BY <1>2, <1>3, <2>1, SMT
<1>4. CASE from < Len(s) /\ from # Len(s) /\ found = {}
  <2>1. b \in BlocksAnywhere(s, from, to)
    BY <1>4 DEF RandomBlocks
  <2> QED BY <2>1 DEF BlocksAnywhere
<1>5. CASE from < Len(s) /\ from # Len(s) /\ found # {}
  <2>1. PICK c \in found : b \in BlocksBetween(s, from, to, c)
    BY <1>5 DEF RandomBlocks
  <2>2. c # "lead" /\ c # "cont"
    BY SeparatorsAssumption DEF SeparatorsFound
  <2> DEFINE after == {o + 1 : o \in {p \in from..(to - 1) : s[p + 1] = c}}
  <2>3. b.start \in after /\ b.end \in after \union {to} /\ (b.start < b.end \/ b.end = to)
    BY <2>1 DEF BlocksBetween
  <2>4. ASSUME NEW a \in after
        PROVE  a \in Boundaries(s) /\ from <= a /\ a <= to
    <3>1. PICK o \in from..(to - 1) : s[o + 1] = c /\ a = o + 1
      OBVIOUS
    <3>2. a \in 1..Len(s) /\ from <= a /\ a <= to /\ s[a] = c
      BY <1>1, <1>2, <3>1, SMT
    <3>3. ASSUME a < Len(s) PROVE s[a + 1] # "cont"
      <4>1. a + 1 \in 1..Len(s) /\ (a + 1) - 1 = a
        BY <1>1, <3>2, <3>3, SMT
      <4> QED BY <1>1, <2>2, <3>2, <4>1 DEF ValidUtf8
    <3>4. a \in Boundaries(s)
      BY <1>1, <3>2, <3>3, SMT DEF Boundaries
    <3> QED BY <3>2, <3>4
  <2> HIDE DEF after
  <2>5. b.start \in Boundaries(s) /\ from <= b.start /\ b.start <= to /\ b.start \in Nat
    BY <1>1, <2>3, <2>4
  <2>6. b.end \in Boundaries(s) /\ b.end <= to /\ b.end \in Nat
    <3>1. to <= to
      BY <1>2, SMT
    <3> QED BY <1>1, <1>2, <2>3, <2>4, <3>1
  <2> QED BY <2>3, <2>5, <2>6, SMT
<1>6. from = Len(s) \/ (from < Len(s) /\ from # Len(s))
  BY <1>1, <1>2, SMT
<1> QED BY <1>3, <1>4, <1>5, <1>6

\* Deleting, overwriting and cloning a block, and swapping two that do not overlap,
\* leave a valid string as long as the code accounts for.
LEMMA DeletedIsValid ==
    ASSUME NEW s \in ValidStrings, NEW m \in Boundaries(s), NEW n \in Boundaries(s), m <= n
    PROVE  /\ Chunk(s, 0, m) \o Chunk(s, n, Len(s)) \in ValidStrings
           /\ Len(Chunk(s, 0, m) \o Chunk(s, n, Len(s))) = Len(s) - (n - m)
<1>1. /\ 0 \in Boundaries(s) /\ Len(s) \in Boundaries(s) /\ Len(s) \in Nat
      /\ m \in Nat /\ n \in Nat /\ 0 <= m /\ n <= Len(s)
  BY ValidFacts, SMT
<1> DEFINE a == Chunk(s, 0, m)
           b == Chunk(s, n, Len(s))
<1>2. a \in ValidStrings /\ Len(a) = m - 0 /\ b \in ValidStrings /\ Len(b) = Len(s) - n
  BY <1>1, ValidPart
<1> HIDE DEF a, b
<1>3. a \o b \in ValidStrings /\ Len(a \o b) = Len(a) + Len(b)
  BY <1>2, ValidJoin
<1>4. Len(a \o b) = Len(s) - (n - m)
  BY <1>1, <1>2, <1>3, SMT
<1> QED BY <1>3, <1>4 DEF a, b

LEMMA ClonedIsValid ==
    ASSUME NEW s \in ValidStrings, NEW m \in Boundaries(s), NEW n \in Boundaries(s), m <= n
    PROVE  /\ Chunk(s, 0, n) \o Chunk(s, m, n) \o Chunk(s, n, Len(s)) \in ValidStrings
           /\ Len(Chunk(s, 0, n) \o Chunk(s, m, n) \o Chunk(s, n, Len(s)))
                 = Len(s) + (n - m)
<1>1. /\ 0 \in Boundaries(s) /\ Len(s) \in Boundaries(s) /\ Len(s) \in Nat
      /\ m \in Nat /\ n \in Nat /\ 0 <= n /\ n <= Len(s)
  BY ValidFacts, SMT
<1> DEFINE a == Chunk(s, 0, n)
           b == Chunk(s, m, n)
           c == Chunk(s, n, Len(s))
<1>2. /\ a \in ValidStrings /\ Len(a) = n - 0 /\ b \in ValidStrings /\ Len(b) = n - m
      /\ c \in ValidStrings /\ Len(c) = Len(s) - n
  BY <1>1, ValidPart
<1> HIDE DEF a, b, c
<1>3. a \o b \in ValidStrings /\ Len(a \o b) = Len(a) + Len(b)
  BY <1>2, ValidJoin
<1>4. (a \o b) \o c \in ValidStrings /\ Len((a \o b) \o c) = Len(a \o b) + Len(c)
  BY <1>2, <1>3, ValidJoin
<1>5. Len((a \o b) \o c) = Len(s) + (n - m)
  BY <1>1, <1>2, <1>3, <1>4, SMT
<1> QED BY <1>4, <1>5 DEF a, b, c

LEMMA OverwrittenIsValid ==
    ASSUME NEW s \in ValidStrings, NEW m \in Boundaries(s), NEW n \in Boundaries(s)
    PROVE  /\ [p \in 1..Len(s) |-> IF m < p /\ p <= n THEN "a" ELSE s[p]] \in ValidStrings
           /\ Len([p \in 1..Len(s) |-> IF m < p /\ p <= n THEN "a" ELSE s[p]]) = Len(s)
<1> DEFINE t == [p \in 1..Len(s) |-> IF m < p /\ p <= n THEN "a" ELSE s[p]]
<1>1. /\ s \in Strings /\ ValidUtf8(s) /\ Len(s) \in Nat /\ m \in Nat /\ n \in Nat
      /\ \A p \in 1..Len(s) : s[p] \in Bytes
      /\ m < Len(s) => s[m + 1] # "cont"
      /\ n < Len(s) => s[n + 1] # "cont"
  BY ValidFacts, BoundaryFacts, StringFacts
<1>2. "a" \in Bytes /\ "a" # "lead" /\ "a" # "cont"
  BY DEF Bytes, Lowercase
<1>3. t \in Strings /\ Len(t) = Len(s)
  BY <1>1, <1>2, SMT DEF Strings
<1>4. /\ \A p \in 1..Len(s) : m < p /\ p <= n => t[p] = "a"
      /\ \A p \in 1..Len(s) : ~(m < p /\ p <= n) => t[p] = s[p]
  OBVIOUS
<1> HIDE DEF t
<1>5. ASSUME NEW p \in 1..Len(s), t[p] = "lead" PROVE p < Len(s) /\ t[p + 1] = "cont"
  <2>1. ~(m < p /\ p <= n) /\ s[p] = "lead"
    BY <1>2, <1>4, <1>5
  <2>2. p < Len(s) /\ s[p + 1] = "cont"
    BY <1>1, <2>1 DEF ValidUtf8
  <2>3. p + 1 \in 1..Len(s)
    BY <1>1, <2>2, SMT
  <2>4. ~(m < p + 1 /\ p + 1 <= n)
    BY <1>1, <2>1, <2>2, SMT
  <2> QED BY <1>4, <2>2, <2>3, <2>4
<1>6. ASSUME NEW p \in 1..Len(s), t[p] = "cont" PROVE p > 1 /\ t[p - 1] = "lead"
  <2>1. ~(m < p /\ p <= n) /\ s[p] = "cont"
    BY <1>2, <1>4, <1>6
  <2>2. p > 1 /\ s[p - 1] = "lead"
    BY <1>1, <2>1 DEF ValidUtf8
  <2>3. p - 1 \in 1..Len(s) /\ (p - 1) + 1 = p
    BY <1>1, <2>2, SMT
  <2>4. n # p - 1
    <3> SUFFICES ASSUME n = p - 1 PROVE FALSE
      OBVIOUS
    <3>1. n < Len(s) /\ n + 1 = p
      BY <1>1, SMT
    <3> QED BY <1>1, <2>1, <3>1
  <2>5. ~(m < p - 1 /\ p - 1 <= n)
    BY <1>1, <2>1, <2>4, SMT
  <2> QED BY <1>4, <2>2, <2>3, <2>5
<1>7. ValidUtf8(t)
  BY <1>3, <1>5, <1>6 DEF ValidUtf8
<1> QED BY <1>3, <1>7 DEF ValidStrings, t

LEMMA FiveChunks ==
    ASSUME NEW s \in ValidStrings,
           NEW k \in Boundaries(s), NEW l \in Boundaries(s),
           NEW m \in Boundaries(s), NEW n \in Boundaries(s),
           k <= l, l <= m, m <= n
    PROVE  s = Chunk(s, 0, k) \o Chunk(s, k, l) \o Chunk(s, l, m)
                   \o Chunk(s, m, n) \o Chunk(s, n, Len(s))
<1>1. /\ s \in Strings /\ Len(s) \in Nat
      /\ k \in Nat /\ l \in Nat /\ m \in Nat /\ n \in Nat
      /\ k <= Len(s) /\ l <= Len(s) /\ m <= Len(s) /\ n <= Len(s)
  BY ValidFacts
<1>2. ASSUME NEW o \in Nat, NEW q \in Nat, o <= q, q <= Len(s)
      PROVE  Chunk(s, 0, q) = Chunk(s, 0, o) \o Chunk(s, o, q)
  <2>1. 0 \in Nat /\ 0 <= o
    BY SMT
  <2> QED BY <1>1, <1>2, <2>1, CutChunk
<1>3. Len(s) <= Len(s)
  BY <1>1, SMT
<1>4. Chunk(s, 0, l) = Chunk(s, 0, k) \o Chunk(s, k, l)
  BY <1>1, <1>2
<1>5. Chunk(s, 0, m) = Chunk(s, 0, l) \o Chunk(s, l, m)
  BY <1>1, <1>2
<1>6. Chunk(s, 0, n) = Chunk(s, 0, m) \o Chunk(s, m, n)
  BY <1>1, <1>2
<1>7. Chunk(s, 0, Len(s)) = Chunk(s, 0, n) \o Chunk(s, n, Len(s))
  BY <1>1, <1>2, <1>3
<1>8. Chunk(s, 0, Len(s)) = s
  BY <1>1, WholeChunk
<1> QED BY <1>4, <1>5, <1>6, <1>7, <1>8

\* The five parts of the swapped string are those of the literal.
Swapped(s, k, l, m, n) ==
    Chunk(s, 0, k) \o Chunk(s, m, n) \o Chunk(s, l, m) \o Chunk(s, k, l)
        \o Chunk(s, n, Len(s))

LEMMA SwappedIsValid ==
    ASSUME NEW s \in ValidStrings,
           NEW k \in Boundaries(s), NEW l \in Boundaries(s),
           NEW m \in Boundaries(s), NEW n \in Boundaries(s),
           k <= l, l <= m, m <= n
    PROVE  /\ Swapped(s, k, l, m, n) \in ValidStrings
           /\ Len(Swapped(s, k, l, m, n)) = Len(s)
           /\ \A B : Count(Swapped(s, k, l, m, n), B) = Count(s, B)
<1> DEFINE t == Swapped(s, k, l, m, n)
<1>1. /\ 0 \in Boundaries(s) /\ Len(s) \in Boundaries(s) /\ Len(s) \in Nat
      /\ k \in Nat /\ l \in Nat /\ m \in Nat /\ n \in Nat /\ 0 <= k /\ n <= Len(s)
      /\ s \in Strings
  BY ValidFacts, SMT
<1> DEFINE a == Chunk(s, 0, k)
           b == Chunk(s, k, l)
           c == Chunk(s, l, m)
           d == Chunk(s, m, n)
           e == Chunk(s, n, Len(s))
<1>2. /\ a \in ValidStrings /\ Len(a) = k - 0 /\ b \in ValidStrings /\ Len(b) = l - k
      /\ c \in ValidStrings /\ Len(c) = m - l /\ d \in ValidStrings /\ Len(d) = n - m
      /\ e \in ValidStrings /\ Len(e) = Len(s) - n
  BY <1>1, ValidPart
<1> DEFINE ab == a \o b
           abc == ab \o c
           abcd == abc \o d
           ad == a \o d
           adc == ad \o c
           adcb == adc \o b
<1>3. s = abcd \o e
  BY FiveChunks
<1>4. t = adcb \o e
  BY DEF Swapped
<1> HIDE DEF a, b, c, d, e, t
<1>5. ab \in ValidStrings /\ ad \in ValidStrings /\ Len(ad) = Len(a) + Len(d)
  BY <1>2, ValidJoin
<1> HIDE DEF ab, ad
<1>6. abc \in ValidStrings /\ adc \in ValidStrings /\ Len(adc) = Len(ad) + Len(c)
  BY <1>2, <1>5, ValidJoin
<1> HIDE DEF abc, adc
<1>7. abcd \in ValidStrings /\ adcb \in ValidStrings /\ Len(adcb) = Len(adc) + Len(b)
  BY <1>2, <1>6, ValidJoin
<1> HIDE DEF abcd, adcb
<1>8. t \in ValidStrings /\ Len(t) = Len(adcb) + Len(e)
  <2>1. adcb \o e \in ValidStrings /\ Len(adcb \o e) = Len(adcb) + Len(e)
    BY <1>2, <1>7, ValidJoin
  <2> QED BY <1>4, <2>1
<1>9. Len(t) = Len(s)
  <2>1. /\ Len(a) = k - 0 /\ Len(b) = l - k /\ Len(c) = m - l /\ Len(d) = n - m
        /\ Len(e) = Len(s) - n
        /\ Len(s) \in Nat /\ k \in Nat /\ l \in Nat /\ m \in Nat /\ n \in Nat
    BY <1>1, <1>2
  <2> QED BY <1>5, <1>6, <1>7, <1>8, <2>1, SMT
<1>10. ASSUME NEW B PROVE Count(t, B) = Count(s, B)
  <2>1. \A u, v \in ValidStrings :
           Count(u \o v, B) = Count(u, B) + Count(v, B) /\ Count(u, B) \in Nat
    BY CountJoined, PlacesFinite DEF ValidStrings
  <2>2. /\ Count(ab, B) = Count(a, B) + Count(b, B)
        /\ Count(ad, B) = Count(a, B) + Count(d, B)
    BY <1>2, <2>1 DEF ab, ad
  <2>3. /\ Count(abc, B) = Count(ab, B) + Count(c, B)
        /\ Count(adc, B) = Count(ad, B) + Count(c, B)
    BY <1>2, <1>5, <2>1 DEF abc, adc
  <2>4. /\ Count(abcd, B) = Count(abc, B) + Count(d, B)
        /\ Count(adcb, B) = Count(adc, B) + Count(b, B)
    BY <1>2, <1>6, <2>1 DEF abcd, adcb
  <2>5. Count(abcd \o e, B) = Count(abcd, B) + Count(e, B)
    BY <1>2, <1>7, <2>1
  <2>6. Count(adcb \o e, B) = Count(adcb, B) + Count(e, B)
    BY <1>2, <1>7, <2>1
  <2>7. /\ Count(a, B) \in Nat /\ Count(b, B) \in Nat /\ Count(c, B) \in Nat
        /\ Count(d, B) \in Nat /\ Count(e, B) \in Nat
    BY <1>2, <2>1
  <2>8. Count(adcb, B) + Count(e, B) = Count(abcd, B) + Count(e, B)
    BY <2>2, <2>3, <2>4, <2>7, SMT
  <2> QED BY <1>3, <1>4, <2>5, <2>6, <2>8
<1> QED BY <1>8, <1>9, <1>10 DEF t

\* Copying the letters up to the next that changes, then writing one in its place.
LEMMA CopiedLetters ==
    ASSUME NEW s \in ValidStrings, NEW w \in ValidStrings, NEW from \in Boundaries(s),
           NEW o \in Nat, NEW j \in Nat, o <= j, j <= Letters(s),
           Letters(Chunk(s, 0, from)) = o, Letters(w) = o,
           NEW next, next = Advance(s, from, j - o)
    PROVE  /\ next \in Boundaries(s) /\ from <= next
           /\ Letters(Chunk(s, 0, next)) = j
           /\ w \o Chunk(s, from, next) \in ValidStrings
           /\ Letters(w \o Chunk(s, from, next)) = j
           /\ Len(w \o Chunk(s, from, next)) = Len(w) + (next - from)
<1>1. /\ s \in Strings /\ from \in Nat /\ from <= Len(s)
      /\ \A b \in Boundaries(s) : b \in Nat /\ b <= Len(s)
  BY ValidFacts
<1>2. j - o \in Nat /\ o + (j - o) = j
  BY SMT
<1>3. /\ next \in Boundaries(s) /\ from <= next
      /\ Letters(Chunk(s, 0, next)) = j
  BY <1>1, <1>2, AdvanceFacts
<1>4. next \in Nat /\ next <= Len(s)
  BY <1>1, <1>3
<1> DEFINE c == Chunk(s, from, next)
<1>5. c \in ValidStrings /\ Len(c) = next - from
  BY <1>3, ValidPart
<1>6. Letters(c) \in Nat /\ j = o + Letters(c)
  BY <1>1, <1>3, <1>4, LettersSplit
<1> HIDE DEF c
<1>7. /\ w \o c \in ValidStrings /\ Len(w \o c) = Len(w) + Len(c)
      /\ Letters(w \o c) = Letters(w) + Letters(c)
  BY <1>5, ValidJoin
<1> QED BY <1>3, <1>5, <1>6, <1>7 DEF c

LEMMA WrittenLetter ==
    ASSUME NEW s \in ValidStrings, NEW u \in ValidStrings, NEW next \in Boundaries(s),
           NEW j \in Nat, j < Letters(s),
           Letters(Chunk(s, 0, next)) = j, Letters(u) = j,
           NEW c \in ValidStrings, Letters(c) = 1,
           NEW after, after = Advance(s, next, 1)
    PROVE  /\ after \in Boundaries(s) /\ Letters(Chunk(s, 0, after)) = j + 1
           /\ u \o c \in ValidStrings /\ Letters(u \o c) = j + 1
           /\ Len(u \o c) = Len(u) + Len(c)
           /\ next \in Nat /\ next + 1 <= after
<1>1. /\ s \in Strings /\ Letters(s) \in Nat
      /\ \A b \in Boundaries(s) : b \in Nat /\ b <= Len(s)
  BY ValidFacts
<1>2. j + 1 <= Letters(s) /\ j # j + 1 /\ 1 \in Nat
  BY <1>1, SMT
<1>3. next \in Nat /\ next <= Len(s)
  BY <1>1
<1>4. after \in Boundaries(s) /\ next <= after /\ Letters(Chunk(s, 0, after)) = j + 1
  BY <1>1, <1>2, <1>3, AdvanceFacts
<1>5. next # after /\ after \in Nat
  BY <1>1, <1>2, <1>4
<1>6. /\ u \o c \in ValidStrings /\ Len(u \o c) = Len(u) + Len(c)
      /\ Letters(u \o c) = Letters(u) + Letters(c)
  BY ValidJoin
<1>7. next + 1 <= after
  BY <1>3, <1>4, <1>5, SMT
<1> QED BY <1>3, <1>4, <1>6, <1>7

\* A byte whose case is changed is still a byte, and starts and continues the same
\* characters.
LEMMA SwapCaseFacts ==
    ASSUME NEW b \in Bytes
    PROVE  /\ SwapCase(b) \in Bytes
           /\ SwapCase(SwapCase(b)) = b \/ SwapCase(SwapCase(b)) = SwapCase(b)
           /\ SwapCase(b) = "lead" <=> b = "lead"
           /\ SwapCase(b) = "cont" <=> b = "cont"
<1>1. "A" \in Bytes /\ "a" \in Bytes /\ "A" # "a"
      /\ "A" # "lead" /\ "A" # "cont" /\ "a" # "lead" /\ "a" # "cont"
  BY DEF Bytes, Uppercase, Lowercase
<1>2. SwapCase("A") = "a" /\ SwapCase("a") = "A"
  BY <1>1 DEF SwapCase, Uppercase, Lowercase
<1>3. b # "A" /\ b # "a" => SwapCase(b) = b
  BY DEF SwapCase, Uppercase, Lowercase
<1> QED BY <1>1, <1>2, <1>3

LEMMA CaseChangedIsValid ==
    ASSUME NEW s \in ValidStrings, NEW w \in Strings, Len(w) = Len(s),
           \A p \in 1..Len(s) : w[p] \in {s[p], SwapCase(s[p])}
    PROVE  w \in ValidStrings
<1>1. /\ s \in Strings /\ ValidUtf8(s) /\ Len(s) \in Nat
      /\ \A p \in 1..Len(s) : s[p] \in Bytes
  BY ValidFacts, StringFacts
<1>2. ASSUME NEW p \in 1..Len(s)
      PROVE  (w[p] = "lead" <=> s[p] = "lead") /\ (w[p] = "cont" <=> s[p] = "cont")
  BY <1>1, SwapCaseFacts
<1>3. ASSUME NEW p \in 1..Len(s), w[p] = "lead" PROVE p < Len(s) /\ w[p + 1] = "cont"
  <2>1. p < Len(s) /\ s[p + 1] = "cont"
    BY <1>1, <1>2, <1>3 DEF ValidUtf8
  <2>2. p + 1 \in 1..Len(s)
    BY <1>1, <2>1, SMT
  <2> QED BY <1>2, <2>1, <2>2
<1>4. ASSUME NEW p \in 1..Len(s), w[p] = "cont" PROVE p > 1 /\ w[p - 1] = "lead"
  <2>1. p > 1 /\ s[p - 1] = "lead"
    BY <1>1, <1>2, <1>4 DEF ValidUtf8
  <2>2. p - 1 \in 1..Len(s)
    BY <1>1, <2>1, SMT
  <2> QED BY <1>2, <2>1, <2>2
<1> QED BY <1>3, <1>4 DEF ValidStrings, ValidUtf8

\* A run of one character is a valid string; whitespace is.
LEMMA RunIsValid ==
    ASSUME NEW b \in Bytes \ {"lead", "cont"}, NEW n \in Nat
    PROVE  [p \in 1..n |-> b] \in ValidStrings /\ Len([p \in 1..n |-> b]) = n
<1> DEFINE s == [p \in 1..n |-> b]
<1>1. s \in Strings /\ Len(s) = n
  BY SMT DEF Strings
<1>2. \A p \in 1..n : s[p] = b
  OBVIOUS
<1> HIDE DEF s
<1>3. ValidUtf8(s)
  BY <1>1, <1>2 DEF ValidUtf8
<1> QED BY <1>1, <1>3 DEF ValidStrings, s

LEMMA SpacesAreValid ==
    ASSUME NEW n \in Nat
    PROVE  [p \in 1..n |-> " "] \in ValidStrings /\ Len([p \in 1..n |-> " "]) = n
<1>1. " " \in Bytes \ {"lead", "cont"}
  BY DEF Bytes, Whitespace
<1> QED BY <1>1, RunIsValid

\* An object path with a digit appended is one.
LEMMA AppendedIsPath ==
    ASSUME NEW s \in Strings, ValidObjectPath(s), NEW d \in Digits
    PROVE  ValidObjectPath(s \o <<d>>)
<1> DEFINE t == s \o <<d>>
           Names == {"/"} \union Uppercase \union Lowercase \union Digits
<1>1. Len(s) \in Nat /\ Len(s) > 0 /\ s[1] = "/"
  <2>1. s # <<>> /\ s[1] = "/"
    BY DEF ValidObjectPath
  <2>2. Len(s) \in Nat \ {0}
    BY <2>1, EmptySeq DEF Strings
  <2> QED BY <2>1, <2>2, SMT
<1>2. <<d>> \in Strings /\ Len(<<d>>) = 1 /\ <<d>>[1] = d
  BY DEF Strings, Bytes
<1>3. d \in Names /\ d # "/"
  BY DEF Digits
<1>4. /\ t \in Strings /\ Len(t) = Len(s) + 1
      /\ \A p \in 1..Len(s) : t[p] = s[p]
      /\ t[Len(s) + 1] = d
  <2>1. /\ t \in Strings /\ Len(t) = Len(s) + Len(<<d>>)
        /\ \A p \in 1..Len(s) : t[p] = s[p]
        /\ \A p \in 1..Len(<<d>>) : t[Len(s) + p] = <<d>>[p]
    BY <1>2, Joined
  <2>2. 1 \in 1..1
    BY SMT
  <2> QED BY <1>2, <2>1, <2>2
<1>5. \A p \in 1..Len(s) : /\ s[p] \in Names
                           /\ s[p] = "/" => Len(s) = 1 \/ (p < Len(s) /\ s[p + 1] # "/")
  BY DEF ValidObjectPath
<1> HIDE DEF t, Names
<1>6. ASSUME NEW p \in 1..Len(t)
      PROVE  /\ t[p] \in Names
             /\ t[p] = "/" => Len(t) = 1 \/ (p < Len(t) /\ t[p + 1] # "/")
  <2>1. CASE p < Len(s)
    <3>1. p \in 1..Len(s) /\ p + 1 \in 1..Len(s) /\ p < Len(t) /\ Len(s) # 1
      BY <1>1, <1>4, <2>1, SMT
    <3> QED BY <1>4, <1>5, <3>1
  <2>2. CASE p = Len(s)
    <3>1. p \in 1..Len(s) /\ p < Len(t)
      BY <1>1, <1>4, <2>2, SMT
    <3> QED BY <1>3, <1>4, <1>5, <2>2, <3>1
  <2>3. CASE p = Len(s) + 1
    BY <1>3, <1>4, <2>3
  <2>4. p < Len(s) \/ p = Len(s) \/ p = Len(s) + 1
    BY <1>1, <1>4, SMT
  <2> QED BY <2>1, <2>2, <2>3, <2>4
<1>7. t # <<>> /\ t[1] = "/"
  <2>1. 1 \in 1..Len(s) /\ Len(t) > 0
    BY <1>1, <1>4, SMT
  <2>2. t # <<>>
    BY <1>1, <1>4, <2>1, SMT
  <2> QED BY <1>1, <1>4, <2>1, <2>2
<1> QED BY <1>6, <1>7 DEF ValidObjectPath, t, Names

-----------------------------------------------------------------------------
(* What fuzz_string () has written at each point.                          *)

\* Nothing was written yet.
Untouched ==
    /\ edit = "none" /\ i = 0 /\ old_i = 0 /\ source = 0
    /\ buffer = <<>> /\ alloc = 0 /\ length = 0

\* There is room for the characters left to generate.
Generating ==
    /\ literal.type = "string"
    /\ edit = "generate" /\ draw.menu = "character"
    /\ i \in Nat /\ i > 0
    /\ buffer \in ValidStrings
    /\ alloc \in Nat /\ Len(buffer) + 2 * i < alloc

\* Each byte is that of the literal, or the same letter in the other case.
ChangingCase ==
    /\ literal.type = "string"
    /\ edit = "case"
    /\ i \in Nat
    /\ buffer \in Strings /\ Len(buffer) = Len(Default)
    /\ \A p \in 1..Len(Default) : buffer[p] \in {Default[p], SwapCase(Default[p])}
    /\ length = Len(Default) /\ alloc = Len(Default) + 1

\* As many letters were written as the literal has before the source pointer, which
\* is between characters and no further than the next letter to change.
WalkingLetters ==
    /\ literal.type = "string"
    /\ old_i \in Nat /\ i \in Nat /\ old_i <= i /\ i <= CharacterCount(Default)
    /\ source \in Boundaries(Default)
    /\ Letters(Chunk(Default, 0, source)) = old_i
    /\ buffer \in ValidStrings /\ Letters(buffer) = old_i
    /\ \/ edit = "replace" /\ alloc = 2 * CharacterCount(Default) + 1
       \/ edit = "separate" /\ alloc = Len(Default) + 1 /\ Len(buffer) <= source

DrawsFrom ==
    \/ Untouched /\ draw.menu = MenuOf(literal.type)
    \/ Generating
    \/ /\ WalkingLetters /\ edit = "replace" /\ draw.menu = "character"
       /\ i < CharacterCount(Default)

\* The string is complete and valid, and as long as it is accounted for.
Written ==
    /\ literal.type = "string"
    /\ buffer \in ValidStrings /\ length = Len(buffer)

TextInv ==
    /\ literal \in Literals
    /\ pc \in {"evaluate", "draw", "edit", "whitespace", "returned", "aborted"}
    /\ pc = "evaluate" => Untouched
    /\ pc = "draw" => DrawsFrom
    /\ pc = "edit" => ChangingCase \/ WalkingLetters
    /\ pc = "whitespace" => Written
    /\ BufferIsBigEnough /\ StringsAreWhole /\ EditsLoseNothing

LEMMA LiteralFacts ==
    ASSUME literal \in Literals
    PROVE  /\ MenuOf(literal.type) \in {"integer", "boolean", "path", "string"}
           /\ MenuOf(literal.type) = "string" => literal.type = "string"
           /\ MenuOf(literal.type) = "path" => literal.type = "path"
           /\ literal.type = "string" => Default \in ValidStrings
           /\ literal.type = "path" => Default \in Strings /\ ValidObjectPath(Default)
<1> DEFINE t == literal.type
<1>1. /\ t \in IntegerTypes \union {"boolean", "string", "path"}
      /\ t = "string" => Default \in Seq(Bytes) /\ ValidUtf8(Default)
      /\ t = "path" => Default \in Seq(Bytes) /\ ValidObjectPath(Default)
  BY LiteralsAssumption DEF Default
<1> HIDE DEF t
<1>2. /\ "boolean" \notin IntegerTypes /\ "string" \notin IntegerTypes
      /\ "path" \notin IntegerTypes
  BY DEF IntegerTypes, SignedTypes, UnsignedTypes
<1>3. t \in IntegerTypes => MenuOf(t) = "integer"
  BY <1>2 DEF MenuOf
<1>4. MenuOf("boolean") = "boolean" /\ MenuOf("path") = "path"
  BY <1>2 DEF MenuOf
<1>5. MenuOf("string") = "string"
  BY <1>2 DEF MenuOf
<1>6. MenuOf(t) \in {"integer", "boolean", "path", "string"}
      /\ (MenuOf(t) = "string" => t = "string") /\ (MenuOf(t) = "path" => t = "path")
  BY <1>1, <1>3, <1>4, <1>5
<1> QED BY <1>1, <1>6 DEF t, Strings, ValidStrings

\* Where a step leads, and what is left to show of it.
LEMMA ToDraw ==
    ASSUME literal' \in Literals, pc' = "draw", DrawsFrom', BufferIsBigEnough'
    PROVE  TextInv'
  BY DEF TextInv, StringsAreWhole, EditsLoseNothing

LEMMA ToEdit ==
    ASSUME literal' \in Literals, pc' = "edit", ChangingCase' \/ WalkingLetters',
           BufferIsBigEnough'
    PROVE  TextInv'
  BY DEF TextInv, StringsAreWhole, EditsLoseNothing

LEMMA ToWhitespace ==
    ASSUME literal' \in Literals, pc' = "whitespace", Written', BufferIsBigEnough',
           EditsLoseNothing'
    PROVE  TextInv'
  BY DEF TextInv, StringsAreWhole

LEMMA ToReturned ==
    ASSUME literal' \in Literals, pc' = "returned", BufferIsBigEnough'
    PROVE  TextInv'
  BY DEF TextInv, StringsAreWhole, EditsLoseNothing

LEMMA ToAborted ==
    ASSUME literal' \in Literals, pc' = "aborted", BufferIsBigEnough', draw'.menu # "none"
    PROVE  TextInv'
  BY DEF TextInv, StringsAreWhole, EditsLoseNothing

\* An edit with no claim of its own on what it keeps.
LEMMA OtherEdit ==
    ASSUME edit' \notin {"swap", "case", "replace", "separate"}
    PROVE  EditsLoseNothing'
  BY DEF EditsLoseNothing

LEMMA SwappedEdit ==
    ASSUME edit' = "swap", \A b \in Bytes : Count(buffer', {b}) = Count(Default', {b})
    PROVE  EditsLoseNothing'
<1>1. ASSUME NEW b \in Bytes
      PROVE  Cardinality({p \in 1..Len(buffer') : buffer'[p] = b})
                = Cardinality({p \in 1..Len(Default') : Default'[p] = b})
  <2>1. Count(buffer', {b}) = Cardinality({p \in 1..Len(buffer') : buffer'[p] = b})
    BY CountOfByte
  <2>2. Count(Default', {b}) = Cardinality({p \in 1..Len(Default') : Default'[p] = b})
    BY CountOfByte
  <2> QED BY <2>1, <2>2
<1> QED BY <1>1 DEF EditsLoseNothing

LEMMA TextInvInit == Init => TextInv
<1> SUFFICES ASSUME Init PROVE TextInv
  OBVIOUS
<1>1. pc = "evaluate" /\ literal \in Literals /\ Untouched
  BY DEF Init, Untouched
<1>2. ~(alloc > 0)
  BY <1>1, SMT DEF Untouched
<1> QED BY <1>1, <1>2 DEF TextInv, BufferIsBigEnough, StringsAreWhole, EditsLoseNothing

\* A draw is about to start, or one of the menu of the literal's type is under way.
LEMMA ScalarDraw ==
    ASSUME TextInv, pc = "draw", draw.menu \in {"integer", "boolean", "path", "string"}
    PROVE  Untouched /\ draw.menu = MenuOf(literal.type)
  BY DEF TextInv, DrawsFrom, Generating

LEMMA CharacterDraw ==
    ASSUME TextInv, pc = "draw", draw.menu = "character"
    PROVE  \/ Generating
           \/ /\ WalkingLetters /\ edit = "replace" /\ draw.menu = "character"
              /\ i < CharacterCount(Default)
  BY LiteralFacts DEF TextInv, DrawsFrom

\* The steps of every scalar.
LEMMA ScalarStep ==
    ASSUME TextInv,
           Unfuzzed \/ Fuzzed \/ NextInterval \/ DrawFails \/ FuzzInteger \/ FuzzBoolean
    PROVE  TextInv'
<1>1. literal \in Literals /\ BufferIsBigEnough
  BY DEF TextInv
<1>2. CASE Unfuzzed
  <2>1. literal' = literal /\ pc' = "returned" /\ buffer' = buffer /\ alloc' = alloc
    BY <1>2 DEF Unfuzzed, Return, text
  <2> QED BY <1>1, <2>1, ToReturned DEF BufferIsBigEnough
<1>3. CASE Fuzzed
  <2>1. /\ literal' = literal /\ pc' = "draw" /\ draw'.menu = MenuOf(literal.type)
        /\ edit' = edit /\ i' = i /\ old_i' = old_i /\ source' = source
        /\ buffer' = buffer /\ alloc' = alloc /\ length' = length
    BY <1>3 DEF Fuzzed, StartDraw, walk, text
  <2>2. Untouched
    BY <1>3 DEF Fuzzed, TextInv
  <2>3. DrawsFrom'
    BY <2>1, <2>2 DEF DrawsFrom, Untouched
  <2> QED BY <1>1, <2>1, <2>3, ToDraw DEF BufferIsBigEnough
<1>4. CASE NextInterval
  <2>1. /\ literal' = literal /\ pc' = "draw" /\ pc = "draw" /\ draw'.menu = draw.menu
        /\ edit' = edit /\ i' = i /\ old_i' = old_i /\ source' = source
        /\ buffer' = buffer /\ alloc' = alloc /\ length' = length
    BY <1>4 DEF NextInterval, walk, text
  <2>2. DrawsFrom
    BY <2>1 DEF TextInv
  <2>3. DrawsFrom'
    BY <2>1, <2>2 DEF DrawsFrom, Untouched, Generating, WalkingLetters, Default
  <2> QED BY <1>1, <2>1, <2>3, ToDraw DEF BufferIsBigEnough
<1>5. CASE DrawFails
  <2>1. /\ literal' = literal /\ pc' = "aborted" /\ pc = "draw" /\ draw' = draw
        /\ buffer' = buffer /\ alloc' = alloc
    BY <1>5 DEF DrawFails, text
  <2>2. DrawsFrom
    BY <2>1 DEF TextInv
  <2>3. draw.menu # "none"
    BY <1>1, <2>2, LiteralFacts DEF DrawsFrom, Generating
  <2> QED BY <1>1, <2>1, <2>3, ToAborted DEF BufferIsBigEnough
<1>6. CASE FuzzInteger
  <2>1. literal' = literal /\ pc' = "returned" /\ buffer' = buffer /\ alloc' = alloc
    BY <1>6 DEF FuzzInteger, ReturnLarge, Return, text
  <2> QED BY <1>1, <2>1, ToReturned DEF BufferIsBigEnough
<1>7. CASE FuzzBoolean
  <2>1. literal' = literal /\ pc' = "returned" /\ buffer' = buffer /\ alloc' = alloc
    BY <1>7 DEF FuzzBoolean, Return, text
  <2> QED BY <1>1, <2>1, ToReturned DEF BufferIsBigEnough
<1> QED BY <1>2, <1>3, <1>4, <1>5, <1>6, <1>7

LEMMA PathStep == TextInv /\ FuzzObjectPath => TextInv'
<1> SUFFICES ASSUME TextInv, FuzzObjectPath PROVE TextInv'
  OBVIOUS
<1>1. literal' = literal /\ literal \in Literals /\ alloc' = alloc
  BY DEF FuzzObjectPath, TextInv
<1>2. pc = "draw" /\ draw.menu = "path"
  BY DEF FuzzObjectPath, Drawn
<1>3. Untouched /\ literal.type = "path"
  BY <1>1, <1>2, ScalarDraw, LiteralFacts
<1>4. Default \in Strings /\ ValidObjectPath(Default)
  BY <1>1, <1>3, LiteralFacts
<1>5. buffer' = Default \/ \E d \in Digits : buffer' = Default \o <<d>>
  BY DEF FuzzObjectPath
<1>6. ValidObjectPath(buffer')
  BY <1>4, <1>5, AppendedIsPath
<1>7. pc' = "returned"
  BY <1>6 DEF FuzzObjectPath, Return
<1>8. BufferIsBigEnough'
  <2>1. alloc' = 0
    BY <1>1, <1>3 DEF Untouched
  <2> QED BY <2>1, SMT DEF BufferIsBigEnough
<1> QED BY <1>1, <1>7, <1>8, ToReturned

LEMMA EmptyIsValid == <<>> \in ValidStrings /\ Len(<<>>) = 0
<1>1. ValidUtf8(<<>>)
  BY SMT DEF ValidUtf8
<1> QED BY <1>1, CountEmpty, EmptySeq DEF ValidStrings, Strings

\* Characters generated from nothing.
LEMMA EmptyStringStep == TextInv /\ FuzzEmptyString => TextInv'
<1> SUFFICES ASSUME TextInv, FuzzEmptyString PROVE TextInv'
  OBVIOUS
<1>1. /\ literal' = literal /\ literal \in Literals /\ literal.type = "string"
      /\ buffer' = buffer /\ length' = length
      /\ Untouched
  BY DEF FuzzEmptyString, EmptyString, TextInv
<1>2. CASE pc' = "whitespace" /\ UNCHANGED <<draw, edit, i, alloc>>
  <2>1. Written'
    BY <1>1, EmptyIsValid DEF Written, Untouched
  <2>2. EditsLoseNothing'
    BY <1>1, <1>2, OtherEdit DEF Untouched
  <2>3. BufferIsBigEnough'
    BY <1>1, <1>2, SMT DEF Untouched, BufferIsBigEnough
  <2> QED BY <1>1, <1>2, <2>1, <2>2, <2>3, ToWhitespace
<1>3. ASSUME NEW n \in RandomIntRange(1, MaxGenerated + 1),
             i' = n, alloc' = n * MaxCharacterBytes + 1, edit' = "generate",
             StartDraw("character")
      PROVE  TextInv'
  <2>1. n \in Nat /\ n > 0
    BY LengthsAssumption, SMT DEF RandomIntRange
  <2>2. alloc' \in Nat /\ 0 + 2 * n < alloc'
    BY <1>3, <2>1, SMT DEF MaxCharacterBytes
  <2>3. pc' = "draw" /\ draw'.menu = "character"
    BY <1>3 DEF StartDraw
  <2>4. buffer' \in ValidStrings /\ Len(buffer') = 0
    BY <1>1, EmptyIsValid DEF Untouched
  <2>5. Generating'
    BY <1>1, <1>3, <2>1, <2>2, <2>3, <2>4 DEF Generating
  <2>6. BufferIsBigEnough'
    BY <2>1, <2>2, <2>4, SMT DEF BufferIsBigEnough
  <2> QED BY <1>1, <2>3, <2>5, <2>6, ToDraw DEF DrawsFrom
<1> QED BY <1>2, <1>3 DEF FuzzEmptyString

LEMMA GenerateStep == TextInv /\ GenerateNext => TextInv'
<1> SUFFICES ASSUME TextInv, GenerateNext PROVE TextInv'
  OBVIOUS
<1>1. /\ literal' = literal /\ literal \in Literals /\ edit = "generate" /\ edit' = edit
      /\ pc = "draw" /\ draw.menu = "character" /\ alloc' = alloc /\ i' = i - 1
  BY DEF GenerateNext, Drawn, TextInv
<1>2. Generating
  BY <1>1, CharacterDraw
<1>3. /\ literal.type = "string" /\ i \in Nat /\ i > 0 /\ buffer \in ValidStrings
      /\ alloc \in Nat /\ Len(buffer) + 2 * i < alloc /\ Len(buffer) \in Nat
  BY <1>2, ValidFacts DEF Generating
<1>4. PICK c \in GeneratedCharacters : buffer' = buffer \o c /\ length' = Len(buffer')
  BY DEF GenerateNext
<1>5. c \in ValidStrings /\ Len(c) <= 2 /\ Len(c) \in Nat
  BY ValidCharacters
<1>6. buffer' \in ValidStrings /\ Len(buffer') = Len(buffer) + Len(c)
  BY <1>3, <1>4, <1>5, ValidJoin
<1>7. Len(buffer') + 2 * i' < alloc' /\ i' \in Nat /\ Len(buffer') \in Nat
  BY <1>1, <1>3, <1>5, <1>6, SMT
<1>8. BufferIsBigEnough'
  BY <1>1, <1>3, <1>7, SMT DEF BufferIsBigEnough
<1>9. CASE i' > 0
  <2>1. pc' = "draw" /\ draw'.menu = "character"
    BY <1>9 DEF GenerateNext, StartDraw
  <2>2. Generating'
    BY <1>1, <1>3, <1>6, <1>7, <1>9, <2>1 DEF Generating
  <2> QED BY <1>1, <1>8, <2>1, <2>2, ToDraw DEF DrawsFrom
<1>10. CASE ~(i' > 0)
  <2>1. pc' = "whitespace"
    BY <1>10 DEF GenerateNext
  <2>2. Written'
    BY <1>1, <1>3, <1>4, <1>6 DEF Written
  <2>3. EditsLoseNothing'
    BY <1>1, OtherEdit
  <2> QED BY <1>1, <1>8, <2>1, <2>2, <2>3, ToWhitespace
<1> QED BY <1>9, <1>10

\* Changing the case of a literal.
LEMMA StartCaseStep == TextInv /\ StartCaseChange => TextInv'
<1> SUFFICES ASSUME TextInv, StartCaseChange PROVE TextInv'
  OBVIOUS
<1>1. /\ literal' = literal /\ literal \in Literals /\ pc = "draw" /\ draw.menu = "string"
      /\ buffer' = Default /\ length' = Len(Default) /\ alloc' = Len(Default) + 1
      /\ i' \in RandomIntRange(0, Len(Default) + 1) /\ edit' = "case" /\ pc' = "edit"
  BY DEF StartCaseChange, Drawn, TextInv
<1>2. literal.type = "string" /\ Default \in ValidStrings
  BY <1>1, ScalarDraw, LiteralFacts
<1>3. Default \in Strings /\ Len(Default) \in Nat
  BY <1>2, ValidFacts
<1>4. i' \in Nat
  BY <1>1, <1>3, SMT DEF RandomIntRange
<1>5. Default' = Default
  BY <1>1 DEF Default
<1>6. ChangingCase'
  BY <1>1, <1>2, <1>3, <1>4, <1>5 DEF ChangingCase
<1>7. BufferIsBigEnough'
  BY <1>1, <1>3, SMT DEF BufferIsBigEnough
<1> QED BY <1>1, <1>6, <1>7, ToEdit

LEMMA ChangeCaseStep == TextInv /\ ChangeCase => TextInv'
<1> SUFFICES ASSUME TextInv, ChangeCase PROVE TextInv'
  OBVIOUS
<1>1. /\ literal' = literal /\ literal \in Literals /\ pc = "edit" /\ pc' = "edit"
      /\ edit = "case" /\ edit' = edit /\ length' = length /\ alloc' = alloc
      /\ i < length /\ buffer' = [buffer EXCEPT ![i + 1] = SwapCase(buffer[i + 1])]
  BY DEF ChangeCase, TextInv
<1>2. ChangingCase
  BY <1>1 DEF TextInv, WalkingLetters
<1>3. /\ literal.type = "string" /\ i \in Nat /\ buffer \in Strings
      /\ Len(buffer) = Len(Default) /\ length = Len(Default) /\ alloc = Len(Default) + 1
      /\ \A p \in 1..Len(Default) : buffer[p] \in {Default[p], SwapCase(Default[p])}
  BY <1>2 DEF ChangingCase
<1>4. /\ Default \in Strings /\ Len(Default) \in Nat
      /\ \A p \in 1..Len(Default) : Default[p] \in Bytes
  BY <1>1, <1>3, LiteralFacts, ValidFacts, StringFacts
<1>5. i' \in Nat
  <2>1. PICK step \in RandomIntRange(i + 1, length + 1) : i' = i + step
    BY DEF ChangeCase
  <2> QED BY <1>3, <1>4, <2>1, SMT DEF RandomIntRange
<1> DEFINE k == i + 1
           b == SwapCase(buffer[i + 1])
<1>6. k \in 1..Len(buffer)
  BY <1>1, <1>3, <1>4, SMT
<1>7. b \in Bytes /\ b \in {Default[k], SwapCase(Default[k])}
  <2>1. k \in 1..Len(Default)
    BY <1>3, <1>6
  <2>2. Default[k] \in Bytes /\ buffer[k] \in {Default[k], SwapCase(Default[k])}
    BY <1>3, <1>4, <2>1
  <2>3. b = SwapCase(buffer[k])
    OBVIOUS
  <2> HIDE DEF k, b
  <2> QED BY <2>2, <2>3, SwapCaseFacts
<1>8. buffer' = [buffer EXCEPT ![k] = b]
  BY <1>1
<1> HIDE DEF k, b
<1>9. /\ buffer' \in Strings /\ Len(buffer') = Len(Default)
      /\ \A p \in 1..Len(Default) : buffer'[p] = IF p = k THEN b ELSE buffer[p]
  BY <1>3, <1>6, <1>7, <1>8, ExceptSeq DEF Strings
<1>10. \A p \in 1..Len(Default) : buffer'[p] \in {Default[p], SwapCase(Default[p])}
  BY <1>3, <1>7, <1>9
<1>11. Default' = Default
  BY <1>1 DEF Default
<1>12. ChangingCase'
  BY <1>1, <1>3, <1>5, <1>9, <1>10, <1>11 DEF ChangingCase
<1>13. BufferIsBigEnough'
  BY <1>1, <1>3, <1>4, <1>9, SMT DEF BufferIsBigEnough
<1> QED BY <1>1, <1>12, <1>13, ToEdit

LEMMA EndCaseStep == TextInv /\ EndCaseChange => TextInv'
<1> SUFFICES ASSUME TextInv, EndCaseChange PROVE TextInv'
  OBVIOUS
<1>1. /\ literal' = literal /\ literal \in Literals /\ pc = "edit" /\ pc' = "whitespace"
      /\ edit = "case" /\ edit' = edit /\ length' = length /\ alloc' = alloc
      /\ buffer' = buffer /\ Default' = Default
  BY DEF EndCaseChange, TextInv, text, Default
<1>2. ChangingCase
  BY <1>1 DEF TextInv, WalkingLetters
<1>3. /\ literal.type = "string" /\ buffer \in Strings /\ Len(buffer) = Len(Default)
      /\ length = Len(Default)
      /\ \A p \in 1..Len(Default) : buffer[p] \in {Default[p], SwapCase(Default[p])}
  BY <1>2 DEF ChangingCase
<1>4. buffer \in ValidStrings
  BY <1>1, <1>3, LiteralFacts, CaseChangedIsValid
<1>5. Written'
  BY <1>1, <1>3, <1>4 DEF Written
<1>6. EditsLoseNothing'
  BY <1>1, <1>3 DEF EditsLoseNothing
<1>7. BufferIsBigEnough'
  BY <1>1 DEF TextInv, BufferIsBigEnough
<1> QED BY <1>1, <1>5, <1>6, <1>7, ToWhitespace

\* Replacing letters and adding separators.
LEMMA StartLettersStep == TextInv /\ StartLetters => TextInv'
<1> SUFFICES ASSUME TextInv, StartLetters PROVE TextInv'
  OBVIOUS
<1>1. /\ literal' = literal /\ literal \in Literals /\ pc = "draw" /\ draw.menu = "string"
      /\ pc' = "edit" /\ old_i' = 0 /\ i' \in RandomIntRange(0, CharacterCount(Default) + 1)
      /\ source' = source /\ buffer' = buffer /\ Default' = Default
      /\ \/ edit' = "replace" /\ alloc' = CharacterCount(Default) * MaxCharacterBytes + 1
         \/ edit' = "separate" /\ alloc' = Len(Default) + 1
  BY DEF StartLetters, Drawn, TextInv, Default
<1>2. literal.type = "string" /\ Default \in ValidStrings /\ Untouched
  BY <1>1, ScalarDraw, LiteralFacts
<1>3. /\ Default \in Strings /\ Len(Default) \in Nat /\ CharacterCount(Default) \in Nat
      /\ 0 \in Boundaries(Default)
  BY <1>2, ValidFacts
<1>4. /\ i' \in Nat /\ i' <= CharacterCount(Default) /\ 0 <= i' /\ 0 \in Nat
      /\ CharacterCount(Default) * MaxCharacterBytes = 2 * CharacterCount(Default)
  BY <1>1, <1>3, SMT DEF RandomIntRange, MaxCharacterBytes
<1>5. source' = 0 /\ buffer' \in ValidStrings /\ Len(buffer') = 0 /\ Letters(buffer') = 0
  BY <1>1, <1>2, EmptyIsValid, CountEmpty DEF Untouched, Letters
<1>6. Letters(Chunk(Default, 0, 0)) = 0
  <2>1. 0 \in Nat /\ 0 <= 0 /\ 0 <= Len(Default)
    BY <1>3, SMT
  <2> DEFINE n == Letters(Chunk(Default, 0, 0))
  <2>2. n \in Nat /\ n = n + n
    BY <1>3, <2>1, LettersSplit
  <2> HIDE DEF n
  <2>3. n = 0
    BY <2>2, SMT
  <2> QED BY <2>3 DEF n
<1>7. Len(buffer') <= 0
  BY <1>5, SMT
<1>8. WalkingLetters'
  BY <1>1, <1>2, <1>3, <1>4, <1>5, <1>6, <1>7 DEF WalkingLetters
<1>9. BufferIsBigEnough'
  BY <1>5, SMT DEF BufferIsBigEnough
<1> QED BY <1>1, <1>8, <1>9, ToEdit

LEMMA ChooseLetterStep == TextInv /\ ChooseLetter => TextInv'
<1> SUFFICES ASSUME TextInv, ChooseLetter PROVE TextInv'
  OBVIOUS
<1>1. /\ literal' = literal /\ literal \in Literals /\ pc = "edit" /\ pc' = "draw"
      /\ edit = "replace" /\ edit' = edit /\ i < CharacterCount(Default)
      /\ i' = i /\ old_i' = old_i /\ source' = source /\ Default' = Default
      /\ buffer' = buffer /\ alloc' = alloc /\ draw'.menu = "character"
  BY DEF ChooseLetter, StartDraw, TextInv, walk, text, Default
<1>2. WalkingLetters
  BY <1>1 DEF TextInv, ChangingCase
<1>3. WalkingLetters'
  BY <1>1, <1>2 DEF WalkingLetters
<1>4. BufferIsBigEnough'
  BY <1>1 DEF TextInv, BufferIsBigEnough
<1> QED BY <1>1, <1>3, <1>4, ToDraw DEF DrawsFrom

\* One letter written: the buffer stays big enough, a character having at most two
\* bytes and a separator one.
LEMMA WriteLetterStep ==
    ASSUME TextInv, WalkingLetters, i < CharacterCount(Default),
           NEW c \in ValidStrings, Letters(c) = 1, WriteLetter(c),
           edit = "separate" => Len(c) = 1
    PROVE  TextInv'
<1> DEFINE n == CharacterCount(Default)
           next == Advance(Default, source, i - old_i)
           after == Advance(Default, next, 1)
           v == buffer \o Chunk(Default, source, next) \o c
<1>1. /\ literal' = literal /\ literal \in Literals /\ Default' = Default
      /\ buffer' = v /\ source' = after /\ old_i' = i + 1
      /\ i' \in RandomIntRange(i + 1, n + 1)
      /\ pc' = "edit" /\ edit' = edit /\ alloc' = alloc
  BY DEF WriteLetter, CopyChunk, TextInv, Default
<1>2. /\ literal.type = "string" /\ old_i \in Nat /\ i \in Nat /\ old_i <= i
      /\ source \in Boundaries(Default)
      /\ Letters(Chunk(Default, 0, source)) = old_i
      /\ buffer \in ValidStrings /\ Letters(buffer) = old_i
      /\ \/ edit = "replace" /\ alloc = 2 * n + 1
         \/ edit = "separate" /\ alloc = Len(Default) + 1 /\ Len(buffer) <= source
  BY DEF WalkingLetters
<1>3. /\ Default \in ValidStrings /\ Len(Default) \in Nat
      /\ n = Letters(Default) /\ n \in Nat
      /\ \A b \in Boundaries(Default) : b \in Nat /\ b <= Len(Default)
  BY <1>1, <1>2, LiteralFacts, ValidFacts
<1>4. /\ i < Letters(Default)
      /\ next = Advance(Default, source, i - old_i) /\ after = Advance(Default, next, 1)
      /\ v = buffer \o Chunk(Default, source, next) \o c
  BY <1>3
<1> HIDE DEF n, next, after, v
<1>5. /\ after \in Boundaries(Default) /\ Letters(Chunk(Default, 0, after)) = i + 1
      /\ v \in ValidStrings /\ Letters(v) = i + 1
      /\ Len(v) = Len(buffer) + (next - source) + Len(c)
      /\ next \in Nat /\ next + 1 <= after
  <2>1. /\ Default \in ValidStrings /\ buffer \in ValidStrings
        /\ source \in Boundaries(Default) /\ old_i \in Nat /\ i \in Nat
        /\ old_i <= i /\ i < Letters(Default)
        /\ Letters(Chunk(Default, 0, source)) = old_i /\ Letters(buffer) = old_i
        /\ c \in ValidStrings /\ Letters(c) = 1
    BY <1>2, <1>3, <1>4
  <2>2. i <= Letters(Default)
    BY <1>2, <1>3, <2>1, SMT
  <2> DEFINE u == buffer \o Chunk(Default, source, next)
  <2>3. /\ next \in Boundaries(Default) /\ Letters(Chunk(Default, 0, next)) = i
        /\ u \in ValidStrings /\ Letters(u) = i
        /\ Len(u) = Len(buffer) + (next - source)
    BY <1>4, <2>1, <2>2, CopiedLetters
  <2>4. v = u \o c
    BY <1>4
  <2> HIDE DEF u
  <2>5. /\ after \in Boundaries(Default) /\ Letters(Chunk(Default, 0, after)) = i + 1
        /\ u \o c \in ValidStrings /\ Letters(u \o c) = i + 1
        /\ Len(u \o c) = Len(u) + Len(c)
        /\ next \in Nat /\ next + 1 <= after
    <3>1. after = Advance(Default, next, 1)
      BY <1>4
    <3>2. \A w \in ValidStrings : Letters(w) = i =>
             /\ after \in Boundaries(Default) /\ Letters(Chunk(Default, 0, after)) = i + 1
             /\ w \o c \in ValidStrings /\ Letters(w \o c) = i + 1
             /\ Len(w \o c) = Len(w) + Len(c)
             /\ next \in Nat /\ next + 1 <= after
      <4> TAKE w \in ValidStrings
      <4> HAVE Letters(w) = i
      <4>1. Default \in ValidStrings /\ c \in ValidStrings /\ Letters(c) = 1
            /\ i \in Nat /\ i < Letters(Default)
        BY <2>1
      <4>2. next \in Boundaries(Default) /\ Letters(Chunk(Default, 0, next)) = i
        BY <2>3
      <4> QED BY <3>1, <4>1, <4>2, WrittenLetter
    <3> QED BY <2>3, <3>2
  <2> QED BY <2>3, <2>4, <2>5
<1>6. /\ Len(buffer) \in Nat /\ Len(v) \in Nat /\ Len(v) <= 2 * Letters(v)
      /\ source \in Nat /\ after \in Nat /\ after <= Len(Default)
  BY <1>2, <1>3, <1>5, ValidFacts
<1>7. i < n /\ i' \in Nat /\ i + 1 \in Nat /\ i + 1 <= i' /\ i' <= n
  <2>1. i < n
    BY DEF n
  <2> QED BY <1>1, <1>2, <1>3, <2>1, SMT DEF RandomIntRange
<1>8. ASSUME edit = "separate" PROVE Len(v) <= after
  <2>1. Len(c) = 1 /\ Len(buffer) <= source
    BY <1>2, <1>8
  <2> QED BY <1>5, <1>6, <2>1, SMT
<1>9. WalkingLetters'
  BY <1>1, <1>2, <1>5, <1>7, <1>8 DEF WalkingLetters, n
<1>10. Len(v) < alloc
  <2>1. CASE edit = "replace"
    <3>1. Len(v) <= 2 * (i + 1) /\ alloc = 2 * n + 1
      BY <1>2, <1>5, <1>6, <2>1
    <3> QED BY <1>2, <1>3, <1>6, <1>7, <3>1, SMT
  <2>2. CASE edit = "separate"
    <3>1. Len(v) <= after /\ alloc = Len(Default) + 1
      BY <1>2, <1>8, <2>2
    <3> QED BY <1>3, <1>6, <3>1, SMT
  <2> QED BY <1>2, <2>1, <2>2
<1>11. BufferIsBigEnough'
  BY <1>1, <1>10 DEF BufferIsBigEnough
<1> QED BY <1>1, <1>9, <1>11, ToEdit

LEMMA ReplaceLetterStep == TextInv /\ ReplaceLetter => TextInv'
<1> SUFFICES ASSUME TextInv, ReplaceLetter PROVE TextInv'
  OBVIOUS
<1>1. pc = "draw" /\ draw.menu = "character" /\ edit = "replace"
  BY DEF ReplaceLetter, Drawn
<1>2. WalkingLetters /\ i < CharacterCount(Default)
  BY <1>1, CharacterDraw DEF Generating
<1>3. PICK c \in GeneratedCharacters : WriteLetter(c)
  BY DEF ReplaceLetter
<1>4. c \in ValidStrings /\ Letters(c) = 1
  BY ValidCharacters
<1> QED BY <1>1, <1>2, <1>3, <1>4, WriteLetterStep

LEMMA AddSeparatorStep == TextInv /\ AddSeparator => TextInv'
<1> SUFFICES ASSUME TextInv, AddSeparator PROVE TextInv'
  OBVIOUS
<1>1. pc = "edit" /\ edit = "separate" /\ i < CharacterCount(Default)
  BY DEF AddSeparator
<1>2. WalkingLetters
  BY <1>1 DEF TextInv, ChangingCase
<1>3. PICK c \in Separators : WriteLetter(<<c>>)
  BY DEF AddSeparator
<1>4. c \in Bytes \ {"lead", "cont"}
  BY SeparatorsAssumption DEF Bytes
<1>5. <<c>> \in ValidStrings /\ Letters(<<c>>) = 1 /\ Len(<<c>>) = 1
  BY <1>4, ValidCharacters
<1> QED BY <1>1, <1>2, <1>3, <1>5, WriteLetterStep

LEMMA EndLettersStep == TextInv /\ EndLetters => TextInv'
<1> SUFFICES ASSUME TextInv, EndLetters PROVE TextInv'
  OBVIOUS
<1> DEFINE n == CharacterCount(Default)
           end == Advance(Default, source, i - old_i)
           v == buffer \o Chunk(Default, source, end)
<1>1. /\ literal' = literal /\ literal \in Literals /\ Default' = Default
      /\ pc = "edit" /\ edit \in {"replace", "separate"} /\ edit' = edit
      /\ buffer' = v /\ length' = Len(buffer') /\ alloc' = alloc
      /\ pc' = "whitespace" /\ i >= n
  BY DEF EndLetters, CopyChunk, TextInv, Default
<1>2. WalkingLetters
  BY <1>1 DEF TextInv, ChangingCase
<1>3. /\ literal.type = "string" /\ old_i \in Nat /\ i \in Nat /\ old_i <= i /\ i <= n
      /\ source \in Boundaries(Default)
      /\ Letters(Chunk(Default, 0, source)) = old_i
      /\ buffer \in ValidStrings /\ Letters(buffer) = old_i
      /\ \/ edit = "replace" /\ alloc = 2 * n + 1
         \/ edit = "separate" /\ alloc = Len(Default) + 1 /\ Len(buffer) <= source
  BY <1>2 DEF WalkingLetters
<1>4. /\ Default \in ValidStrings /\ Len(Default) \in Nat
      /\ n = Letters(Default) /\ n \in Nat
      /\ \A b \in Boundaries(Default) : b \in Nat /\ b <= Len(Default)
  BY <1>1, <1>3, LiteralFacts, ValidFacts
<1>5. /\ i <= Letters(Default) /\ end = Advance(Default, source, i - old_i)
      /\ v = buffer \o Chunk(Default, source, end)
  BY <1>3, <1>4
<1> HIDE DEF n, end, v
<1>6. /\ end \in Boundaries(Default) /\ v \in ValidStrings /\ Letters(v) = i
      /\ Len(v) = Len(buffer) + (end - source)
  BY <1>3, <1>4, <1>5, CopiedLetters
<1>7. /\ Len(buffer) \in Nat /\ Len(v) \in Nat /\ Len(v) <= 2 * Letters(v)
      /\ CharacterCount(v) = Letters(v)
      /\ source \in Nat /\ end \in Nat /\ end <= Len(Default)
  BY <1>3, <1>4, <1>6, ValidFacts
<1>8. i = n
  BY <1>1, <1>3, <1>4, SMT
<1>9. Len(v) < alloc
  <2>1. CASE edit = "replace"
    <3>1. Len(v) <= 2 * i /\ alloc = 2 * n + 1
      BY <1>3, <1>6, <1>7, <2>1
    <3> QED BY <1>3, <1>7, <1>8, <3>1, SMT
  <2>2. CASE edit = "separate"
    <3>1. Len(buffer) <= source /\ alloc = Len(Default) + 1
      BY <1>3, <2>2
    <3> QED BY <1>4, <1>6, <1>7, <3>1, SMT
  <2> QED BY <1>3, <2>1, <2>2
<1>10. BufferIsBigEnough'
  BY <1>1, <1>9 DEF BufferIsBigEnough
<1>11. Written'
  BY <1>1, <1>3, <1>6 DEF Written
<1>12. CharacterCount(buffer') = CharacterCount(Default)
  BY <1>1, <1>6, <1>7, <1>8 DEF n
<1>13. EditsLoseNothing'
  BY <1>1, <1>12 DEF EditsLoseNothing
<1> QED BY <1>1, <1>10, <1>11, <1>13, ToWhitespace

\* Editing one block, or swapping two.
LEMMA EditedStep ==
    ASSUME TextInv, literal' = literal, literal.type = "string",
           NEW name, NEW s \in ValidStrings, NEW n \in Nat, Len(s) = n,
           Edited(name, s, n),
           name \notin {"case", "replace", "separate"},
           name = "swap" => \A b \in Bytes : Count(s, {b}) = Count(Default, {b})
    PROVE  TextInv'
<1>1. /\ edit' = name /\ buffer' = s /\ length' = n /\ alloc' = n + 1
      /\ pc' = "whitespace" /\ literal \in Literals /\ Default' = Default
  BY DEF Edited, TextInv, Default
<1>2. Written'
  BY <1>1 DEF Written
<1>3. BufferIsBigEnough'
  BY <1>1, SMT DEF BufferIsBigEnough
<1>4. EditsLoseNothing'
  <2>1. CASE name # "swap"
    BY <1>1, <2>1, OtherEdit
  <2>2. CASE name = "swap"
    <3> QED BY <1>1, <2>2, SwappedEdit
  <2> QED BY <2>1, <2>2
<1> QED BY <1>1, <1>2, <1>3, <1>4, ToWhitespace

LEMMA BlockFailsStep ==
    ASSUME TextInv, literal' = literal, NEW from, NEW to, BlockFails(from, to)
    PROVE  TextInv'
<1>1. /\ pc' = "aborted" /\ buffer' = buffer /\ alloc' = alloc /\ literal \in Literals
      /\ draw'.menu = "separators"
  BY DEF BlockFails, TextInv, text
<1>2. BufferIsBigEnough'
  BY <1>1 DEF TextInv, BufferIsBigEnough
<1> QED BY <1>1, <1>2, ToAborted

LEMMA EditOneBlockStep == TextInv /\ EditOneBlock => TextInv'
<1> SUFFICES ASSUME TextInv, EditOneBlock PROVE TextInv'
  OBVIOUS
<1>1. literal' = literal /\ literal \in Literals /\ pc = "draw" /\ draw.menu = "string"
  BY DEF EditOneBlock, Drawn, TextInv
<1>2. literal.type = "string" /\ Default \in ValidStrings
  BY <1>1, ScalarDraw, LiteralFacts
<1> DEFINE s == Default
           n == Len(s)
<1>3. /\ n \in Nat /\ 0 \in Boundaries(s) /\ n \in Boundaries(s)
      /\ \A o \in Boundaries(s) : o \in Nat /\ o <= n
  BY <1>2, ValidFacts
<1>4. 0 <= n
  BY <1>3, SMT
<1>5. CASE BlockFails(0, n)
  BY <1>1, <1>5, BlockFailsStep
<1>6. ASSUME NEW b \in RandomBlocks(s, 0, n),
             DeleteBlock(b) \/ OverwriteBlock(b) \/ CloneBlock(b)
      PROVE  TextInv'
  <2>1. b.start \in Boundaries(s) /\ b.end \in Boundaries(s) /\ b.start <= b.end
    BY <1>2, <1>3, <1>4, BlockFacts
  <2>2. b.start \in Nat /\ b.end \in Nat /\ b.end <= n
    BY <1>3, <2>1
  <2>3. n - (b.end - b.start) \in Nat /\ n + (b.end - b.start) \in Nat
    BY <1>3, <2>1, <2>2, SMT
  <2>4. CASE DeleteBlock(b)
    <3> DEFINE v == Chunk(s, 0, b.start) \o Chunk(s, b.end, n)
               k == n - (b.end - b.start)
    <3>1. v \in ValidStrings /\ Len(v) = k /\ k \in Nat
      BY <1>2, <2>1, <2>3, DeletedIsValid
    <3>2. Edited("delete", v, k)
      BY <2>4 DEF DeleteBlock
    <3> HIDE DEF v, k
    <3> QED BY <1>1, <1>2, <3>1, <3>2, EditedStep
  <2>5. CASE OverwriteBlock(b)
    <3> DEFINE v == [p \in 1..n |-> IF b.start < p /\ p <= b.end THEN "a" ELSE s[p]]
    <3>1. v \in ValidStrings /\ Len(v) = n
      BY <1>2, <2>1, OverwrittenIsValid
    <3>2. Edited("overwrite", v, n)
      BY <2>5 DEF OverwriteBlock
    <3> HIDE DEF v, n
    <3> QED BY <1>1, <1>2, <1>3, <3>1, <3>2, EditedStep
  <2>6. CASE CloneBlock(b)
    <3> DEFINE v == Chunk(s, 0, b.end) \o Chunk(s, b.start, b.end) \o Chunk(s, b.end, n)
               k == n + (b.end - b.start)
    <3>1. v \in ValidStrings /\ Len(v) = k /\ k \in Nat
      BY <1>2, <2>1, <2>3, ClonedIsValid
    <3>2. Edited("clone", v, k)
      BY <2>6 DEF CloneBlock
    <3> HIDE DEF v, k
    <3> QED BY <1>1, <1>2, <3>1, <3>2, EditedStep
  <2> QED BY <1>6, <2>4, <2>5, <2>6
<1> QED BY <1>5, <1>6 DEF EditOneBlock

LEMMA SwappedStep ==
    ASSUME TextInv, literal' = literal, literal.type = "string",
           NEW b, NEW c,
           b.start \in Boundaries(Default), b.end \in Boundaries(Default),
           c.start \in Boundaries(Default), c.end \in Boundaries(Default),
           b.start <= b.end, b.end <= c.start, c.start <= c.end,
           SwappedWith(b, c)
    PROVE  TextInv'
<1> DEFINE t == Swapped(Default, b.start, b.end, c.start, c.end)
<1>1. Default \in ValidStrings /\ Len(Default) \in Nat
  BY LiteralFacts, ValidFacts DEF TextInv
<1>2. t \in ValidStrings /\ Len(t) = Len(Default)
      /\ \A B : Count(t, B) = Count(Default, B)
  BY <1>1, SwappedIsValid
<1>3. Edited("swap", t, Len(Default))
  BY DEF SwappedWith, Swapped
<1> HIDE DEF t
<1> QED BY <1>1, <1>2, <1>3, EditedStep

LEMMA SwapBlocksStep == TextInv /\ SwapBlocks => TextInv'
<1> SUFFICES ASSUME TextInv, SwapBlocks PROVE TextInv'
  OBVIOUS
<1>1. literal' = literal /\ literal \in Literals /\ pc = "draw" /\ draw.menu = "string"
  BY DEF SwapBlocks, Drawn, TextInv
<1>2. literal.type = "string" /\ Default \in ValidStrings
  BY <1>1, ScalarDraw, LiteralFacts
<1> DEFINE s == Default
           n == Len(s)
<1>3. /\ n \in Nat /\ 0 \in Boundaries(s) /\ n \in Boundaries(s)
      /\ \A o \in Boundaries(s) : o \in Nat /\ o <= n
  BY <1>2, ValidFacts
<1>4. 0 <= n
  BY <1>3, SMT
<1>5. CASE BlockFails(0, n)
  BY <1>1, <1>5, BlockFailsStep
<1>6. ASSUME NEW b \in RandomBlocks(s, 0, n),
             LET before == b.start > n - b.end
                 from == IF before THEN 0 ELSE b.end
                 to == IF before THEN b.start ELSE n
             IN  \/ BlockFails(from, to)
                 \/ \E c \in RandomBlocks(s, from, to) :
                       IF before THEN SwappedWith(c, b) ELSE SwappedWith(b, c)
      PROVE  TextInv'
  <2> DEFINE before == b.start > n - b.end
             from == IF before THEN 0 ELSE b.end
             to == IF before THEN b.start ELSE n
  <2>1. b.start \in Boundaries(s) /\ b.end \in Boundaries(s) /\ b.start <= b.end
    BY <1>2, <1>3, <1>4, BlockFacts
  <2>2. b.start \in Nat /\ b.end \in Nat /\ b.start <= n /\ b.end <= n
    BY <1>3, <2>1
  <2>3. from \in Boundaries(s) /\ to \in Boundaries(s)
    BY <1>3, <2>1
  <2>4. from <= to
    <3>1. CASE before
      BY <2>2, <3>1, SMT
    <3>2. CASE ~before
      BY <2>2, <3>2, SMT
    <3> QED BY <3>1, <3>2
  <2>5. CASE BlockFails(from, to)
    BY <1>1, <2>5, BlockFailsStep
  <2>6. ASSUME NEW c \in RandomBlocks(s, from, to),
               IF before THEN SwappedWith(c, b) ELSE SwappedWith(b, c)
        PROVE  TextInv'
    <3>1. /\ c.start \in Boundaries(s) /\ c.end \in Boundaries(s)
          /\ from <= c.start /\ c.start <= c.end /\ c.end <= to
      <4> HIDE DEF from, to
      <4> QED BY <1>2, <2>3, <2>4, BlockFacts
    <3>2. CASE before
      <4>1. c.end <= b.start /\ SwappedWith(c, b)
        BY <2>6, <3>1, <3>2
      <4> QED BY <1>1, <1>2, <2>1, <3>1, <4>1, SwappedStep
    <3>3. CASE ~before
      <4>1. b.end <= c.start /\ SwappedWith(b, c)
        BY <2>6, <3>1, <3>3
      <4> QED BY <1>1, <1>2, <2>1, <3>1, <4>1, SwappedStep
    <3> QED BY <3>2, <3>3
  <2> QED BY <1>6, <2>5, <2>6
<1> QED BY <1>5, <1>6 DEF SwapBlocks

\* The last step: the assertion on the whole string holds.
LEMMA FinishStep == TextInv /\ FinishString => TextInv'
<1> SUFFICES ASSUME TextInv, FinishString PROVE TextInv'
  OBVIOUS
<1>1. /\ literal' = literal /\ literal \in Literals /\ pc = "whitespace"
      /\ BufferIsBigEnough
  BY DEF FinishString, TextInv
<1>2. /\ literal.type = "string" /\ buffer \in ValidStrings /\ length = Len(buffer)
      /\ Default \in ValidStrings /\ Len(buffer) \in Nat /\ Len(Default) \in Nat
      /\ 0 \in Boundaries(buffer) /\ Len(buffer) \in Boundaries(buffer)
  BY <1>1, LiteralFacts, ValidFacts DEF TextInv, Written
<1>3. /\ buffer' \in ValidStrings /\ length' = Len(buffer') /\ BufferIsBigEnough'
  <2>1. CASE UNCHANGED text
    BY <1>1, <1>2, <2>1 DEF text, BufferIsBigEnough
  <2>2. CASE buffer' = Default /\ length' = Len(Default) /\ alloc' = Len(Default) + 1
    BY <1>2, <2>2, SMT DEF BufferIsBigEnough
  <2>3. ASSUME NEW before \in {0} \union RandomIntRange(1, MaxPad + 1),
               NEW after \in {0} \union RandomIntRange(1, MaxPad + 1),
               AddWhitespace(before, after)
        PROVE  /\ buffer' \in ValidStrings /\ length' = Len(buffer')
               /\ BufferIsBigEnough'
    <3> DEFINE a == [p \in 1..before |-> " "]
               m == Chunk(buffer, 0, length)
               z == [p \in 1..after |-> " "]
    <3>1. before \in Nat /\ after \in Nat
      BY LengthsAssumption, SMT DEF RandomIntRange
    <3>2. a \in ValidStrings /\ Len(a) = before /\ z \in ValidStrings /\ Len(z) = after
      BY <3>1, SpacesAreValid
    <3>3. m \in ValidStrings /\ Len(m) = length - 0
      <4>1. 0 <= Len(buffer)
        BY <1>2, SMT
      <4> QED BY <1>2, <4>1, ValidPart
    <3>4. /\ buffer' = (a \o m) \o z /\ length' = length + before + after
          /\ alloc' = before + length + after + 1
      BY <2>3 DEF AddWhitespace
    <3> HIDE DEF a, m, z
    <3>5. a \o m \in ValidStrings /\ Len(a \o m) = Len(a) + Len(m)
      BY <3>2, <3>3, ValidJoin
    <3>6. (a \o m) \o z \in ValidStrings /\ Len((a \o m) \o z) = Len(a \o m) + Len(z)
      BY <3>2, <3>5, ValidJoin
    <3>7. buffer' \in ValidStrings /\ Len(buffer') = Len(a \o m) + Len(z)
      BY <3>4, <3>6
    <3>8. length \in Nat
      BY <1>2
    <3>9. length' = Len(buffer') /\ Len(buffer') < alloc'
      BY <3>1, <3>2, <3>3, <3>4, <3>5, <3>7, <3>8, SMT
    <3> QED BY <3>7, <3>9 DEF BufferIsBigEnough
  <2> QED BY <2>1, <2>2, <2>3 DEF FinishString
<1>4. ValidUtf8(buffer')
  BY <1>3 DEF ValidStrings
<1>5. pc' = "returned"
  BY <1>3, <1>4 DEF FinishString, Return
<1> QED BY <1>1, <1>3, <1>5, ToReturned

LEMMA TextInvStep == TextInv /\ [Next]_vars => TextInv'
<1> SUFFICES ASSUME TextInv, [Next]_vars PROVE TextInv'
  OBVIOUS
<1>1. CASE EvaluateAgain
  <2>1. literal' = literal /\ literal \in Literals /\ pc' = "evaluate" /\ Untouched'
    BY <1>1 DEF EvaluateAgain, TextInv, Untouched
  <2>2. BufferIsBigEnough'
    BY <2>1, SMT DEF Untouched, BufferIsBigEnough
  <2> QED BY <2>1, <2>2 DEF TextInv, StringsAreWhole, EditsLoseNothing
<1>2. CASE UNCHANGED vars
  BY <1>2 DEF vars, TextInv, Untouched, DrawsFrom, Generating, ChangingCase, WalkingLetters,
              Written, BufferIsBigEnough, StringsAreWhole, EditsLoseNothing, Default
<1> QED BY <1>1, <1>2, ScalarStep, PathStep, EmptyStringStep, GenerateStep, StartCaseStep,
           ChangeCaseStep, EndCaseStep, StartLettersStep, ChooseLetterStep,
           ReplaceLetterStep, AddSeparatorStep, EndLettersStep, EditOneBlockStep,
           SwapBlocksStep, FinishStep
        DEF Next, Step

\* The assertions that end fuzz_string () and fuzz_object_path () never fail,
\* whatever the string, the separators and the random choices.
THEOREM StringsAreWholeThm == Spec => []StringsAreWhole
<1>1. TextInv => StringsAreWhole
  BY DEF TextInv
<1> QED BY TextInvInit, TextInvStep, <1>1, PTL DEF Spec

\* No edit of fuzz_string () writes past what it allocated, for strings of every
\* length: a replaced letter of two bytes is paid for by the letters allocated for.
THEOREM BufferIsBigEnoughThm == Spec => []BufferIsBigEnough
<1>1. TextInv => BufferIsBigEnough
  BY DEF TextInv
<1> QED BY TextInvInit, TextInvStep, <1>1, PTL DEF Spec

\* Swapping blocks keeps every byte, changing case every letter up to its case, and
\* replacing letters or adding separators the number of characters.
THEOREM EditsLoseNothingThm == Spec => []EditsLoseNothing
<1>1. TextInv => EditsLoseNothing
  BY DEF TextInv
<1> QED BY TextInvInit, TextInvStep, <1>1, PTL DEF Spec
============================================================================
