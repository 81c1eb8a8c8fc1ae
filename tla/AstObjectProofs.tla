--------------------------- MODULE AstObjectProofs ---------------------------
(***************************************************************************)
(* Proofs about AstObject, for every set of descriptions.                  *)
(***************************************************************************)
EXTENDS AstObject, FiniteSetTheorems, SequenceTheorems, TLAPS

-----------------------------------------------------------------------------
(* Sequences and verdicts.                                                 *)

LEMMA LeastNatural ==
    ASSUME NEW S \in SUBSET Nat, S # {}
    PROVE  /\ Min(S) \in S
           /\ \A k \in S : Min(S) <= k
<1>1. PICK m \in S : \A k \in S : <<k, m>> \notin OpToRel(<, Nat)
  BY WFMin, NatLessThanWellFounded
<1>2. \A k \in S : ~(k < m)
  BY <1>1 DEF OpToRel
<1>3. \A k \in S : m <= k
  BY <1>2, SMT
<1> QED BY <1>3, Zenon DEF Min

LEMMA SequenceFacts ==
    ASSUME NEW s, IsSequence(s)
    PROVE  /\ s \in Seq(ToSet(s)) /\ Len(s) \in Nat /\ DOMAIN s = 1..Len(s)
           /\ \A k \in 1..Len(s) : s[k] \in ToSet(s)
           /\ \A x \in ToSet(s) : \E k \in 1..Len(s) : x = s[k]
<1>1. s \in Seq(ToSet(s))
  BY DEF IsSequence
<1>2. Len(s) \in Nat /\ DOMAIN s = 1..Len(s)
  BY <1>1, LenProperties
<1> QED BY <1>1, <1>2 DEF ToSet

\* Members of a sequence are those of the set that it is over.
LEMMA SequenceOver ==
    ASSUME NEW S, NEW s \in Seq(S)
    PROVE  IsSequence(s) /\ ToSet(s) \subseteq S
<1>1. Len(s) \in Nat /\ s \in [1..Len(s) -> S] /\ DOMAIN s = 1..Len(s)
  BY LenProperties
<1>2. s \in [1..Len(s) -> ToSet(s)] /\ ToSet(s) \subseteq S
  BY <1>1 DEF ToSet
<1> DEFINE T == ToSet(s)
<1> HIDE DEF T
<1>3. s \in Seq(T)
  BY <1>1, <1>2 DEF T
<1> QED BY <1>2, <1>3 DEF IsSequence, T

\* Nothing is at fault if the verdict is that all is well.
LEMMA FirstFaultOk ==
    ASSUME NEW verdicts, IsSequence(verdicts), FirstFault(verdicts) = "ok"
    PROVE  \A k \in DOMAIN verdicts : verdicts[k] = "ok"
<1> DEFINE faults == {k \in DOMAIN verdicts : verdicts[k] # "ok"}
<1>1. faults \in SUBSET Nat
  BY SequenceFacts
<1>2. ASSUME faults # {} PROVE FALSE
  <2>1. Min(faults) \in faults
    BY <1>1, <1>2, LeastNatural
  <2>2. FirstFault(verdicts) = verdicts[Min(faults)]
    BY <1>2, Zenon DEF FirstFault, Min
  <2> QED BY <2>1, <2>2
<1> QED BY <1>2

\* A property of the numbers up to n that is inherited holds of all of them.
LEMMA UpTo ==
    ASSUME NEW m \in Nat, NEW n \in Nat, m <= n, NEW P, m \in P,
           \A k \in m..(n - 1) : k \in P => k + 1 \in P
    PROVE  \A k \in m..n : k \in P
<1> DEFINE bad == {k \in m..n : k \notin P}
<1>1. bad \in SUBSET Nat
  BY SMT
<1>2. ASSUME bad # {} PROVE FALSE
  <2>1. PICK b \in bad : \A k \in bad : b <= k
    BY <1>1, <1>2, LeastNatural
  <2>2. b # m /\ b \in m..n /\ b \notin P
    OBVIOUS
  <2>3. b - 1 \in m..(n - 1) /\ b - 1 \in m..n /\ (b - 1) + 1 = b /\ ~(b <= b - 1)
    BY <2>2, SMT
  <2>4. b - 1 \in P
    BY <2>1, <2>3
  <2> QED BY <2>2, <2>3, <2>4
<1> QED BY <1>2

\* FlattenSeq () joins one sequence after the other.
LEMMA FlattenRecursion ==
    ASSUME NEW S, NEW ss \in Seq(Seq(S)), Len(ss) # 0
    PROVE  \E f : /\ FlattenSeq(ss) = f[Len(ss)]
                 /\ \A k \in 1..Len(ss) : f[k] = IF k = 1 THEN ss[k] ELSE f[k - 1] \o ss[k]
<1> DEFINE n == Len(ss)
           J(a, k) == a \o ss[k]
           Body(f, m) == [k \in 1..m |-> IF k = 1 THEN ss[k] ELSE J(f[k - 1], k)]
           P == {m \in 1..n : \E f : f = Body(f, m)}
<1>1. n \in Nat /\ 1 <= n /\ 1 \in 1..n
  BY LenProperties, SMT
<1>2. FlattenSeq(ss) = (CHOOSE f : f = Body(f, n))[n]
  BY Zenon DEF FlattenSeq
<1> HIDE DEF J
<1>3. 1 \in P
  <2> DEFINE f == [k \in 1..1 |-> ss[1]]
  <2>1. f = Body(f, 1)
    BY SMT
  <2> QED BY <1>1, <2>1
<1>4. ASSUME NEW m \in 1..(n - 1), m \in P PROVE m + 1 \in P
  <2>1. PICK f : f = Body(f, m)
    BY <1>4
  <2> DEFINE g == [k \in 1..(m + 1) |-> IF k = m + 1 THEN J(f[m], m + 1) ELSE f[k]]
  <2>2. ASSUME NEW k \in 1..(m + 1)
        PROVE  g[k] = IF k = 1 THEN ss[k] ELSE J(g[k - 1], k)
    <3>1. CASE k = m + 1
      <4>1. k # 1 /\ k - 1 = m /\ m \in 1..(m + 1) /\ m # m + 1
        BY <3>1, <1>1, SMT
      <4> QED BY <3>1, <4>1
    <3>2. CASE k # m + 1
      <4>1. k \in 1..m /\ (k # 1 => k - 1 \in 1..(m + 1) /\ k - 1 # m + 1)
        BY <3>2, <1>1, SMT
      <4>2. f[k] = IF k = 1 THEN ss[k] ELSE J(f[k - 1], k)
        BY <2>1, <4>1
      <4> QED BY <3>2, <4>1, <4>2
    <3> QED BY <3>1, <3>2
  <2>3. g = Body(g, m + 1)
    BY <2>2
  <2>4. m + 1 \in 1..n
    BY <1>1, SMT
  <2> QED BY <2>3, <2>4
<1>5. n \in P
  <2> HIDE DEF P
  <2>1. 1 \in Nat /\ n \in 1..n
    BY <1>1, SMT
  <2>2. \A k \in 1..(n - 1) : k \in P => k + 1 \in P
    BY <1>4
  <2>3. \A k \in 1..n : k \in P
    BY <1>1, <1>3, <2>1, <2>2, UpTo, Zenon
  <2> QED BY <2>1, <2>3
<1>6. PICK w : w = Body(w, n)
  BY <1>5
<1> DEFINE h == CHOOSE f : f = Body(f, n)
<1>7. h = Body(h, n)
  BY <1>6, Zenon
<1> HIDE DEF h
<1>8. \A k \in 1..n : h[k] = IF k = 1 THEN ss[k] ELSE J(h[k - 1], k)
  BY <1>7
<1>9. FlattenSeq(ss) = h[n]
  BY <1>2 DEF h
<1> QED BY <1>8, <1>9 DEF J

LEMMA ConcatMembers ==
    ASSUME NEW S, NEW s \in Seq(S), NEW t \in Seq(S)
    PROVE  s \o t \in Seq(S) /\ ToSet(s \o t) = ToSet(s) \cup ToSet(t)
<1>1. /\ Len(s) \in Nat /\ DOMAIN s = 1..Len(s)
      /\ Len(t) \in Nat /\ DOMAIN t = 1..Len(t)
  BY LenProperties
<1> DEFINE u == s \o t
<1>2. /\ u \in Seq(S) /\ Len(u) = Len(s) + Len(t)
      /\ \A k \in 1..(Len(s) + Len(t)) : u[k] = IF k <= Len(s) THEN s[k] ELSE t[k - Len(s)]
  BY ConcatProperties, Zenon
<1>3. DOMAIN u = 1..Len(u)
  BY <1>2, LenProperties
<1> HIDE DEF u
<1>4. ASSUME NEW k \in DOMAIN s PROVE s[k] \in ToSet(u)
  <2>1. k \in 1..(Len(s) + Len(t)) /\ k <= Len(s)
    BY <1>1, SMT
  <2> QED BY <1>2, <1>3, <2>1 DEF ToSet
<1>5. ASSUME NEW k \in DOMAIN t PROVE t[k] \in ToSet(u)
  <2>1. k + Len(s) \in 1..(Len(s) + Len(t)) /\ ~(k + Len(s) <= Len(s)) /\ (k + Len(s)) - Len(s) = k
    BY <1>1, SMT
  <2> QED BY <1>2, <1>3, <2>1 DEF ToSet
<1>6. ASSUME NEW k \in DOMAIN u PROVE u[k] \in ToSet(s) \cup ToSet(t)
  <2>1. k \in 1..(Len(s) + Len(t)) /\ (k <= Len(s) => k \in DOMAIN s)
        /\ (~(k <= Len(s)) => k - Len(s) \in DOMAIN t)
    BY <1>1, <1>2, <1>3, SMT
  <2> QED BY <1>2, <2>1 DEF ToSet
<1>7. ToSet(u) = ToSet(s) \cup ToSet(t)
  BY <1>4, <1>5, <1>6 DEF ToSet
<1> QED BY <1>2, <1>7 DEF u

\* What FlattenSeq () joins is a sequence of the members of the sequences.
LEMMA FlattenMembers ==
    ASSUME NEW S, NEW ss \in Seq(Seq(S))
    PROVE  /\ FlattenSeq(ss) \in Seq(S)
           /\ ToSet(FlattenSeq(ss)) = UNION {ToSet(ss[k]) : k \in DOMAIN ss}
<1> DEFINE n == Len(ss)
<1>1. n \in Nat /\ DOMAIN ss = 1..n /\ \A k \in 1..n : ss[k] \in Seq(S)
  BY LenProperties, ElementOfSeq
<1>2. CASE n = 0
  <2>1. FlattenSeq(ss) = ss
    BY <1>2, Zenon DEF FlattenSeq
  <2>2. ss = <<>> /\ DOMAIN ss = {}
    BY <1>1, <1>2, SMT
  <2> QED BY <2>1, <2>2, EmptySeq DEF ToSet
<1>3. CASE n # 0
  <2>1. PICK f : /\ FlattenSeq(ss) = f[n]
                 /\ \A k \in 1..n : f[k] = IF k = 1 THEN ss[k] ELSE f[k - 1] \o ss[k]
    BY <1>3, FlattenRecursion
  <2> DEFINE U(m) == UNION {ToSet(ss[k]) : k \in 1..m}
             P == {m \in 1..n : f[m] \in Seq(S) /\ ToSet(f[m]) = U(m)}
  <2>2. 1 \in 1..n /\ 1 \in Nat /\ 1 <= n /\ n \in 1..n
    BY <1>1, <1>3, SMT
  <2>3. 1 \in P
    <3>1. f[1] = ss[1]
      BY <2>1, <2>2
    <3>2. U(1) = ToSet(ss[1])
      <4>1. 1..1 = {1}
        BY SMT
      <4> QED BY <4>1
    <3> QED BY <1>1, <2>2, <3>1, <3>2
  <2>4. ASSUME NEW m \in 1..(n - 1), m \in P PROVE m + 1 \in P
    <3>1. m + 1 \in 1..n /\ m + 1 # 1 /\ (m + 1) - 1 = m /\ 1..(m + 1) = 1..m \cup {m + 1}
      BY <1>1, SMT
    <3>2. f[m + 1] = f[m] \o ss[m + 1]
      BY <2>1, <3>1
    <3>3. f[m + 1] \in Seq(S) /\ ToSet(f[m + 1]) = U(m) \cup ToSet(ss[m + 1])
      BY <1>1, <2>4, <3>1, <3>2, ConcatMembers
    <3>4. U(m + 1) = U(m) \cup ToSet(ss[m + 1])
      BY <3>1
    <3> QED BY <3>1, <3>3, <3>4
  <2>5. n \in P
    <3> HIDE DEF P
    <3>1. \A m \in 1..(n - 1) : m \in P => m + 1 \in P
      BY <2>4
    <3>2. \A m \in 1..n : m \in P
      BY <1>1, <2>2, <2>3, <3>1, UpTo, Zenon
    <3> QED BY <2>2, <3>2
  <2> QED BY <1>1, <2>1, <2>5
<1> QED BY <1>2, <1>3

LEMMA JoinedSequences ==
    ASSUME NEW s, NEW t, IsSequence(s), IsSequence(t)
    PROVE  IsSequence(s \o t) /\ ToSet(s \o t) = ToSet(s) \cup ToSet(t)
<1> DEFINE S == ToSet(s) \cup ToSet(t)
<1>1. s \in Seq(S) /\ t \in Seq(S)
  <2>1. s \in Seq(ToSet(s)) /\ t \in Seq(ToSet(t))
    BY DEF IsSequence
  <2>2. ToSet(s) \subseteq S /\ ToSet(t) \subseteq S
    OBVIOUS
  <2> QED BY <2>1, <2>2, SeqMonotonic
<1> HIDE DEF S
<1>2. s \o t \in Seq(S) /\ ToSet(s \o t) = ToSet(s) \cup ToSet(t)
  BY <1>1, ConcatMembers, Zenon
<1>3. IsSequence(s \o t)
  BY <1>2, SequenceOver, Zenon
<1> QED BY <1>2, <1>3

\* What a function makes of the members of a sequence.
LEMMA MappedSequence ==
    ASSUME NEW s, IsSequence(s), NEW f, DOMAIN f = DOMAIN s, f = [k \in DOMAIN s |-> f[k]]
    PROVE  IsSequence(f) /\ ToSet(f) = {f[k] : k \in DOMAIN s} /\ Len(f) = Len(s)
<1>1. Len(s) \in Nat /\ DOMAIN s = 1..Len(s)
  BY SequenceFacts
<1> DEFINE S == {f[k] : k \in DOMAIN s}
<1>2. f \in [1..Len(s) -> S]
  BY <1>1
<1> HIDE DEF S
<1>3. f \in Seq(S) /\ Len(f) = Len(s)
  BY <1>1, <1>2
<1> QED BY <1>3, SequenceOver DEF S, ToSet

LEMMA SingleSequence ==
    ASSUME NEW x
    PROVE  IsSequence(<<x>>) /\ ToSet(<<x>>) = {x}
<1>1. <<x>> \in Seq({x}) /\ DOMAIN <<x>> = {1} /\ <<x>>[1] = x
  BY SMT
<1>2. ToSet(<<x>>) = {x}
  BY <1>1 DEF ToSet
<1> QED BY <1>1, <1>2 DEF IsSequence

-----------------------------------------------------------------------------
(* Arrays.                                                                 *)

\* The parts of a sequence before and from the place i.
LEMMA Parts ==
    ASSUME NEW S, NEW s \in Seq(S), NEW i \in 1..(Len(s) + 1)
    PROVE  /\ SubSeq(s, 1, i - 1) \in Seq(S) /\ Len(SubSeq(s, 1, i - 1)) = i - 1
           /\ \A k \in 1..(i - 1) : SubSeq(s, 1, i - 1)[k] = s[k]
           /\ SubSeq(s, i, Len(s)) \in Seq(S) /\ Len(SubSeq(s, i, Len(s))) = (Len(s) - i) + 1
           /\ \A k \in 1..((Len(s) - i) + 1) : SubSeq(s, i, Len(s))[k] = s[(i + k) - 1]
<1> DEFINE n == Len(s)
           front == SubSeq(s, 1, i - 1)
           back == SubSeq(s, i, n)
<1>1. n \in Nat /\ DOMAIN s = 1..n /\ \A k \in 1..n : s[k] \in S
  BY LenProperties, ElementOfSeq
<1>2. front \in Seq(S) /\ Len(front) = i - 1 /\ \A k \in 1..(i - 1) : front[k] = s[k]
  <2> DEFINE j == i - 1
  <2>1. /\ 1 \in Int /\ j \in Int /\ (\A k \in 1..j : s[k] \in S)
        /\ (IF 1 <= j THEN j - 1 + 1 ELSE 0) = j /\ j - 1 + 1 = j /\ \A k \in 1..j : 1 + k - 1 = k
    BY <1>1, SMT
  <2> HIDE DEF j
  <2> DEFINE f == SubSeq(s, 1, j)
  <2>2. /\ f \in Seq(S) /\ Len(f) = (IF 1 <= j THEN j - 1 + 1 ELSE 0)
        /\ \A k \in 1..(j - 1 + 1) : f[k] = s[1 + k - 1]
    BY <2>1, SubSeqProperties
  <2> HIDE DEF f
  <2>3. f \in Seq(S) /\ Len(f) = j /\ \A k \in 1..j : f[k] = s[k]
    BY <2>1, <2>2
  <2> QED BY <2>3 DEF f, j
<1>3. back \in Seq(S) /\ Len(back) = (n - i) + 1 /\ \A k \in 1..((n - i) + 1) : back[k] = s[(i + k) - 1]
  <2>1. /\ i \in Int /\ n \in Int /\ \A k \in i..n : s[k] \in S
    BY <1>1, SMT
  <2>2. /\ (IF i <= n THEN n - i + 1 ELSE 0) = (n - i) + 1 /\ n - i + 1 = (n - i) + 1
        /\ \A k \in 1..((n - i) + 1) : i + k - 1 = (i + k) - 1
    BY <1>1, SMT
  <2> HIDE DEF n
  <2>3. /\ back \in Seq(S) /\ Len(back) = (IF i <= n THEN n - i + 1 ELSE 0)
        /\ \A k \in 1..(n - i + 1) : back[k] = s[i + k - 1]
    BY <2>1, SubSeqProperties
  <2> QED BY <2>2, <2>3
<1> QED BY <1>2, <1>3

\* InsertAt () keeps what was before and after the place.
LEMMA Inserted ==
    ASSUME NEW S, NEW s \in Seq(S), NEW x \in S, NEW i \in 1..(Len(s) + 1)
    PROVE  /\ InsertAt(s, i, x) \in Seq(S) /\ Len(InsertAt(s, i, x)) = Len(s) + 1
           /\ InsertAt(s, i, x)[i] = x
           /\ \A k \in 1..(i - 1) : InsertAt(s, i, x)[k] = s[k]
           /\ \A k \in i..Len(s) : InsertAt(s, i, x)[k + 1] = s[k]
<1> DEFINE n == Len(s)
           front == SubSeq(s, 1, i - 1)
           back == SubSeq(s, i, n)
           first == front \o <<x>>
           u == first \o back
<1>1. n \in Nat /\ i - 1 \in Nat
  BY LenProperties, SMT
<1>2. /\ front \in Seq(S) /\ Len(front) = i - 1 /\ \A k \in 1..(i - 1) : front[k] = s[k]
      /\ back \in Seq(S) /\ Len(back) = (n - i) + 1
      /\ \A k \in 1..((n - i) + 1) : back[k] = s[(i + k) - 1]
  BY Parts
<1>3. u = InsertAt(s, i, x)
  BY DEF InsertAt
<1> HIDE DEF front, back, n
<1>4. <<x>> \in Seq(S) /\ Len(<<x>>) = 1 /\ <<x>>[1] = x
  OBVIOUS
<1>5. first \in Seq(S) /\ Len(first) = i /\ first[i] = x /\ \A k \in 1..(i - 1) : first[k] = s[k]
  <2> DEFINE y == <<x>>
  <2>1. y \in Seq(S) /\ Len(y) = 1 /\ y[1] = x
    BY <1>4
  <2> HIDE DEF y
  <2>2. /\ front \o y \in Seq(S) /\ Len(front \o y) = Len(front) + Len(y)
        /\ \A k \in 1..(Len(front) + Len(y)) :
              (front \o y)[k] = IF k <= Len(front) THEN front[k] ELSE y[k - Len(front)]
    BY <1>2, <2>1, ConcatProperties
  <2> DEFINE z == front \o y
  <2> HIDE DEF z
  <2>3. /\ z \in Seq(S) /\ Len(z) = (i - 1) + 1
        /\ \A k \in 1..((i - 1) + 1) : z[k] = IF k <= i - 1 THEN front[k] ELSE y[k - (i - 1)]
    BY <1>2, <2>1, <2>2 DEF z
  <2>4. /\ (i - 1) + 1 = i /\ i \in 1..i /\ ~(i <= i - 1) /\ i - (i - 1) = 1
        /\ \A k \in 1..(i - 1) : k \in 1..i /\ k <= i - 1
    BY SMT
  <2>5. z \in Seq(S) /\ Len(z) = i /\ z[i] = x /\ \A k \in 1..(i - 1) : z[k] = s[k]
    BY <1>2, <2>1, <2>3, <2>4
  <2> QED BY <2>5 DEF z, y
<1> HIDE DEF first
<1>6. /\ u \in Seq(S) /\ Len(u) = Len(first) + Len(back)
      /\ \A k \in 1..(Len(first) + Len(back)) :
            u[k] = IF k <= Len(first) THEN first[k] ELSE back[k - Len(first)]
  BY <1>2, <1>5, ConcatProperties
<1> HIDE DEF u
<1>7. /\ u \in Seq(S) /\ Len(u) = i + ((n - i) + 1)
      /\ \A k \in 1..(i + ((n - i) + 1)) : u[k] = IF k <= i THEN first[k] ELSE back[k - i]
  BY <1>2, <1>5, <1>6
<1>8. i + ((n - i) + 1) = n + 1 /\ i \in 1..(n + 1) /\ i <= i
      /\ (\A k \in 1..(i - 1) : k \in 1..(n + 1) /\ k <= i)
      /\ (\A k \in i..n : /\ k + 1 \in 1..(n + 1) /\ ~(k + 1 <= i)
                         /\ (k + 1) - i \in 1..((n - i) + 1) /\ (i + ((k + 1) - i)) - 1 = k)
  BY <1>1, SMT DEF n
<1>9. u[i] = x /\ \A k \in 1..(i - 1) : u[k] = s[k]
  BY <1>5, <1>7, <1>8
<1>10. ASSUME NEW k \in i..n PROVE u[k + 1] = s[k]
  BY <1>2, <1>7, <1>8
<1>11. Len(u) = n + 1
  BY <1>7, <1>8
<1> QED BY <1>3, <1>7, <1>9, <1>10, <1>11 DEF n

\* What RemoveAt () of the community modules makes.
LEMMA Removed ==
    ASSUME NEW S, NEW s \in Seq(S), NEW i \in 1..Len(s)
    PROVE  /\ RemoveAt(s, i) \in Seq(S) /\ Len(RemoveAt(s, i)) = Len(s) - 1
           /\ \A k \in 1..(i - 1) : RemoveAt(s, i)[k] = s[k]
           /\ \A k \in i..(Len(s) - 1) : RemoveAt(s, i)[k] = s[k + 1]
<1> DEFINE n == Len(s)
           j == i + 1
           front == SubSeq(s, 1, i - 1)
           back == SubSeq(s, j, Len(s))
           w == front \o back
<1>1. n \in Nat /\ i \in 1..(n + 1) /\ j \in 1..(n + 1) /\ i - 1 \in Nat /\ j = i + 1
  BY LenProperties, SMT
<1>2. w = RemoveAt(s, i)
  BY DEF RemoveAt
<1> HIDE DEF j
<1>3. front \in Seq(S) /\ Len(front) = i - 1 /\ \A k \in 1..(i - 1) : front[k] = s[k]
  BY <1>1, Parts
<1>4. /\ back \in Seq(S) /\ Len(back) = (n - j) + 1
      /\ \A k \in 1..((n - j) + 1) : back[k] = s[(j + k) - 1]
  BY <1>1, Parts
<1> HIDE DEF front, back, n
<1>5. /\ w \in Seq(S) /\ Len(w) = Len(front) + Len(back)
      /\ \A k \in 1..(Len(front) + Len(back)) :
            w[k] = IF k <= Len(front) THEN front[k] ELSE back[k - Len(front)]
  BY <1>3, <1>4, ConcatProperties
<1> HIDE DEF w
<1>6. Len(back) = n - i /\ Len(front) + Len(back) = n - 1
  BY <1>1, <1>3, <1>4, SMT
<1>7. ASSUME NEW k \in 1..(i - 1) PROVE w[k] = s[k]
  <2>1. k \in 1..(n - 1) /\ k <= i - 1
    BY <1>1, SMT DEF n
  <2> QED BY <1>3, <1>5, <1>6, <2>1
<1>8. ASSUME NEW k \in i..(n - 1) PROVE w[k] = s[k + 1]
  <2>1. /\ k \in 1..(n - 1) /\ ~(k <= i - 1) /\ k - (i - 1) \in 1..((n - j) + 1)
        /\ (j + (k - (i - 1))) - 1 = k + 1
    BY <1>1, SMT DEF n
  <2> QED BY <1>3, <1>4, <1>5, <1>6, <2>1
<1>9. Len(w) = n - 1
  BY <1>5, <1>6
<1> QED BY <1>2, <1>5, <1>7, <1>8, <1>9, Zenon DEF n

\* RemoveAt () undoes InsertAt ().
LEMMA InsertedRemoved ==
    ASSUME NEW S, NEW s \in Seq(S), NEW x \in S, NEW i \in 1..(Len(s) + 1)
    PROVE  RemoveAt(InsertAt(s, i, x), i) = s
<1> DEFINE n == Len(s)
           u == InsertAt(s, i, x)
           w == RemoveAt(u, i)
<1>1. n \in Nat /\ (n + 1) - 1 = n
  BY LenProperties, SMT
<1>2. /\ u \in Seq(S) /\ Len(u) = n + 1
      /\ \A k \in 1..(i - 1) : u[k] = s[k]
      /\ \A k \in i..n : u[k + 1] = s[k]
  <2> HIDE DEF n, w
  <2>1. u \in Seq(S) /\ Len(u) = Len(s) + 1
    BY Inserted
  <2>2. \A k \in 1..(i - 1) : u[k] = s[k]
    BY Inserted
  <2>3. \A k \in i..Len(s) : u[k + 1] = s[k]
    BY Inserted
  <2> QED BY <2>1, <2>2, <2>3 DEF n
<1> HIDE DEF u
<1>3. i \in 1..Len(u)
  BY <1>2
<1>4. /\ w \in Seq(S) /\ Len(w) = Len(u) - 1
      /\ \A k \in 1..(i - 1) : w[k] = u[k]
      /\ \A k \in i..(Len(u) - 1) : w[k] = u[k + 1]
  BY <1>2, <1>3, Removed
<1> HIDE DEF w
<1>5. ASSUME NEW k \in 1..n PROVE w[k] = s[k]
  <2>1. k \in 1..(i - 1) \/ k \in i..n
    BY <1>1, SMT
  <2> QED BY <1>1, <1>2, <1>4, <2>1
<1>6. Len(w) = n
  BY <1>1, <1>2, <1>4
<1>7. w = s
  BY <1>4, <1>5, <1>6, SeqEqual DEF n
<1> QED BY <1>7 DEF u, w

\* InsertAt () undoes RemoveAt ().
LEMMA RemovedInserted ==
    ASSUME NEW S, NEW s \in Seq(S), NEW i \in 1..Len(s)
    PROVE  InsertAt(RemoveAt(s, i), i, s[i]) = s
<1> DEFINE n == Len(s)
           x == s[i]
           u == RemoveAt(s, i)
           w == InsertAt(u, i, x)
<1>1. n \in Nat /\ (n - 1) + 1 = n /\ i \in 1..((n - 1) + 1)
  BY LenProperties, SMT
<1>0. x \in S
  BY ElementOfSeq
<1>2. /\ u \in Seq(S) /\ Len(u) = n - 1
      /\ \A k \in 1..(i - 1) : u[k] = s[k]
      /\ \A k \in i..(n - 1) : u[k] = s[k + 1]
  BY Removed
<1> HIDE DEF u, x
<1>3. i \in 1..(Len(u) + 1)
  BY <1>1, <1>2
<1>4. /\ w \in Seq(S) /\ Len(w) = Len(u) + 1 /\ w[i] = x
      /\ \A k \in 1..(i - 1) : w[k] = u[k]
      /\ \A k \in i..Len(u) : w[k + 1] = u[k]
  <2> HIDE DEF n
  <2>0. u \in Seq(S)
    BY <1>2
  <2>1. /\ w \in Seq(S) /\ Len(w) = Len(u) + 1
        /\ \A k \in 1..(i - 1) : w[k] = u[k]
    BY <1>0, <2>0, <1>3, Inserted
  <2>2. w[i] = x
    BY <1>0, <2>0, <1>3, Inserted
  <2>3. \A k \in i..Len(u) : w[k + 1] = u[k]
    BY <1>0, <2>0, <1>3, Inserted
  <2> QED BY <2>1, <2>2, <2>3
<1> HIDE DEF w
<1>6. ASSUME NEW k \in 1..n PROVE w[k] = s[k]
  <2>1. k \in 1..(i - 1) \/ k = i \/ (k - 1 \in i..(n - 1) /\ (k - 1) + 1 = k)
    BY <1>1, SMT
  <2>2. k = i => w[k] = s[k]
    BY <1>4 DEF x
  <2>3. ASSUME k - 1 \in i..(n - 1), (k - 1) + 1 = k PROVE w[k] = s[k]
    <3> DEFINE j == k - 1
    <3>1. j \in i..(n - 1) /\ j + 1 = k
      BY <2>3
    <3> HIDE DEF j
    <3>2. w[j + 1] = u[j] /\ u[j] = s[j + 1]
      BY <1>2, <1>4, <3>1
    <3> QED BY <3>1, <3>2
  <2> QED BY <1>2, <1>4, <2>1, <2>2, <2>3
<1>7. Len(w) = n
  BY <1>1, <1>2, <1>4
<1>8. w = s
  BY <1>4, <1>6, <1>7, SeqEqual DEF n
<1> QED BY <1>8 DEF w, u, x

\* Whatever its length, an array is given back when what was removed, at any
\* index, is inserted again.
LEMMA RemovalLawHolds ==
    ASSUME NEW a, IsSequence(Payload(a)), a = Variant(TypeOfValue(a), Payload(a)), NEW n \in Nat
    PROVE  RemovalLaw(a, n)
<1> DEFINE s == Payload(a)
           p == Smaller(n, Len(s) - 1)
           i == p + 1
           u == RemoveAt(s, i)
           shorter == _array_remove_evaluate(a, Variant(<<"u">>, n))
           place == Variant(<<"u">>, p)
<1>0. s \in Seq(ToSet(s)) /\ Len(s) \in Nat
  BY LenProperties DEF IsSequence
<1>1. CASE s = <<>>
  <2>1. Len(s) = 0
    BY <1>1
  <2> QED BY <1>1, <2>1 DEF RemovalLaw, _array_remove_evaluate
<1>2. CASE s # <<>>
  <2>1. Len(s) # 0
    BY <1>0, <1>2, EmptySeq
  <2>2. Payload(Variant(<<"u">>, n)) = n /\ Payload(place) = p
    BY DEF Variant, Payload
  <2>3. shorter = Variant(TypeOfValue(a), u)
    BY <2>1, <2>2 DEF _array_remove_evaluate
  <2>4. Payload(shorter) = u /\ TypeOfValue(shorter) = TypeOfValue(a)
    BY <2>3 DEF Variant, Payload, TypeOfValue
  <2>5. Child(a, p + 1) = s[i]
    BY DEF Child, Payload
  <2> HIDE DEF s
  <2>6. i \in 1..Len(s) /\ p <= Len(s) - 1 /\ Smaller(p, Len(s) - 1) = p
    BY <1>0, <2>1, SMT DEF Smaller
  <2> HIDE DEF p
  <2>7. Len(u) = Len(s) - 1 /\ InsertAt(u, i, s[i]) = s
    BY <1>0, <2>6, Removed, RemovedInserted
  <2> HIDE DEF u
  <2>8. _array_insert_evaluate(shorter, place, s[i]) = a
    <3>1. _array_insert_evaluate(shorter, place, s[i]) = Variant(TypeOfValue(a), InsertAt(u, i, s[i]))
      BY <2>2, <2>4, <2>6, <2>7 DEF _array_insert_evaluate
    <3> QED BY <2>7, <3>1 DEF s
  <2> QED BY <1>2, <2>4, <2>5, <2>7, <2>8 DEF RemovalLaw, s, p
<1> QED BY <1>1, <1>2

\* Whatever its length, an array gives back what is inserted, and is given back
\* when that is removed, or when what was removed is inserted again.
THEOREM ArrayLawsHold ==
    ASSUME NEW a, IsSequence(Payload(a)), a = Variant(TypeOfValue(a), Payload(a)),
           NEW n \in Nat, NEW x, NEW default
    PROVE  ArrayLaws(a, n, x, default)
<1> DEFINE s == Payload(a)
           S == ToSet(s) \cup {x}
           p == Smaller(n, Len(s))
           i == p + 1
           u == InsertAt(s, i, x)
           index == Variant(<<"u">>, n)
           place == Variant(<<"u">>, p)
           longer == _array_insert_evaluate(a, index, x)
<1>1. s \in Seq(S) /\ x \in S /\ Len(s) \in Nat
  BY SeqMonotonic, LenProperties DEF IsSequence
<1>2. Payload(index) = n /\ Payload(place) = p /\ longer = Variant(TypeOfValue(a), u)
  BY DEF _array_insert_evaluate, Variant, Payload
<1>3. Payload(longer) = u /\ TypeOfValue(longer) = TypeOfValue(a)
  BY <1>2 DEF Variant, Payload, TypeOfValue
<1> HIDE DEF s, S, index, place, longer
<1>4. i \in 1..(Len(s) + 1) /\ p \in Nat /\ ~(p >= Len(s) + 1) /\ (Len(s) + 1) - 1 = Len(s)
      /\ Len(s) + 1 # 0 /\ Smaller(p, Len(s)) = p
  BY <1>1, SMT DEF Smaller
<1> HIDE DEF p
<1>5. u \in Seq(S) /\ Len(u) = Len(s) + 1 /\ u[i] = x
  BY <1>1, <1>4, Inserted
<1>6. RemoveAt(u, i) = s
  BY <1>1, <1>4, InsertedRemoved
<1> HIDE DEF u
<1>7. _array_get_evaluate(longer, place, default) = {x}
  BY <1>2, <1>3, <1>4, <1>5 DEF _array_get_evaluate, Child, Payload
<1>8. _array_remove_evaluate(longer, place) = a
  <2>1. _array_remove_evaluate(longer, place) = Variant(TypeOfValue(a), RemoveAt(u, i))
    BY <1>2, <1>3, <1>4, <1>5 DEF _array_remove_evaluate
  <2> QED BY <1>6, <2>1 DEF s
<1>9. n >= Len(s) => _array_get_evaluate(a, index, default) = {default}
  BY <1>2 DEF _array_get_evaluate, s
<1>10. _in_array_evaluate(x, longer) = {Boolean(TRUE)}
  <2>1. i \in DOMAIN Payload(longer)
    BY <1>1, <1>3, <1>4, <1>5, LenProperties
  <2>2. Child(longer, i) = x
    BY <1>3, <1>5 DEF Child, Payload
  <2> QED BY <2>1, <2>2 DEF _in_array_evaluate
<1>11. RemovalLaw(a, n)
  BY RemovalLawHolds
<1> QED BY <1>7, <1>8, <1>9, <1>10, <1>11 DEF ArrayLaws, InsertionLaws, s, p, index, place, longer

-----------------------------------------------------------------------------
(* Dictionaries.                                                           *)

\* The places of a key among entries.
PlacesIn(entries, key) == {k \in 1..Len(entries) : Key(entries[k]) = key}

LEMMA PlacesFacts ==
    ASSUME NEW d, IsSequence(Payload(d)), NEW key
    PROVE  /\ Places(d, key) = PlacesIn(Payload(d), key)
           /\ Places(d, key) \in SUBSET Nat /\ IsFiniteSet(Places(d, key))
<1> DEFINE s == Payload(d)
<1>1. Len(s) \in Nat /\ DOMAIN s = 1..Len(s)
  BY SequenceFacts
<1>2. Places(d, key) = PlacesIn(s, key)
  BY <1>1 DEF Places, KeysOf, PlacesIn, Child, Payload
<1>3. IsFiniteSet(1..Len(s)) /\ PlacesIn(s, key) \subseteq 1..Len(s)
  BY <1>1, FS_Interval DEF PlacesIn
<1> HIDE DEF s
<1>4. IsFiniteSet(PlacesIn(s, key)) /\ PlacesIn(s, key) \in SUBSET Nat
  BY <1>1, <1>3, FS_Subset
<1> QED BY <1>2, <1>4 DEF s

\* The value of a key is that of its first entry.
LEMMA GetFacts ==
    ASSUME NEW d, IsSequence(Payload(d)), NEW key, NEW default
    PROVE  /\ PlacesIn(Payload(d), key) = {} => _dict_get_evaluate(d, key, default) = default
           /\ \A k \in PlacesIn(Payload(d), key) :
                (\A j \in PlacesIn(Payload(d), key) : k <= j) =>
                  _dict_get_evaluate(d, key, default) = Child(Payload(d)[k], 2)
<1> DEFINE P == Places(d, key)
           m == CHOOSE k \in P : \A j \in P : k <= j
<1>1. P = PlacesIn(Payload(d), key) /\ P \in SUBSET Nat
  BY PlacesFacts
<1>2. _dict_get_evaluate(d, key, default) = IF P = {} THEN default ELSE Child(Child(d, m), 2)
  BY Zenon DEF _dict_get_evaluate
<1> HIDE DEF P
<1>3. ASSUME NEW k \in P, \A j \in P : k <= j PROVE m = k
  <2>1. m \in P /\ \A j \in P : m <= j
    BY <1>3, Zenon
  <2> HIDE DEF m
  <2>2. m <= k /\ k <= m /\ m \in Nat /\ k \in Nat
    BY <1>1, <1>3, <2>1
  <2> QED BY <2>2, SMT
<1> HIDE DEF m
<1>4. ASSUME NEW k \in P, \A j \in P : k <= j
      PROVE  _dict_get_evaluate(d, key, default) = Child(Payload(d)[k], 2)
  BY <1>2, <1>3, <1>4 DEF Child, Payload
<1> QED BY <1>1, <1>2, <1>4

\* Entries of a key that are in the same places give it the same value.
LEMMA SameGet ==
    ASSUME NEW d, NEW e, IsSequence(Payload(d)), IsSequence(Payload(e)), NEW key, NEW default,
           PlacesIn(Payload(d), key) = PlacesIn(Payload(e), key),
           \A k \in PlacesIn(Payload(d), key) : Payload(d)[k] = Payload(e)[k]
    PROVE  _dict_get_evaluate(d, key, default) = _dict_get_evaluate(e, key, default)
<1> DEFINE P == PlacesIn(Payload(d), key)
<1>1. CASE P = {}
  <2>1. _dict_get_evaluate(d, key, default) = default
    BY <1>1, GetFacts
  <2>2. _dict_get_evaluate(e, key, default) = default
    BY <1>1, GetFacts
  <2> QED BY <2>1, <2>2
<1>2. CASE P # {}
  <2>1. P \in SUBSET Nat
    BY PlacesFacts
  <2>2. PICK k \in P : \A j \in P : k <= j
    BY <1>2, <2>1, LeastNatural
  <2>3. _dict_get_evaluate(d, key, default) = Child(Payload(d)[k], 2)
    BY <2>2, GetFacts
  <2>4. _dict_get_evaluate(e, key, default) = Child(Payload(e)[k], 2)
    BY <2>2, GetFacts
  <2> QED BY <2>2, <2>3, <2>4
<1> QED BY <1>1, <1>2

\* f[k] is what is kept of the first k entries.
Keeps(f, entries, key) ==
    /\ f[0] = <<>>
    /\ \A k \in 1..Len(entries) :
          f[k] = IF Key(entries[k]) = key THEN f[k - 1] ELSE Append(f[k - 1], entries[k])

LEMMA WithoutRecursion ==
    ASSUME NEW entries, NEW key, IsSequence(entries)
    PROVE  \E f : Without(entries, key) = f[Len(entries)] /\ Keeps(f, entries, key)
<1> DEFINE n == Len(entries)
           J(kept, k) == IF Key(entries[k]) = key THEN kept ELSE Append(kept, entries[k])
           Body(f, m) == [k \in 0..m |-> IF k = 0 THEN <<>>
                                         ELSE IF Key(entries[k]) = key THEN f[k - 1]
                                         ELSE Append(f[k - 1], entries[k])]
           P == {m \in 0..n : \E f : f = Body(f, m)}
<1>1. n \in Nat /\ 0 \in 0..n /\ n \in 0..n /\ 0 \in Nat /\ 0 <= n
  BY SequenceFacts
<1>2. Without(entries, key) = (CHOOSE f : f = Body(f, n))[n]
  BY Zenon DEF Without
<1>9. \A f, m : Body(f, m) = [k \in 0..m |-> IF k = 0 THEN <<>> ELSE J(f[k - 1], k)]
  OBVIOUS
<1> HIDE DEF J, Body
<1>3. 0 \in P
  <2> DEFINE f == [k \in 0..0 |-> <<>>]
  <2>1. f = [k \in 0..0 |-> IF k = 0 THEN <<>> ELSE J(f[k - 1], k)]
    BY SMT
  <2> QED BY <1>1, <1>9, <2>1
<1>4. ASSUME NEW m \in 0..(n - 1), m \in P PROVE m + 1 \in P
  <2>1. PICK f : f = Body(f, m)
    BY <1>4
  <2>5. f = [k \in 0..m |-> IF k = 0 THEN <<>> ELSE J(f[k - 1], k)]
    BY <1>9, <2>1
  <2> DEFINE g == [k \in 0..(m + 1) |-> IF k = m + 1 THEN J(f[m], m + 1) ELSE f[k]]
  <2>2. ASSUME NEW k \in 0..(m + 1)
        PROVE  g[k] = IF k = 0 THEN <<>> ELSE J(g[k - 1], k)
    <3>1. CASE k = m + 1
      <4>1. k # 0 /\ k - 1 = m /\ m \in 0..(m + 1) /\ m # m + 1
        BY <3>1, <1>1, SMT
      <4> QED BY <3>1, <4>1
    <3>2. CASE k # m + 1
      <4>1. k \in 0..m /\ (k # 0 => k - 1 \in 0..(m + 1) /\ k - 1 # m + 1)
        BY <3>2, <1>1, SMT
      <4>2. f[k] = IF k = 0 THEN <<>> ELSE J(f[k - 1], k)
        BY <2>5, <4>1
      <4> QED BY <3>2, <4>1, <4>2
    <3> QED BY <3>1, <3>2
  <2>3. g = [k \in 0..(m + 1) |-> IF k = 0 THEN <<>> ELSE J(g[k - 1], k)]
    BY <2>2
  <2>4. m + 1 \in 0..n
    BY <1>1, SMT
  <2> HIDE DEF g
  <2>6. g = Body(g, m + 1)
    BY <1>9, <2>3
  <2> QED BY <2>4, <2>6
<1>5. n \in P
  <2> HIDE DEF P
  <2>1. \A k \in 0..(n - 1) : k \in P => k + 1 \in P
    BY <1>4
  <2>2. \A k \in 0..n : k \in P
    BY <1>1, <1>3, <2>1, UpTo, Zenon
  <2> QED BY <1>1, <2>2
<1>6. PICK w : w = Body(w, n)
  BY <1>5
<1> DEFINE h == CHOOSE f : f = Body(f, n)
<1>7. h = Body(h, n)
  BY <1>6, Zenon
<1> HIDE DEF h
<1>8. h[0] = <<>> /\ \A k \in 1..n : h[k] = J(h[k - 1], k)
  <2>1. h = [k \in 0..n |-> IF k = 0 THEN <<>> ELSE J(h[k - 1], k)]
    BY <1>7, <1>9
  <2>2. \A k \in 0..n : h[k] = IF k = 0 THEN <<>> ELSE J(h[k - 1], k)
    BY <2>1
  <2>3. \A k \in 1..n : k \in 0..n /\ k # 0
    BY <1>1, SMT
  <2> QED BY <1>1, <2>2, <2>3
<1>10. Without(entries, key) = h[n]
  BY <1>2 DEF h
<1>11. Keeps(h, entries, key)
  BY <1>8 DEF J, Keeps
<1> QED BY <1>10, <1>11

\* The first n entries of s and r are the same but for the values of the key.
SameOutside(s, r, key, n) ==
    \A k \in 1..n : s[k] = r[k] \/ (Key(s[k]) = key /\ Key(r[k]) = key)

\* Entries of the key are dropped, whatever their values are.
LEMMA KeepsSame ==
    ASSUME NEW s, NEW r, NEW key, NEW n \in Nat,
           1..n \subseteq 1..Len(s), 1..n \subseteq 1..Len(r),
           SameOutside(s, r, key, n),
           NEW f, NEW g, Keeps(f, s, key), Keeps(g, r, key)
    PROVE  f[n] = g[n]
<1> DEFINE P == {k \in 0..n : f[k] = g[k]}
<1>1. 0 \in Nat /\ 0 <= n /\ n \in 0..n /\ 0 \in 0..n
  BY SMT
<1>2. 0 \in P
  BY <1>1 DEF Keeps
<1>3. ASSUME NEW k \in 0..(n - 1), k \in P PROVE k + 1 \in P
  <2>1. k + 1 \in 1..n /\ k + 1 \in 0..n /\ (k + 1) - 1 = k
    BY SMT
  <2>2. f[k + 1] = IF Key(s[k + 1]) = key THEN f[k] ELSE Append(f[k], s[k + 1])
    BY <2>1 DEF Keeps
  <2>3. g[k + 1] = IF Key(r[k + 1]) = key THEN g[k] ELSE Append(g[k], r[k + 1])
    BY <2>1 DEF Keeps
  <2>4. s[k + 1] = r[k + 1] \/ (Key(s[k + 1]) = key /\ Key(r[k + 1]) = key)
    BY <2>1 DEF SameOutside
  <2> QED BY <1>3, <2>1, <2>2, <2>3, <2>4
<1> HIDE DEF P
<1>4. \A k \in 0..(n - 1) : k \in P => k + 1 \in P
  BY <1>3
<1>5. \A k \in 0..n : k \in P
  BY <1>1, <1>2, <1>4, UpTo, Zenon
<1> QED BY <1>1, <1>5 DEF P

LEMMA WithoutReplaced ==
    ASSUME NEW s, NEW r, NEW key, IsSequence(s), IsSequence(r), Len(s) = Len(r),
           SameOutside(s, r, key, Len(s))
    PROVE  Without(s, key) = Without(r, key)
<1>1. PICK f : Without(s, key) = f[Len(s)] /\ Keeps(f, s, key)
  BY WithoutRecursion
<1>2. PICK g : Without(r, key) = g[Len(r)] /\ Keeps(g, r, key)
  BY WithoutRecursion
<1>3. Len(s) \in Nat
  BY SequenceFacts
<1>4. 1..Len(s) \subseteq 1..Len(s) /\ 1..Len(s) \subseteq 1..Len(r)
  OBVIOUS
<1>5. f[Len(s)] = g[Len(s)]
  BY <1>1, <1>2, <1>3, <1>4, KeepsSame
<1> QED BY <1>1, <1>2, <1>5

LEMMA WithoutAppended ==
    ASSUME NEW s, NEW r, NEW key, IsSequence(s), IsSequence(r), Len(r) = Len(s) + 1,
           \A k \in 1..Len(s) : s[k] = r[k], Key(r[Len(s) + 1]) = key
    PROVE  Without(s, key) = Without(r, key)
<1> DEFINE n == Len(s)
<1>1. PICK f : Without(s, key) = f[n] /\ Keeps(f, s, key)
  BY WithoutRecursion
<1>2. PICK g : Without(r, key) = g[Len(r)] /\ Keeps(g, r, key)
  BY WithoutRecursion
<1>3. n \in Nat
  BY SequenceFacts
<1>4. 1..n \subseteq 1..Len(s) /\ 1..n \subseteq 1..Len(r) /\ n + 1 \in 1..Len(r) /\ (n + 1) - 1 = n
  BY <1>3, SMT
<1>7. SameOutside(s, r, key, n)
  BY DEF SameOutside
<1> HIDE DEF n
<1>5. f[n] = g[n]
  BY <1>1, <1>2, <1>3, <1>4, <1>7, KeepsSame
<1>6. g[n + 1] = g[n]
  BY <1>2, <1>4 DEF Keeps, n
<1> QED BY <1>1, <1>2, <1>5, <1>6 DEF n

\* The first place of one key stays ahead of its other places.
IsFirst(entries, key, k) ==
    k \in PlacesIn(entries, key) /\ \A j \in PlacesIn(entries, key) : k <= j

LEMMA AppendedPlaces ==
    ASSUME NEW s, IsSequence(s), NEW e, NEW key
    PROVE  /\ IsSequence(Append(s, e)) /\ Len(Append(s, e)) = Len(s) + 1
           /\ Append(s, e)[Len(s) + 1] = e
           /\ \A k \in 1..Len(s) : Append(s, e)[k] = s[k]
           /\ PlacesIn(Append(s, e), key) =
                PlacesIn(s, key) \cup (IF Key(e) = key THEN {Len(s) + 1} ELSE {})
           /\ \A k : IsFirst(s, key, k) => IsFirst(Append(s, e), key, k)
<1> DEFINE n == Len(s)
           S == ToSet(s) \cup {e}
           u == Append(s, e)
<1>1. n \in Nat /\ s \in Seq(ToSet(s))
  BY SequenceFacts
<1>2. s \in Seq(S) /\ e \in S
  BY <1>1, SeqMonotonic
<1> HIDE DEF S
<1>3. /\ u \in Seq(S) /\ Len(u) = n + 1
      /\ \A k \in 1..n : u[k] = s[k]
      /\ u[n + 1] = e
  BY <1>1, <1>2, AppendProperties
<1>4. 1..(n + 1) = 1..n \cup {n + 1} /\ \A k \in 1..n : k <= n + 1
  BY <1>1, SMT
<1> HIDE DEF u
<1>5. PlacesIn(u, key) = PlacesIn(s, key) \cup (IF Key(e) = key THEN {n + 1} ELSE {})
  BY <1>3, <1>4 DEF PlacesIn
<1>6. ASSUME NEW k, IsFirst(s, key, k) PROVE IsFirst(u, key, k)
  <2>1. k \in 1..n
    BY <1>6 DEF IsFirst, PlacesIn
  <2> QED BY <1>4, <1>5, <1>6, <2>1 DEF IsFirst
<1>7. IsSequence(u)
  BY <1>3, SequenceOver
<1> QED BY <1>3, <1>5, <1>6, <1>7 DEF u

\* The first entry of a key is kept, and none is added.
IsKept(w, s, other) ==
    /\ PlacesIn(s, other) = {} => PlacesIn(w, other) = {}
    /\ \A j : IsFirst(s, other, j) => \E i : IsFirst(w, other, i) /\ w[i] = s[j]

\* What is kept has no entry of the key, and the first entry of every other one.
LEMMA WithoutFacts ==
    ASSUME NEW s, IsSequence(s), NEW key
    PROVE  LET w == Without(s, key)
           IN  /\ IsSequence(w) /\ PlacesIn(w, key) = {}
               /\ \A other : other # key => IsKept(w, s, other)
<1> DEFINE n == Len(s)
           In(m, other) == {j \in 1..m : Key(s[j]) = other}
           First(m, other, j) == j \in In(m, other) /\ \A i \in In(m, other) : j <= i
           Right(w, m) ==
             /\ IsSequence(w) /\ PlacesIn(w, key) = {}
             /\ \A other : other # key =>
                  /\ In(m, other) = {} => PlacesIn(w, other) = {}
                  /\ \A j : First(m, other, j) => \E i : IsFirst(w, other, i) /\ w[i] = s[j]
<1>1. PICK f : Without(s, key) = f[n] /\ Keeps(f, s, key)
  BY WithoutRecursion
<1>2. n \in Nat
  BY SequenceFacts
<1> DEFINE P == {k \in 0..n : Right(f[k], k)}
<1>3. 0 \in P
  <2>1. <<>> \in Seq({}) /\ Len(<<>>) = 0 /\ 1..0 = {}
    BY SMT
  <2>2. IsSequence(<<>>)
    BY <2>1, SequenceOver
  <2>3. \A other : PlacesIn(<<>>, other) = {} /\ In(0, other) = {}
    BY <2>1 DEF PlacesIn
  <2>4. f[0] = <<>> /\ 0 \in 0..n
    BY <1>1, <1>2, SMT DEF Keeps
  <2> HIDE DEF In
  <2> QED BY <2>2, <2>3, <2>4
<1>4. ASSUME NEW m \in 0..(n - 1), m \in P PROVE m + 1 \in P
  <2> DEFINE e == s[m + 1]
  <2>1. /\ m + 1 \in 1..n /\ m + 1 \in 0..n /\ (m + 1) - 1 = m /\ 1..(m + 1) = 1..m \cup {m + 1}
        /\ \A k \in 1..m : k <= m + 1 /\ ~(m + 1 <= k)
        /\ m + 1 <= m + 1
    BY <1>2, SMT
  <2>2. f[m + 1] = IF Key(e) = key THEN f[m] ELSE Append(f[m], e)
    BY <1>1, <2>1 DEF Keeps
  <2>3. Right(f[m], m)
    BY <1>4
  <2>4. \A other : In(m + 1, other) = In(m, other) \cup (IF Key(e) = other THEN {m + 1} ELSE {})
    BY <2>1
  <2>5. \A other : In(m, other) \subseteq 1..m
    OBVIOUS
  <2> HIDE DEF In, e
  <2>6. CASE Key(e) = key
    <3>1. \A other : other # key => In(m + 1, other) = In(m, other)
      BY <2>4, <2>6
    <3>2. f[m + 1] = f[m]
      BY <2>2, <2>6
    <3> QED BY <2>1, <2>3, <3>1, <3>2
  <2>7. CASE Key(e) # key
    <3> DEFINE w == f[m]
               u == Append(w, e)
    <3>1. f[m + 1] = u /\ IsSequence(w) /\ PlacesIn(w, key) = {}
      BY <2>2, <2>3, <2>7
    <3>8. IsSequence(u)
      BY <3>1, AppendedPlaces
    <3>9. u[Len(w) + 1] = e
      BY <3>1, AppendedPlaces
    <3>2. IsSequence(u) /\ u[Len(w) + 1] = e /\ \A k \in 1..Len(w) : u[k] = w[k]
      BY <3>1, <3>8, <3>9, AppendedPlaces
    <3>3. \A other : /\ PlacesIn(u, other) =
                          PlacesIn(w, other) \cup (IF Key(e) = other THEN {Len(w) + 1} ELSE {})
                     /\ \A k : IsFirst(w, other, k) => IsFirst(u, other, k)
      BY <3>1, AppendedPlaces
    <3>4. Len(w) + 1 <= Len(w) + 1
      BY <3>1, SequenceFacts, SMT
    <3> HIDE DEF u, w
    <3>5. ASSUME NEW other, other # key
          PROVE  /\ In(m + 1, other) = {} => PlacesIn(u, other) = {}
                 /\ \A j : First(m + 1, other, j) => \E i : IsFirst(u, other, i) /\ u[i] = s[j]
      <4>1. /\ In(m, other) = {} => PlacesIn(w, other) = {}
            /\ \A j : First(m, other, j) => \E i : IsFirst(w, other, i) /\ w[i] = s[j]
        BY <2>3, <3>5 DEF w
      <4>2. In(m + 1, other) = {} => PlacesIn(u, other) = {}
        BY <2>4, <3>3, <4>1
      <4>3. ASSUME NEW j, First(m + 1, other, j)
            PROVE  \E i : IsFirst(u, other, i) /\ u[i] = s[j]
        <5>1. CASE In(m, other) = {}
          <6>1. PlacesIn(w, other) = {} /\ j = m + 1 /\ Key(e) = other
            BY <2>4, <4>1, <4>3, <5>1
          <6>2. PlacesIn(u, other) = {Len(w) + 1}
            BY <3>3, <6>1
          <6>3. IsFirst(u, other, Len(w) + 1)
            BY <3>4, <6>2 DEF IsFirst
          <6> QED BY <3>2, <6>1, <6>3 DEF e
        <5>2. CASE In(m, other) # {}
          <6>1. j \in In(m, other)
            <7>1. PICK i \in In(m, other) : TRUE
              BY <5>2
            <7>2. j <= i /\ i \in 1..m
              BY <2>4, <2>5, <4>3, <7>1
            <7> QED BY <2>1, <2>4, <4>3, <7>2
          <6>2. First(m, other, j)
            BY <2>4, <4>3, <6>1
          <6>3. PICK i : IsFirst(w, other, i) /\ w[i] = s[j]
            BY <4>1, <6>2
          <6>4. i \in 1..Len(w)
            BY <6>3 DEF IsFirst, PlacesIn
          <6> QED BY <3>2, <3>3, <6>3, <6>4
        <5> QED BY <5>1, <5>2
      <4> QED BY <4>2, <4>3
    <3>6. PlacesIn(u, key) = {}
      BY <2>7, <3>1, <3>3 DEF w
    <3>7. f[m + 1] = u
      BY <3>1
    <3> QED BY <2>1, <3>2, <3>5, <3>6, <3>7
  <2> QED BY <2>6, <2>7
<1>5. n \in P
  <2> HIDE DEF P, n
  <2>1. \A k \in 0..(n - 1) : k \in P => k + 1 \in P
    BY <1>4
  <2>2. 0 \in Nat /\ 0 <= n /\ n \in 0..n
    BY <1>2, SMT
  <2>3. \A k \in 0..n : k \in P
    BY <1>2, <1>3, <2>1, <2>2, UpTo, Zenon
  <2> QED BY <2>2, <2>3
<1>6. Right(Without(s, key), n)
  BY <1>1, <1>5
<1>7. \A other : In(n, other) = PlacesIn(s, other)
  BY DEF PlacesIn
<1> DEFINE w == Without(s, key)
<1>8. Right(w, n)
  BY <1>6
<1> HIDE DEF w, In, n
<1>9. \A other : other # key => IsKept(w, s, other)
  BY <1>7, <1>8 DEF IsFirst, IsKept
<1> QED BY <1>8, <1>9 DEF w

\* What a dictionary is after a key is set: the key has one place, the last or
\* the one it had, and everything else is as before.
IsSetTo(r, s, key, x) ==
    /\ IsSequence(r)
    /\ \E p \in Nat : PlacesIn(r, key) = {p} /\ Child(r[p], 2) = x
    /\ \A other : other # key =>
         /\ PlacesIn(r, other) = PlacesIn(s, other)
         /\ \A k \in PlacesIn(s, other) : r[k] = s[k]
    /\ Without(r, key) = Without(s, key)

LEMMA EntryFacts ==
    ASSUME NEW t, NEW key, NEW x
    PROVE  Key(EntryOf(t, key, x)) = key /\ Child(EntryOf(t, key, x), 2) = x
BY DEF Key, EntryOf, Child, Variant

LEMMA SetByAppending ==
    ASSUME NEW s, IsSequence(s), NEW key, NEW x, NEW e, Key(e) = key, Child(e, 2) = x,
           PlacesIn(s, key) = {}
    PROVE  IsSetTo(Append(s, e), s, key, x)
<1> DEFINE r == Append(s, e)
           n == Len(s)
<1>1. n \in Nat /\ n + 1 \in Nat
  BY SequenceFacts, SMT
<1>2. IsSequence(r)
  BY AppendedPlaces
<1>3. Len(r) = n + 1
  BY AppendedPlaces
<1>4. r[n + 1] = e
  BY AppendedPlaces
<1>5. \A k \in 1..n : r[k] = s[k]
  BY AppendedPlaces
<1>6. PlacesIn(r, key) = PlacesIn(s, key) \cup (IF Key(e) = key THEN {n + 1} ELSE {})
  BY AppendedPlaces
<1>7. ASSUME NEW other, other # key
      PROVE  PlacesIn(r, other) = PlacesIn(s, other)
  <2>1. PlacesIn(r, other) = PlacesIn(s, other) \cup (IF Key(e) = other THEN {n + 1} ELSE {})
    BY AppendedPlaces
  <2> QED BY <1>7, <2>1
<1>8. \A other : \A k \in PlacesIn(s, other) : k \in 1..n
  BY DEF PlacesIn
<1> HIDE DEF r, n
<1>9. PlacesIn(r, key) = {n + 1} /\ Child(r[n + 1], 2) = x
  BY <1>4, <1>6
<1>10. Without(r, key) = Without(s, key)
  BY <1>2, <1>3, <1>4, <1>5, WithoutAppended DEF n
<1> QED BY <1>1, <1>2, <1>5, <1>7, <1>8, <1>9, <1>10 DEF IsSetTo, r

LEMMA SetByReplacing ==
    ASSUME NEW s, IsSequence(s), NEW key, NEW x, NEW e, Key(e) = key, Child(e, 2) = x,
           NEW p, PlacesIn(s, key) = {p}
    PROVE  IsSetTo(ReplaceAt(s, p, e), s, key, x)
<1> DEFINE r == ReplaceAt(s, p, e)
           n == Len(s)
           S == ToSet(s) \cup {e}
<1>1. n \in Nat /\ s \in Seq(ToSet(s)) /\ DOMAIN s = 1..n
  BY SequenceFacts
<1>2. s \in Seq(S) /\ e \in S
  BY <1>1, SeqMonotonic
<1>3. p \in 1..n /\ Key(s[p]) = key
  BY DEF PlacesIn
<1>4. r = [s EXCEPT ![p] = e]
  BY DEF ReplaceAt
<1> HIDE DEF r, S
<1>5. r \in Seq(S) /\ Len(r) = n /\ r[p] = e /\ \A k \in 1..n : k # p => r[k] = s[k]
  BY <1>1, <1>2, <1>3, <1>4, ExceptSeq
<1>6. IsSequence(r)
  BY <1>5, SequenceOver
<1> HIDE DEF n
<1>7. PlacesIn(r, key) = {p} /\ Child(r[p], 2) = x
  <2>1. \A k \in 1..n : Key(r[k]) = key <=> k \in PlacesIn(s, key)
    BY <1>3, <1>5 DEF PlacesIn, n
  <2> QED BY <1>3, <1>5, <2>1 DEF PlacesIn
<1>8. ASSUME NEW other, other # key
      PROVE  /\ PlacesIn(r, other) = PlacesIn(s, other)
             /\ \A k \in PlacesIn(s, other) : r[k] = s[k]
  <2>1. PlacesIn(s, other) = {k \in 1..n : Key(s[k]) = other}
    BY DEF PlacesIn, n
  <2>2. PlacesIn(r, other) = {k \in 1..n : Key(r[k]) = other}
    BY <1>5 DEF PlacesIn
  <2> QED BY <1>3, <1>5, <1>8, <2>1, <2>2
<1>9. SameOutside(s, r, key, n)
  BY <1>3, <1>5 DEF SameOutside
<1>10. Without(r, key) = Without(s, key)
  BY <1>5, <1>6, <1>9, WithoutReplaced DEF n
<1>11. p \in Nat
  BY <1>1, <1>3, SMT
<1> QED BY <1>6, <1>7, <1>8, <1>10, <1>11 DEF IsSetTo, r

\* Setting a key aborts if it has several places, and otherwise gives it one.
LEMMA SetFacts ==
    ASSUME NEW d, IsSequence(Payload(d)), NEW key, NEW x,
           ~IsAbort(_dict_set_evaluate(d, key, x))
    PROVE  \E r : /\ _dict_set_evaluate(d, key, x) = Variant(TypeOfValue(d), r)
                  /\ IsSetTo(r, Payload(d), key, x)
<1> DEFINE s == Payload(d)
           t == TypeOfValue(d)
           e == EntryOf(t[2], key, x)
           P == Places(d, key)
           c == CHOOSE k \in P : TRUE
           r == IF P = {} THEN Append(s, e) ELSE ReplaceAt(s, c, e)
<1>1. P = PlacesIn(s, key) /\ IsFiniteSet(P)
  BY PlacesFacts
<1>2. Key(e) = key /\ Child(e, 2) = x
  BY EntryFacts
<1>3. _dict_set_evaluate(d, key, x) =
        IF Cardinality(P) > 1 THEN Aborts("key found twice") ELSE Variant(t, r)
  BY Zenon DEF _dict_set_evaluate
<1>4. IsAbort(Aborts("key found twice"))
  BY DEF IsAbort, Aborts, Variant
<1>5. c \in P \/ P = {}
  BY Zenon
<1> HIDE DEF e, P, c
<1>6. ~(Cardinality(P) > 1) /\ _dict_set_evaluate(d, key, x) = Variant(t, r)
  BY <1>3, <1>4
<1>7. P = {} \/ P = {c}
  <2>1. Cardinality(P) \in Nat
    BY <1>1, FS_CardinalityType
  <2>2. Cardinality(P) = 0 \/ Cardinality(P) = 1
    BY <1>6, <2>1, SMT
  <2>3. Cardinality(P) = 0 => P = {}
    BY <1>1, FS_EmptySet
  <2>4. Cardinality(P) = 1 => \E k : P = {k}
    BY <1>1, FS_Singleton
  <2> QED BY <1>5, <2>2, <2>3, <2>4
<1> HIDE DEF s
<1>8. IsSequence(s)
  BY DEF s
<1>9. IsSetTo(r, s, key, x)
  <2>1. CASE P = {}
    <3>1. IsSetTo(Append(s, e), s, key, x)
      BY <1>1, <1>2, <1>8, <2>1, SetByAppending
    <3> QED BY <2>1, <3>1
  <2>2. CASE P # {}
    <3>1. PlacesIn(s, key) = {c}
      BY <1>1, <1>7, <2>2
    <3>2. IsSetTo(ReplaceAt(s, c, e), s, key, x)
      BY <1>2, <1>8, <3>1, SetByReplacing
    <3> QED BY <2>2, <3>2
  <2> QED BY <2>1, <2>2
<1> QED BY <1>6, <1>9, Zenon DEF s

\* Whatever its entries, a dictionary gives back what is set, no longer has what
\* is unset, and keeps the values of the other keys (functions.page of the manual).
THEOREM DictLawsHold ==
    ASSUME NEW d, IsSequence(Payload(d)), NEW key, NEW other, NEW x, NEW default
    PROVE  DictLaws(d, key, other, x, default)
<1> DEFINE s == Payload(d)
           set == _dict_set_evaluate(d, key, x)
           unset == _dict_unset_evaluate(d, key)
           w == Without(s, key)
<1>1. unset = Variant(TypeOfValue(d), w) /\ Payload(unset) = w
  BY DEF _dict_unset_evaluate, Variant, Payload
<1>2. IsSequence(w) /\ PlacesIn(w, key) = {}
  BY WithoutFacts
<1>3. ASSUME other # key
      PROVE  /\ PlacesIn(s, other) = {} => PlacesIn(w, other) = {}
             /\ \A j : IsFirst(s, other, j) => \E i : IsFirst(w, other, i) /\ w[i] = s[j]
  <2>1. IsKept(w, s, other)
    BY <1>3, WithoutFacts
  <2> HIDE DEF w, s
  <2> QED BY <2>1 DEF IsKept
<1> HIDE DEF w, unset
<1>4. _dict_get_evaluate(unset, key, default) = default
  BY <1>1, <1>2, GetFacts
<1>5. ASSUME other # key
      PROVE  _dict_get_evaluate(unset, other, default) = _dict_get_evaluate(d, other, default)
  <2>1. IsSequence(Payload(unset))
    BY <1>1, <1>2
  <2>2. CASE PlacesIn(s, other) = {}
    <3>1. _dict_get_evaluate(d, other, default) = default
      BY <2>2, GetFacts
    <3>2. PlacesIn(Payload(unset), other) = {}
      BY <1>1, <1>3, <1>5, <2>2
    <3>3. _dict_get_evaluate(unset, other, default) = default
      BY <2>1, <3>2, GetFacts
    <3> QED BY <3>1, <3>3
  <2>3. CASE PlacesIn(s, other) # {}
    <3>1. PlacesIn(s, other) \in SUBSET Nat
      BY PlacesFacts
    <3>2. PICK j \in PlacesIn(s, other) : \A k \in PlacesIn(s, other) : j <= k
      BY <2>3, <3>1, LeastNatural
    <3>3. IsFirst(s, other, j)
      BY <3>2 DEF IsFirst
    <3>4. PICK i : IsFirst(w, other, i) /\ w[i] = s[j]
      BY <1>3, <1>5, <3>3
    <3>5. _dict_get_evaluate(d, other, default) = Child(s[j], 2)
      BY <3>2, GetFacts
    <3>6. i \in PlacesIn(Payload(unset), other) /\ \A k \in PlacesIn(Payload(unset), other) : i <= k
      BY <1>1, <3>4 DEF IsFirst
    <3>7. _dict_get_evaluate(unset, other, default) = Child(w[i], 2)
      BY <1>1, <2>1, <3>6, GetFacts
    <3> QED BY <3>4, <3>5, <3>7
  <2> QED BY <2>2, <2>3
<1>6. ASSUME ~IsAbort(set)
      PROVE  /\ _dict_get_evaluate(set, key, default) = x
             /\ other # key =>
                  _dict_get_evaluate(set, other, default) = _dict_get_evaluate(d, other, default)
             /\ _dict_unset_evaluate(set, key) = unset
  <2>1. PICK r : set = Variant(TypeOfValue(d), r) /\ IsSetTo(r, s, key, x)
    BY <1>6, SetFacts
  <2>2. Payload(set) = r /\ TypeOfValue(set) = TypeOfValue(d)
    BY <2>1 DEF Variant, Payload, TypeOfValue
  <2> HIDE DEF set
  <2>3. IsSequence(Payload(set)) /\ Without(r, key) = w
    BY <2>1, <2>2 DEF IsSetTo, w
  <2>4. PICK p \in Nat : PlacesIn(r, key) = {p} /\ Child(r[p], 2) = x
    BY <2>1 DEF IsSetTo
  <2>5. _dict_get_evaluate(set, key, default) = x
    <3>1. p \in PlacesIn(Payload(set), key) /\ \A k \in PlacesIn(Payload(set), key) : p <= k
      <4>1. p <= p
        BY SMT
      <4> QED BY <2>2, <2>4, <4>1
    <3>2. _dict_get_evaluate(set, key, default) = Child(r[p], 2)
      BY <2>2, <2>3, <3>1, GetFacts
    <3> QED BY <2>4, <3>2
  <2>6. ASSUME other # key
        PROVE  _dict_get_evaluate(set, other, default) = _dict_get_evaluate(d, other, default)
    <3>1. /\ PlacesIn(Payload(set), other) = PlacesIn(Payload(d), other)
          /\ \A k \in PlacesIn(Payload(set), other) : Payload(set)[k] = Payload(d)[k]
      BY <2>1, <2>2, <2>6 DEF IsSetTo
    <3> QED BY <2>3, <3>1, SameGet
  <2>7. _dict_unset_evaluate(set, key) = unset
    BY <1>1, <2>2, <2>3 DEF _dict_unset_evaluate
  <2> QED BY <2>5, <2>6, <2>7
<1> QED BY <1>4, <1>5, <1>6 DEF DictLaws, unset

-----------------------------------------------------------------------------
(* States.                                                                 *)

LEMMA ReverseMembers ==
    ASSUME NEW S, NEW s \in Seq(S)
    PROVE  /\ Reverse(s) \in Seq(S) /\ ToSet(Reverse(s)) = ToSet(s) /\ Len(Reverse(s)) = Len(s)
           /\ s # <<>> => Last(Reverse(s)) = Head(s)
<1>1. Len(s) \in Nat /\ DOMAIN s = 1..Len(s) /\ \A k \in 1..Len(s) : s[k] \in S
  BY LenProperties, ElementOfSeq
<1>2. \A k \in 1..Len(s) : (Len(s) - k) + 1 \in 1..Len(s)
  BY <1>1, SMT
<1> DEFINE r == Reverse(s)
<1>3. r = [k \in 1..Len(s) |-> s[(Len(s) - k) + 1]]
  BY DEF Reverse
<1> HIDE DEF r
<1>4. r \in Seq(S) /\ Len(r) = Len(s) /\ DOMAIN r = 1..Len(s)
  <2>1. r \in [1..Len(s) -> S]
    BY <1>1, <1>2, <1>3
  <2> QED BY <1>1, <2>1, SMT
<1>5. ToSet(r) = ToSet(s)
  <2>1. ASSUME NEW k \in 1..Len(s) PROVE s[k] = r[(Len(s) - k) + 1]
    <3>1. (Len(s) - ((Len(s) - k) + 1)) + 1 = k
      BY <1>1, SMT
    <3> QED BY <1>2, <1>3, <3>1
  <2>2. \A k \in 1..Len(s) : r[k] = s[(Len(s) - k) + 1]
    BY <1>3
  <2> QED BY <1>1, <1>2, <1>4, <2>1, <2>2 DEF ToSet
<1>6. ASSUME s # <<>> PROVE Last(r) = Head(s)
  <2>1. Len(s) # 0 /\ Head(s) = s[1]
    BY <1>1, <1>6, SMT
  <2>2. Len(s) \in 1..Len(s) /\ (Len(s) - Len(s)) + 1 = 1
    BY <1>1, <2>1, SMT
  <2> QED BY <1>3, <1>4, <2>1, <2>2 DEF Last
<1> QED BY <1>4, <1>5, <1>6 DEF r

LEMMA FrontMembers ==
    ASSUME NEW S, NEW s \in Seq(S), s # <<>>
    PROVE  /\ Front(s) \in Seq(S) /\ Last(s) \in S
           /\ ToSet(s) = {Last(s)} \cup ToSet(Front(s))
<1>1. Len(s) \in Nat /\ DOMAIN s = 1..Len(s) /\ (\A k \in 1..Len(s) : s[k] \in S) /\ Len(s) # 0
  BY LenProperties, ElementOfSeq
<1> DEFINE n == Len(s) - 1
           f == SubSeq(s, 1, n)
<1>2. n \in Nat /\ n \in Int /\ 1 \in Int /\ 1..Len(s) = 1..n \cup {Len(s)} /\ (IF 1 <= n THEN n - 1 + 1 ELSE 0) = n
      /\ n - 1 + 1 = n /\ \A k \in 1..n : 1 + k - 1 = k /\ k \in 1..Len(s)
  BY <1>1, SMT
<1>3. /\ f \in Seq(S) /\ Len(f) = (IF 1 <= n THEN n - 1 + 1 ELSE 0)
      /\ \A k \in 1..(n - 1 + 1) : f[k] = s[1 + k - 1]
  <2> HIDE DEF n
  <2>1. \A k \in 1..n : s[k] \in S
    BY <1>1, <1>2
  <2> QED BY <1>2, <2>1, SubSeqProperties
<1>4. DOMAIN f = 1..n /\ \A k \in 1..n : f[k] = s[k]
  <2> HIDE DEF n, f
  <2>1. DOMAIN f = 1..Len(f)
    BY <1>3, LenProperties
  <2> QED BY <1>2, <1>3, <2>1
<1>5. Front(s) = f
  BY DEF Front
<1> HIDE DEF f, n
<1>6. ToSet(s) = {Last(s)} \cup ToSet(f)
  BY <1>1, <1>2, <1>4 DEF ToSet, Last
<1>7. Last(s) \in S
  BY <1>1, <1>2 DEF Last
<1> QED BY <1>3, <1>5, <1>6, <1>7

Named(o) == UNION {ToSet(b) : b \in ToSet(o.states)}

\* All names of states are numbered, and the first state of the file is number 0.
LEMMA StateNumbersFacts ==
    ASSUME NEW o, NEW S, o.states \in Seq(Seq(S)), o.states # <<>>, Head(o.states) # <<>>
    PROVE  /\ Head(StateNumbers(o)) = Head(Head(o.states))
           /\ Head(o.states) = o.states[1]
           /\ ToSet(StateNumbers(o)) = Named(o)
<1> DEFINE ss == o.states
           n == Len(ss)
           blocks == [k \in DOMAIN ss |-> StateList(ss[k])]
<1>1. ss \in Seq(Seq(S))
  OBVIOUS
<1>2. n \in Nat /\ DOMAIN ss = 1..n /\ n # 0 /\ \A k \in 1..n : ss[k] \in Seq(S)
  BY <1>1, LenProperties, ElementOfSeq
<1>3. Head(ss) = ss[1] /\ 1 \in 1..n
  BY <1>2, SMT
<1>4. blocks \in Seq(Seq(S)) /\ Len(blocks) = n /\ DOMAIN blocks = 1..n
      /\ \A k \in 1..n : blocks[k] = Reverse(ss[k])
  <2>1. \A k \in 1..n : Reverse(ss[k]) \in Seq(S)
    BY <1>2, ReverseMembers
  <2>2. blocks \in [1..n -> Seq(S)] /\ \A k \in 1..n : blocks[k] = Reverse(ss[k])
    BY <1>2, <2>1 DEF StateList
  <2> DEFINE T == Seq(S)
  <2> HIDE DEF blocks, T
  <2>3. blocks \in [1..n -> T]
    BY <2>2 DEF T
  <2>4. blocks \in Seq(T) /\ Len(blocks) = n /\ DOMAIN blocks = 1..n
    <3>1. n \in Nat
      BY <1>2
    <3> HIDE DEF n
    <3> QED BY <2>3, <3>1
  <2> QED BY <2>2, <2>4 DEF T
<1>5. blocks # <<>> /\ Head(blocks) = blocks[1]
  <2> HIDE DEF blocks
  <2> QED BY <1>2, <1>4, SMT
<1>6. /\ Tail(blocks) \in Seq(Seq(S)) /\ Len(Tail(blocks)) = n - 1
      /\ \A k \in 1..(n - 1) : Tail(blocks)[k] = blocks[k + 1]
      /\ DOMAIN Tail(blocks) = 1..(n - 1)
  <2> HIDE DEF blocks
  <2>1. /\ Tail(blocks) \in Seq(Seq(S)) /\ Len(Tail(blocks)) = n - 1
        /\ \A k \in 1..Len(Tail(blocks)) : Tail(blocks)[k] = blocks[k + 1]
    BY <1>4, <1>5, HeadTailProperties
  <2> QED BY <2>1, LenProperties
<1> DEFINE b == blocks[1]
           rest == FlattenSeq(Tail(blocks))
<1>7. /\ b \in Seq(S) /\ ToSet(b) = ToSet(ss[1]) /\ Len(b) = Len(ss[1])
      /\ Last(b) = Head(ss[1])
  BY <1>2, <1>3, <1>4, ReverseMembers
<1>8. b # <<>>
  <2>1. ss[1] \in Seq(S) /\ ss[1] # <<>>
    BY <1>2, <1>3
  <2>2. Len(ss[1]) # 0
    BY <2>1, EmptySeq
  <2> HIDE DEF b
  <2> QED BY <1>7, <2>2, EmptySeq
<1>9. /\ rest \in Seq(S)
      /\ ToSet(rest) = UNION {ToSet(Tail(blocks)[k]) : k \in DOMAIN Tail(blocks)}
  BY <1>6, FlattenMembers
<1>10. /\ Front(b) \in Seq(S) /\ Last(b) \in S
       /\ ToSet(b) = {Last(b)} \cup ToSet(Front(b))
  BY <1>7, <1>8, FrontMembers
<1>11. StateNumbers(o) = (<<Last(b)>> \o Front(b)) \o rest
  BY Zenon DEF StateNumbers
<1> HIDE DEF blocks, rest, b
<1> DEFINE first == <<Last(b)>> \o Front(b)
<1>12. first \in Seq(S) /\ ToSet(first) = ToSet(b) /\ first # <<>> /\ first[1] = Last(b)
  <2>1. <<Last(b)>> \in Seq(S) /\ Len(<<Last(b)>>) = 1 /\ <<Last(b)>>[1] = Last(b)
    BY <1>10
  <2>2. first \in Seq(S) /\ ToSet(first) = ToSet(<<Last(b)>>) \cup ToSet(Front(b))
    <3> DEFINE x == <<Last(b)>>
               y == Front(b)
    <3>1. x \in Seq(S) /\ y \in Seq(S)
      BY <1>10, <2>1
    <3> HIDE DEF x, y
    <3>2. x \o y \in Seq(S) /\ ToSet(x \o y) = ToSet(x) \cup ToSet(y)
      BY <3>1, ConcatMembers, Zenon
    <3> QED BY <3>2 DEF x, y
  <2>3. Len(first) = 1 + Len(Front(b)) /\ \A k \in 1..(1 + Len(Front(b))) :
           first[k] = IF k <= 1 THEN <<Last(b)>>[k] ELSE Front(b)[k - 1]
    <3>1. Len(first) = Len(<<Last(b)>>) + Len(Front(b)) /\ \A k \in 1..(Len(<<Last(b)>>) + Len(Front(b))) :
           first[k] = IF k <= Len(<<Last(b)>>) THEN <<Last(b)>>[k] ELSE Front(b)[k - Len(<<Last(b)>>)]
      BY <1>10, <2>1, ConcatProperties, Zenon
    <3> QED BY <2>1, <3>1
  <2>4. Len(Front(b)) \in Nat
    BY <1>10, LenProperties
  <2>5. 1 \in 1..(1 + Len(Front(b))) /\ 1 <= 1 /\ 1 + Len(Front(b)) # 0
    BY <2>4, SMT
  <2>6. ToSet(<<Last(b)>>) = {Last(b)}
    BY SingleSequence
  <2> HIDE DEF first
  <2>7. first # <<>>
    BY <2>3, <2>5, EmptySeq
  <2> QED BY <1>10, <2>1, <2>2, <2>3, <2>5, <2>6, <2>7
<1>13. /\ StateNumbers(o) \in Seq(S)
       /\ ToSet(StateNumbers(o)) = ToSet(b) \cup ToSet(rest)
  <2> HIDE DEF first
  <2>1. first \o rest \in Seq(S) /\ ToSet(first \o rest) = ToSet(first) \cup ToSet(rest)
    <3>1. first \in Seq(S) /\ rest \in Seq(S)
      BY <1>9, <1>12
    <3> QED BY <3>1, ConcatMembers, Zenon
  <2>2. StateNumbers(o) = first \o rest
    BY <1>11, Zenon DEF first
  <2> QED BY <1>12, <2>1, <2>2
<1>14. Head(StateNumbers(o)) = Last(b)
  <2> HIDE DEF first
  <2> DEFINE u == first \o rest
  <2>1. Len(u) = Len(first) + Len(rest) /\ \A k \in 1..(Len(first) + Len(rest)) :
           u[k] = IF k <= Len(first) THEN first[k] ELSE rest[k - Len(first)]
    BY <1>9, <1>12, ConcatProperties, Zenon
  <2>2. Len(first) \in Nat /\ Len(first) # 0 /\ Len(rest) \in Nat
    BY <1>9, <1>12, LenProperties, EmptySeq
  <2>3. 1 \in 1..(Len(first) + Len(rest)) /\ 1 <= Len(first) /\ Len(first) + Len(rest) # 0
    BY <2>2, SMT
  <2>4. u = StateNumbers(o)
    BY <1>11 DEF first
  <2> HIDE DEF u
  <2>5. u # <<>> /\ u[1] = Last(b)
    BY <1>12, <2>1, <2>3, EmptySeq
  <2>6. Head(u) = u[1]
    BY <1>13, <2>4, <2>5
  <2> QED BY <2>4, <2>5, <2>6
<1>15. ToSet(b) \cup ToSet(rest) = Named(o)
  <2>1. \A k \in 1..n : ToSet(blocks[k]) = ToSet(ss[k])
    BY <1>2, <1>4, ReverseMembers
  <2>2. \A k \in 1..n : k = 1 \/ (k - 1 \in 1..(n - 1) /\ (k - 1) + 1 = k)
    BY <1>2, SMT
  <2>3. \A k \in 1..(n - 1) : k + 1 \in 1..n
    BY <1>2, SMT
  <2>4. ToSet(b) \cup ToSet(rest) = UNION {ToSet(ss[k]) : k \in 1..n}
    <3>1. ASSUME NEW k \in 1..n PROVE ToSet(ss[k]) \subseteq ToSet(b) \cup ToSet(rest)
      <4>1. CASE k = 1
        BY <4>1, <1>7
      <4>2. CASE k # 1
        <5>1. k - 1 \in 1..(n - 1) /\ Tail(blocks)[k - 1] = blocks[k]
          BY <4>2, <2>2, <1>6
        <5>2. ToSet(Tail(blocks)[k - 1]) \subseteq ToSet(rest)
          BY <5>1, <1>6, <1>9
        <5> QED BY <5>1, <5>2, <2>1
      <4> QED BY <4>1, <4>2
    <3>2. ASSUME NEW k \in 1..(n - 1) PROVE ToSet(Tail(blocks)[k]) = ToSet(ss[k + 1])
      BY <1>6, <2>1, <2>3
    <3>3. ToSet(rest) \subseteq UNION {ToSet(ss[k]) : k \in 1..n}
      BY <3>2, <1>6, <1>9, <2>3
    <3>4. ToSet(b) \subseteq UNION {ToSet(ss[k]) : k \in 1..n}
      BY <1>3, <1>7
    <3> QED BY <3>1, <3>3, <3>4
  <2>5. ToSet(ss) = {ss[k] : k \in 1..n}
    BY <1>2 DEF ToSet
  <2> QED BY <2>4, <2>5 DEF Named
<1> QED BY <1>3, <1>7, <1>13, <1>14, <1>15

-----------------------------------------------------------------------------
(* What the checks of a description establish.                             *)

LEMMA AllOk ==
    ASSUME NEW verdicts, IsSequence(verdicts), FirstFault(verdicts) = "ok"
    PROVE  \A v \in ToSet(verdicts) : v = "ok"
  BY FirstFaultOk DEF ToSet

LEMMA TransitionIsRight ==
    ASSUME NEW o \in Descriptions, NEW t \in ToSet(o.transitions),
           TransitionFault(o, t) = "ok"
    PROVE  /\ TriggerIsDeclared(o, t.trigger)
           /\ ReplyFault(o, t, Joined(types, LocalTypes(o, t.trigger))) = "ok"
           /\ \A p \in ToSet(t.preconditions) :
                 PreconditionFault(p, Joined(types, LocalTypes(o, t.trigger))) = "ok"
           /\ \A s \in ToSet(t.statements) :
                 StatementFault(o, s, Joined(types, LocalTypes(o, t.trigger))) = "ok"
<1> DEFINE all == Joined(types, LocalTypes(o, t.trigger))
           r == ReplyFault(o, t, all)
           ps == [k \in DOMAIN t.preconditions |-> PreconditionFault(t.preconditions[k], all)]
           ss == [k \in DOMAIN t.statements |-> StatementFault(o, t.statements[k], all)]
<1>1. IsSequence(t.preconditions) /\ IsSequence(t.statements)
  BY DescriptionsAssumption
<1>2. TriggerIsDeclared(o, t.trigger)
  BY DEF TransitionFault
<1>3. FirstFault((<<r>> \o ps) \o ss) = "ok"
  BY <1>2 DEF TransitionFault
<1>4. /\ IsSequence(ps) /\ ToSet(ps) = {ps[k] : k \in DOMAIN t.preconditions}
      /\ IsSequence(ss) /\ ToSet(ss) = {ss[k] : k \in DOMAIN t.statements}
  <2>1. DOMAIN ps = DOMAIN t.preconditions /\ ps = [k \in DOMAIN t.preconditions |-> ps[k]]
    OBVIOUS
  <2>2. DOMAIN ss = DOMAIN t.statements /\ ss = [k \in DOMAIN t.statements |-> ss[k]]
    OBVIOUS
  <2> HIDE DEF ps, ss
  <2> QED BY <1>1, <2>1, <2>2, MappedSequence
<1>5. /\ \A k \in DOMAIN t.preconditions : ps[k] = PreconditionFault(t.preconditions[k], all)
      /\ \A k \in DOMAIN t.statements : ss[k] = StatementFault(o, t.statements[k], all)
  OBVIOUS
<1> HIDE DEF ps, ss, r, all
<1>6. IsSequence(<<r>>) /\ ToSet(<<r>>) = {r}
  BY SingleSequence
<1> DEFINE rp == <<r>> \o ps
<1>7. IsSequence(rp) /\ ToSet(rp) = {r} \cup ToSet(ps)
  BY <1>4, <1>6, JoinedSequences, Zenon
<1> HIDE DEF rp
<1>8. IsSequence(rp \o ss) /\ ToSet(rp \o ss) = ToSet(rp) \cup ToSet(ss)
  BY <1>4, <1>7, JoinedSequences, Zenon
<1>9. FirstFault(rp \o ss) = "ok"
  BY <1>3 DEF rp
<1>10. \A v \in ToSet(rp \o ss) : v = "ok"
  BY <1>8, <1>9, AllOk, Zenon
<1>11. r = "ok" /\ (\A v \in ToSet(ps) : v = "ok") /\ (\A v \in ToSet(ss) : v = "ok")
  BY <1>7, <1>8, <1>10
<1>12. ASSUME NEW p \in ToSet(t.preconditions) PROVE PreconditionFault(p, all) = "ok"
  <2>1. PICK k \in DOMAIN t.preconditions : p = t.preconditions[k]
    BY DEF ToSet
  <2>2. ps[k] \in ToSet(ps)
    BY <1>4
  <2> QED BY <1>5, <1>11, <2>1, <2>2
<1>13. ASSUME NEW s \in ToSet(t.statements) PROVE StatementFault(o, s, all) = "ok"
  <2>1. PICK k \in DOMAIN t.statements : s = t.statements[k]
    BY DEF ToSet
  <2>2. ss[k] \in ToSet(ss)
    BY <1>4
  <2> QED BY <1>5, <1>11, <2>1, <2>2
<1> QED BY <1>2, <1>11, <1>12, <1>13 DEF r, all

LEMMA ChecksPassed ==
    ASSUME NEW o \in Descriptions,
           FirstFault(<<PropertiesFault(o)>>
                      \o [k \in DOMAIN o.transitions |-> TransitionFault(o, o.transitions[k])]) = "ok"
    PROVE  /\ PropertiesFault(o) = "ok"
           /\ \A t \in ToSet(o.transitions) : TransitionFault(o, t) = "ok"
<1> DEFINE r == PropertiesFault(o)
           ts == [k \in DOMAIN o.transitions |-> TransitionFault(o, o.transitions[k])]
<1>1. IsSequence(o.transitions)
  BY DescriptionsAssumption
<1>2. FirstFault(<<r>> \o ts) = "ok"
  OBVIOUS
<1>3. IsSequence(ts) /\ ToSet(ts) = {ts[k] : k \in DOMAIN o.transitions}
  <2>1. DOMAIN ts = DOMAIN o.transitions /\ ts = [k \in DOMAIN o.transitions |-> ts[k]]
    OBVIOUS
  <2> HIDE DEF ts
  <2> QED BY <1>1, <2>1, MappedSequence
<1>4. \A k \in DOMAIN o.transitions : ts[k] = TransitionFault(o, o.transitions[k])
  OBVIOUS
<1> HIDE DEF ts, r
<1>5. IsSequence(<<r>>) /\ ToSet(<<r>>) = {r}
  BY SingleSequence
<1>6. IsSequence(<<r>> \o ts) /\ ToSet(<<r>> \o ts) = {r} \cup ToSet(ts)
  BY <1>3, <1>5, JoinedSequences, Zenon
<1>7. \A v \in ToSet(<<r>> \o ts) : v = "ok"
  BY <1>2, <1>6, AllOk, Zenon
<1>8. r = "ok" /\ \A v \in ToSet(ts) : v = "ok"
  BY <1>6, <1>7
<1>9. \A t \in ToSet(o.transitions) : TransitionFault(o, t) = "ok"
  BY <1>3, <1>4, <1>8 DEF ToSet
<1> QED BY <1>8, <1>9 DEF r

\* What has been checked stays so.
AcceptInv ==
    /\ description \in Descriptions
    /\ stage \in {"parsed", "registered", "ready", "refused", "aborted"}
    /\ stage \in {"registered", "ready"} => ObjectIsSane(description)
    /\ stage = "ready" =>
         /\ PropertiesFault(description) = "ok"
         /\ \A t \in ToSet(description.transitions) : TransitionFault(description, t) = "ok"

LEMMA AcceptInit == Init => AcceptInv
  BY DEF Init, Parsed, AcceptInv

\* Loading a variable goes on to the next one or ends.
LEMMA CheckVariableStage ==
    ASSUME NEW k, NEW name, CheckVariable(k, name)
    PROVE  /\ stage = "registered" /\ stage' \in {"registered", "refused", "aborted"}
           /\ UNCHANGED description
  BY DEF CheckVariable, Conclude, Abort

LEMMA ExecuteStage ==
    ASSUME NEW k, NEW fuzz, Execute(k, fuzz)
    PROVE  /\ stage = "ready" /\ stage' \in {"ready", "aborted"}
           /\ UNCHANGED <<description, types>>
  BY DEF Execute, Abort

LEMMA AcceptStep == AcceptInv /\ [Next]_vars => AcceptInv'
<1> SUFFICES ASSUME AcceptInv, [Next]_vars PROVE AcceptInv'
  OBVIOUS
<1>1. CASE InitialCheck
  BY <1>1 DEF AcceptInv, InitialCheck
<1>2. ASSUME NEW variable \in pending, CheckVariable(variable[1], variable[2]) PROVE AcceptInv'
  <2>1. /\ stage = "registered" /\ stage' \in {"registered", "refused", "aborted"}
        /\ UNCHANGED description
    BY <1>2, CheckVariableStage
  <2>2. ObjectIsSane(description)' <=> ObjectIsSane(description)
    BY <2>1 DEF ObjectIsSane
  <2> QED BY <2>1, <2>2 DEF AcceptInv
<1>3. CASE CheckTransitions
  <2> DEFINE v == FirstFault(<<PropertiesFault(description)>>
                  \o [k \in DOMAIN description.transitions |->
                        TransitionFault(description, description.transitions[k])])
  <2>1. stage = "registered" /\ Conclude(v, "ready") /\ UNCHANGED <<description, types>>
    BY <1>3 DEF CheckTransitions
  <2>2. v = "ok" => /\ PropertiesFault(description) = "ok"
                    /\ \A t \in ToSet(description.transitions) : TransitionFault(description, t) = "ok"
    BY ChecksPassed DEF AcceptInv
  <2> HIDE DEF v
  <2>3. stage' \in {"ready", "refused", "aborted"} /\ (stage' = "ready" => v = "ok")
    BY <2>1 DEF Conclude, Abort
  <2>4. PropertiesFault(description)' = PropertiesFault(description)
    BY <2>1 DEF PropertiesFault
  <2>5. \A t : TransitionFault(description, t)' = TransitionFault(description, t)
    BY <2>1 DEF TransitionFault
  <2>6. ObjectIsSane(description)' <=> ObjectIsSane(description)
    BY <2>1 DEF ObjectIsSane
  <2> QED BY <2>1, <2>2, <2>3, <2>4, <2>5, <2>6 DEF AcceptInv
<1>4. ASSUME NEW k \in DOMAIN description.transitions, NEW fuzz \in BOOLEAN, Execute(k, fuzz)
      PROVE  AcceptInv'
  <2>1. /\ stage = "ready" /\ stage' \in {"ready", "aborted"}
        /\ UNCHANGED <<description, types>>
    BY <1>4, ExecuteStage
  <2>4. PropertiesFault(description)' = PropertiesFault(description)
    BY <2>1 DEF PropertiesFault
  <2>5. \A t : TransitionFault(description, t)' = TransitionFault(description, t)
    BY <2>1 DEF TransitionFault
  <2>6. ObjectIsSane(description)' <=> ObjectIsSane(description)
    BY <2>1 DEF ObjectIsSane
  <2> QED BY <2>1, <2>4, <2>5, <2>6 DEF AcceptInv
<1>5. CASE UNCHANGED vars
  <2>1. UNCHANGED <<stage, description, types>>
    BY <1>5 DEF vars
  <2>4. PropertiesFault(description)' = PropertiesFault(description)
    BY <2>1 DEF PropertiesFault
  <2>5. \A t : TransitionFault(description, t)' = TransitionFault(description, t)
    BY <2>1 DEF TransitionFault
  <2>6. ObjectIsSane(description)' <=> ObjectIsSane(description)
    BY <2>1 DEF ObjectIsSane
  <2> QED BY <2>1, <2>4, <2>5, <2>6 DEF AcceptInv
<1> QED BY <1>1, <1>2, <1>3, <1>4, <1>5 DEF Next

LEMMA AlwaysAccepted == Spec => []AcceptInv
  BY AcceptInit, AcceptStep, PTL DEF Spec

\* A transition with one answer has an answer, and one with none has none.
LEMMA AnswersCounted ==
    ASSUME NEW t, IsSequence(t.statements), RightAnswers(t)
    PROVE  /\ (t.trigger[1] = "method") = (\E s \in ToSet(t.statements) : IsAnswer(s))
           /\ \A i, j \in Answers(t.statements) : i = j
<1> DEFINE A == Answers(t.statements)
<1>1. IsFiniteSet(A)
  <2>1. DOMAIN t.statements = 1..Len(t.statements) /\ Len(t.statements) \in Nat
    BY SequenceFacts
  <2>2. IsFiniteSet(1..Len(t.statements))
    BY <2>1, FS_Interval
  <2>3. A \subseteq 1..Len(t.statements)
    BY <2>1 DEF Answers
  <2> QED BY <2>2, <2>3, FS_Subset
<1>2. Cardinality(A) = IF t.trigger[1] = "method" THEN 1 ELSE 0
  BY DEF RightAnswers
<1>3. A = {} <=> ~\E s \in ToSet(t.statements) : IsAnswer(s)
  BY DEF Answers, ToSet
<1> HIDE DEF A
<1>4. CASE t.trigger[1] = "method"
  <2>1. Cardinality(A) = 1
    BY <1>2, <1>4
  <2>2. PICK x : A = {x}
    BY <1>1, <2>1, FS_Singleton
  <2> QED BY <1>3, <1>4, <2>2 DEF A
<1>5. CASE t.trigger[1] # "method"
  <2>1. Cardinality(A) = 0
    BY <1>2, <1>5
  <2>2. A = {}
    BY <1>1, <2>1, FS_EmptySet
  <2> QED BY <1>3, <1>5, <2>2 DEF A
<1> QED BY <1>4, <1>5

LEMMA PropertiesHold ==
    ASSUME NEW o, PropertiesFault(o) = "ok"
    PROVE  \A i \in ToSet(o.interfaces) : \A name \in DOMAIN Introspection[i].properties :
              /\ <<"object", name>> \in DOMAIN types
              /\ types[<<"object", name>>] = Introspection[i].properties[name]
  BY DEF PropertiesFault, Holds

LEMMA AcceptedAreMachines == AcceptInv => AcceptedObjectsAreMachines
<1> SUFFICES ASSUME AcceptInv, stage = "ready"
             PROVE  AcceptedObjectsAreMachines
  BY DEF AcceptedObjectsAreMachines
<1> DEFINE o == description
<1>1. /\ o \in Descriptions /\ ObjectIsSane(o) /\ PropertiesFault(o) = "ok"
      /\ \A t \in ToSet(o.transitions) : TransitionFault(o, t) = "ok"
  BY DEF AcceptInv
<1>2. o.states \in Seq(Seq(STRING)) /\ o.states # <<>> /\ Head(o.states) # <<>>
  BY <1>1, DescriptionsAssumption DEF ObjectIsSane
<1>3. /\ Head(StateNumbers(o)) = Head(Head(o.states))
      /\ Head(o.states) = o.states[1]
      /\ ToSet(StateNumbers(o)) = Named(o)
  BY <1>2, StateNumbersFacts
<1>4. IsInjective(StateNumbers(o))
  BY <1>1 DEF ObjectIsSane
<1>5. ASSUME NEW t \in ToSet(o.transitions)
      PROVE  /\ \A pair \in ToSet(t.pairs) : ToSet(pair) \subseteq Named(o)
             /\ TriggerIsDeclared(o, t.trigger)
             /\ (t.trigger[1] = "method") = (\E s \in ToSet(t.statements) : IsAnswer(s))
  <2>1. /\ RightAnswers(t)
        /\ \A pair \in ToSet(t.pairs) : ToSet(pair) \subseteq ToSet(StateNumbers(o)) \cap ValidNames
    BY <1>1 DEF ObjectIsSane, TransitionIsSane
  <2>2. IsSequence(t.statements)
    BY <1>1, DescriptionsAssumption
  <2>3. (t.trigger[1] = "method") = (\E s \in ToSet(t.statements) : IsAnswer(s))
    BY <2>1, <2>2, AnswersCounted, Zenon
  <2>4. TriggerIsDeclared(o, t.trigger)
    BY <1>1, TransitionIsRight
  <2> QED BY <1>3, <2>1, <2>3, <2>4
<1>6. \A i \in ToSet(o.interfaces) : \A name \in DOMAIN Introspection[i].properties :
         /\ <<"object", name>> \in DOMAIN types
         /\ types[<<"object", name>>] = Introspection[i].properties[name]
  BY <1>1, PropertiesHold
<1> QED BY <1>3, <1>4, <1>5, <1>6, Zenon DEF AcceptedObjectsAreMachines, Named

\* Whatever is loaded, an object that is accepted is what the state machine takes
\* for granted: states that are numbered apart, the first one first, transitions
\* between them that answer what they must, and properties that can be read.
THEOREM AcceptedObjectsAreMachinesHolds == Spec => []AcceptedObjectsAreMachines
  BY AlwaysAccepted, AcceptedAreMachines, PTL

-----------------------------------------------------------------------------
(* Statements and preconditions, one after the other.                      *)

\* f[k] is what has become of the first k statements, or preconditions.
Executions(f, statements, env) ==
    /\ f[0] = {Outcome(env.values, <<>>)}
    /\ \A k \in 1..Len(statements) : f[k] = Proceed(statements[k], env, f[k - 1])

Failures(f, preconditions, env) ==
    /\ f[0] = {Sequence(<<>>)}
    /\ \A k \in 1..Len(preconditions) : f[k] = Test(preconditions[k], env, f[k - 1])

LEMMA ExecuteRecursion ==
    ASSUME NEW statements, NEW env, IsSequence(statements)
    PROVE  \E f : /\ ExecuteStatements(statements, env) = f[Len(statements)]
                 /\ Executions(f, statements, env)
<1> DEFINE n == Len(statements)
           base == {Outcome(env.values, <<>>)}
           J(outcomes, k) == Proceed(statements[k], env, outcomes)
           Body(f, m) == [k \in 0..m |-> IF k = 0 THEN base ELSE J(f[k - 1], k)]
           P == {m \in 0..n : \E f : f = Body(f, m)}
<1>1. n \in Nat /\ 0 \in 0..n /\ n \in 0..n /\ 0 \in Nat /\ 0 <= n
  BY SequenceFacts
<1>2. ExecuteStatements(statements, env) = (CHOOSE f : f = Body(f, n))[n]
  BY Zenon DEF ExecuteStatements
<1> HIDE DEF J, base
<1>3. 0 \in P
  <2> DEFINE f == [k \in 0..0 |-> base]
  <2>1. f = Body(f, 0)
    BY SMT
  <2> QED BY <1>1, <2>1
<1>4. ASSUME NEW m \in 0..(n - 1), m \in P PROVE m + 1 \in P
  <2>1. PICK f : f = Body(f, m)
    BY <1>4
  <2> DEFINE g == [k \in 0..(m + 1) |-> IF k = m + 1 THEN J(f[m], m + 1) ELSE f[k]]
  <2>2. ASSUME NEW k \in 0..(m + 1)
        PROVE  g[k] = IF k = 0 THEN base ELSE J(g[k - 1], k)
    <3>1. CASE k = m + 1
      <4>1. k # 0 /\ k - 1 = m /\ m \in 0..(m + 1) /\ m # m + 1
        BY <3>1, <1>1, SMT
      <4> QED BY <3>1, <4>1
    <3>2. CASE k # m + 1
      <4>1. k \in 0..m /\ (k # 0 => k - 1 \in 0..(m + 1) /\ k - 1 # m + 1)
        BY <3>2, <1>1, SMT
      <4>2. f[k] = IF k = 0 THEN base ELSE J(f[k - 1], k)
        BY <2>1, <4>1
      <4> QED BY <3>2, <4>1, <4>2
    <3> QED BY <3>1, <3>2
  <2>3. g = Body(g, m + 1)
    BY <2>2
  <2>4. m + 1 \in 0..n
    BY <1>1, SMT
  <2> QED BY <2>3, <2>4
<1>5. n \in P
  <2> HIDE DEF P
  <2>1. \A k \in 0..(n - 1) : k \in P => k + 1 \in P
    BY <1>4
  <2>2. \A k \in 0..n : k \in P
    BY <1>1, <1>3, <2>1, UpTo, Zenon
  <2> QED BY <1>1, <2>2
<1>6. PICK w : w = Body(w, n)
  BY <1>5
<1> DEFINE h == CHOOSE f : f = Body(f, n)
<1>7. h = Body(h, n)
  BY <1>6, Zenon
<1> HIDE DEF h
<1>8. h[0] = base /\ \A k \in 1..n : h[k] = J(h[k - 1], k)
  <2>1. \A k \in 0..n : h[k] = IF k = 0 THEN base ELSE J(h[k - 1], k)
    BY <1>7
  <2>2. \A k \in 1..n : k \in 0..n /\ k # 0
    BY <1>1, SMT
  <2> QED BY <1>1, <2>1, <2>2
<1>9. ExecuteStatements(statements, env) = h[n]
  BY <1>2 DEF h
<1>10. Executions(h, statements, env)
  BY <1>8 DEF J, base, Executions
<1> QED BY <1>9, <1>10

LEMMA FailureRecursion ==
    ASSUME NEW preconditions, NEW env, IsSequence(preconditions)
    PROVE  \E f : /\ FailureOf(preconditions, env) = f[Len(preconditions)]
                 /\ Failures(f, preconditions, env)
<1> DEFINE n == Len(preconditions)
           base == {Sequence(<<>>)}
           J(failures, k) == Test(preconditions[k], env, failures)
           Body(f, m) == [k \in 0..m |-> IF k = 0 THEN base ELSE J(f[k - 1], k)]
           P == {m \in 0..n : \E f : f = Body(f, m)}
<1>1. n \in Nat /\ 0 \in 0..n /\ n \in 0..n /\ 0 \in Nat /\ 0 <= n
  BY SequenceFacts
<1>2. FailureOf(preconditions, env) = (CHOOSE f : f = Body(f, n))[n]
  BY Zenon DEF FailureOf
<1> HIDE DEF J, base
<1>3. 0 \in P
  <2> DEFINE f == [k \in 0..0 |-> base]
  <2>1. f = Body(f, 0)
    BY SMT
  <2> QED BY <1>1, <2>1
<1>4. ASSUME NEW m \in 0..(n - 1), m \in P PROVE m + 1 \in P
  <2>1. PICK f : f = Body(f, m)
    BY <1>4
  <2> DEFINE g == [k \in 0..(m + 1) |-> IF k = m + 1 THEN J(f[m], m + 1) ELSE f[k]]
  <2>2. ASSUME NEW k \in 0..(m + 1)
        PROVE  g[k] = IF k = 0 THEN base ELSE J(g[k - 1], k)
    <3>1. CASE k = m + 1
      <4>1. k # 0 /\ k - 1 = m /\ m \in 0..(m + 1) /\ m # m + 1
        BY <3>1, <1>1, SMT
      <4> QED BY <3>1, <4>1
    <3>2. CASE k # m + 1
      <4>1. k \in 0..m /\ (k # 0 => k - 1 \in 0..(m + 1) /\ k - 1 # m + 1)
        BY <3>2, <1>1, SMT
      <4>2. f[k] = IF k = 0 THEN base ELSE J(f[k - 1], k)
        BY <2>1, <4>1
      <4> QED BY <3>2, <4>1, <4>2
    <3> QED BY <3>1, <3>2
  <2>3. g = Body(g, m + 1)
    BY <2>2
  <2>4. m + 1 \in 0..n
    BY <1>1, SMT
  <2> QED BY <2>3, <2>4
<1>5. n \in P
  <2> HIDE DEF P
  <2>1. \A k \in 0..(n - 1) : k \in P => k + 1 \in P
    BY <1>4
  <2>2. \A k \in 0..n : k \in P
    BY <1>1, <1>3, <2>1, UpTo, Zenon
  <2> QED BY <1>1, <2>2
<1>6. PICK w : w = Body(w, n)
  BY <1>5
<1> DEFINE h == CHOOSE f : f = Body(f, n)
<1>7. h = Body(h, n)
  BY <1>6, Zenon
<1> HIDE DEF h
<1>8. h[0] = base /\ \A k \in 1..n : h[k] = J(h[k - 1], k)
  <2>1. \A k \in 0..n : h[k] = IF k = 0 THEN base ELSE J(h[k - 1], k)
    BY <1>7
  <2>2. \A k \in 1..n : k \in 0..n /\ k # 0
    BY <1>1, SMT
  <2> QED BY <1>1, <2>1, <2>2
<1>9. FailureOf(preconditions, env) = h[n]
  BY <1>2 DEF h
<1>10. Failures(h, preconditions, env)
  BY <1>8 DEF J, base, Failures
<1> QED BY <1>9, <1>10

\* The outcomes of testing one more precondition.
LEMMA TestMembers ==
    ASSUME NEW p, NEW env, NEW failures, NEW x \in Test(p, env, failures)
    PROVE  \/ x \in failures
           \/ \E v \in Evaluate(p.condition, env) :
                IF IsAbort(v) THEN x = v ELSE x = Sequence(<<p.error>>) \/ x \in failures
  BY DEF Test, Then

\* The verdicts on two, three or four things.
LEMMA TwoOk ==
    ASSUME NEW a, NEW b, FirstFault(<<a, b>>) = "ok"
    PROVE  a = "ok" /\ b = "ok"
<1> DEFINE s == <<a, b>>
<1>1. s \in Seq({a, b}) /\ {1, 2} = DOMAIN s /\ s[1] = a /\ s[2] = b
  BY SMT
<1> HIDE DEF s
<1>2. IsSequence(s)
  BY <1>1, SequenceOver
<1>3. \A k \in DOMAIN s : s[k] = "ok"
  BY <1>2, FirstFaultOk DEF s
<1> QED BY <1>1, <1>3

LEMMA ThreeOk ==
    ASSUME NEW a, NEW b, NEW c, FirstFault(<<a, b, c>>) = "ok"
    PROVE  a = "ok" /\ b = "ok" /\ c = "ok"
<1> DEFINE s == <<a, b, c>>
<1>1. s \in Seq({a, b, c}) /\ {1, 2, 3} = DOMAIN s /\ s[1] = a /\ s[2] = b /\ s[3] = c
  BY SMT
<1> HIDE DEF s
<1>2. IsSequence(s)
  BY <1>1, SequenceOver
<1>3. \A k \in DOMAIN s : s[k] = "ok"
  BY <1>2, FirstFaultOk DEF s
<1> QED BY <1>1, <1>3

LEMMA FourOk ==
    ASSUME NEW a, NEW b, NEW c, NEW d, FirstFault(<<a, b, c, d>>) = "ok"
    PROVE  a = "ok" /\ b = "ok" /\ c = "ok" /\ d = "ok"
<1> DEFINE s == <<a, b, c, d>>
<1>1. s \in Seq({a, b, c, d}) /\ {1, 2, 3, 4} = DOMAIN s
      /\ s[1] = a /\ s[2] = b /\ s[3] = c /\ s[4] = d
  BY SMT
<1> HIDE DEF s
<1>2. IsSequence(s)
  BY <1>1, SequenceOver
<1>3. \A k \in DOMAIN s : s[k] = "ok"
  BY <1>2, FirstFaultOk DEF s
<1> QED BY <1>1, <1>3

\* The first place of a sequence that passes a test.
LEMMA DeclaredFacts ==
    ASSUME NEW o \in Descriptions, NEW members, NEW name, IsDeclared(o, members, name)
    PROVE  \E i \in ToSet(o.interfaces) :
             /\ name \in DOMAIN Introspection[i][members]
             /\ Declared(o, members, name) = Introspection[i][members][name]
<1> DEFINE s == o.interfaces
           I == {k \in 1..Len(s) : name \in DOMAIN Introspection[s[k]][members]}
<1>1. IsSequence(s)
  BY DescriptionsAssumption
<1>2. /\ Len(s) \in Nat /\ DOMAIN s = 1..Len(s)
      /\ \A x \in ToSet(s) : \E k \in 1..Len(s) : x = s[k]
      /\ \A k \in 1..Len(s) : s[k] \in ToSet(s)
  BY <1>1, SequenceFacts
<1>3. I # {} /\ I \in SUBSET Nat
  BY <1>2 DEF IsDeclared
<1>4. Min(I) \in I
  BY <1>3, LeastNatural
<1>5. SelectInSeq(s, LAMBDA i : name \in DOMAIN Introspection[i][members]) = Min(I)
  BY <1>3, Zenon DEF SelectInSeq, Min
<1>6. Min(I) # 0
  BY <1>4, SMT
<1>7. Declared(o, members, name) = Introspection[s[Min(I)]][members][name]
  BY <1>5, <1>6, Zenon DEF Declared
<1> DEFINE m == Min(I)
<1>8. m \in I /\ Declared(o, members, name) = Introspection[s[m]][members][name]
  BY <1>4, <1>7
<1> HIDE DEF m, s, I
<1>9. m \in 1..Len(s) /\ name \in DOMAIN Introspection[s[m]][members]
  BY <1>8 DEF I
<1>10. s[m] \in ToSet(s)
  BY <1>2, <1>9, Zenon
<1> QED BY <1>8, <1>9, <1>10 DEF s

\* What a client passes gives the local variables values of their types.
LEMMA LocalTypesFacts ==
    ASSUME NEW o \in Descriptions, NEW t \in ToSet(o.transitions),
           ToSet(o.interfaces) \subseteq DOMAIN Introspection, TriggerIsDeclared(o, t.trigger)
    PROVE  \A v \in DOMAIN LocalTypes(o, t.trigger) :
              v[1] = "local" /\ LocalTypes(o, t.trigger)[v] \in DOMAIN Arguments
<1> DEFINE locals == LocalTypes(o, t.trigger)
<1>1. t.trigger[1] \in {"method", "property", "random"}
  BY DescriptionsAssumption
<1>2. CASE t.trigger[1] = "method"
  <2> DEFINE in == Declared(o, "methods", t.trigger[2]).in
             First(variable) == SelectInSeq(in, LAMBDA arg : arg[1] = variable[2])
  <2>1. IsDeclared(o, "methods", t.trigger[2])
    BY <1>2 DEF TriggerIsDeclared
  <2>2. PICK i \in ToSet(o.interfaces) :
           /\ t.trigger[2] \in DOMAIN Introspection[i]["methods"]
           /\ Declared(o, "methods", t.trigger[2]) = Introspection[i]["methods"][t.trigger[2]]
    BY <2>1, DeclaredFacts
  <2>3. IsSequence(in) /\ \A arg \in ToSet(in) : arg[2] \in DOMAIN Arguments
    BY <2>2, ArgumentsAssumption
  <2>4. locals = [variable \in {<<"local", arg[1]>> : arg \in ToSet(in)} |-> in[First(variable)][2]]
    BY <1>2, Zenon DEF LocalTypes
  <2>5. ASSUME NEW v \in {<<"local", arg[1]>> : arg \in ToSet(in)}
        PROVE  in[First(v)] \in ToSet(in) /\ v[1] = "local"
    <3> DEFINE I == {k \in 1..Len(in) : in[k][1] = v[2]}
    <3>1. PICK arg \in ToSet(in) : v = <<"local", arg[1]>>
      OBVIOUS
    <3>2. arg[1] = v[2] /\ v[1] = "local"
      BY <3>1
    <3> HIDE DEF in
    <3>3. Len(in) \in Nat /\ (\A x \in ToSet(in) : \E k \in 1..Len(in) : x = in[k])
          /\ \A k \in 1..Len(in) : in[k] \in ToSet(in)
      BY <2>3, SequenceFacts
    <3>4. I # {} /\ I \in SUBSET Nat
      BY <3>2, <3>3
    <3>5. Min(I) \in I
      BY <3>4, LeastNatural
    <3>6. First(v) = Min(I)
      BY <3>4, Zenon DEF SelectInSeq, Min
    <3> DEFINE m == Min(I)
    <3>7. m \in I /\ First(v) = m
      BY <3>5, <3>6
    <3> HIDE DEF m, First
    <3> QED BY <3>2, <3>3, <3>7
  <2> HIDE DEF in, First
  <2> QED BY <2>3, <2>4, <2>5
<1>3. CASE t.trigger[1] = "property"
  <2>1. IsDeclared(o, "properties", t.trigger[2])
    BY <1>3 DEF TriggerIsDeclared
  <2>2. PICK i \in ToSet(o.interfaces) :
           /\ t.trigger[2] \in DOMAIN Introspection[i]["properties"]
           /\ Declared(o, "properties", t.trigger[2]) = Introspection[i]["properties"][t.trigger[2]]
    BY <2>1, DeclaredFacts
  <2>3. Declared(o, "properties", t.trigger[2]) \in DOMAIN Arguments
    BY <2>2, ArgumentsAssumption
  <2>4. locals = [variable \in {<<"local", "value">>} |-> Declared(o, "properties", t.trigger[2])]
    BY <1>3 DEF LocalTypes
  <2> QED BY <2>3, <2>4
<1>4. CASE t.trigger[1] = "random"
  <2>1. locals = Empty
    BY <1>4 DEF LocalTypes
  <2> QED BY <2>1 DEF Empty
<1> QED BY <1>1, <1>2, <1>3, <1>4

LEMMA LocalValuesAreTyped ==
    ASSUME NEW unset, NEW locals, \A v \in DOMAIN locals : locals[v] \in DOMAIN Arguments,
           NEW args \in LocalValues(locals)
    PROVE  IsTyped(locals, args, unset)
<1>1. DOMAIN args = DOMAIN locals /\ \A v \in DOMAIN locals : args[v] \in Arguments[locals[v]]
  BY DEF LocalValues
<1> QED BY <1>1, ArgumentsAssumption DEF IsTyped

LEMMA JoinedIsTyped ==
    ASSUME NEW unset, NEW all, NEW valuation, IsTyped(all, valuation, unset),
           NEW more, NEW args, IsTyped(more, args, unset), DOMAIN all \cap DOMAIN more = {}
    PROVE  IsTyped(Joined(all, more), Joined(valuation, args), unset)
<1>1. /\ DOMAIN Joined(all, more) = DOMAIN all \cup DOMAIN more
      /\ DOMAIN Joined(valuation, args) = DOMAIN valuation \cup DOMAIN args
  BY DEF Joined
<1>2. ASSUME NEW v \in DOMAIN Joined(valuation, args)
      PROVE  \/ /\ v \in DOMAIN valuation
                /\ Joined(valuation, args)[v] = valuation[v] /\ Joined(all, more)[v] = all[v]
             \/ /\ v \in DOMAIN args
                /\ Joined(valuation, args)[v] = args[v] /\ Joined(all, more)[v] = more[v]
  BY DEF IsTyped, Joined
<1>3. ASSUME NEW v \in DOMAIN Joined(all, more) \ DOMAIN Joined(valuation, args)
      PROVE  \/ v \in DOMAIN all \ DOMAIN valuation /\ Joined(all, more)[v] = all[v]
             \/ v \in DOMAIN more \ DOMAIN args /\ Joined(all, more)[v] = more[v]
  BY <1>1 DEF Joined
<1>4. /\ DOMAIN Joined(all, more) \ unset \subseteq DOMAIN Joined(valuation, args)
      /\ DOMAIN Joined(valuation, args) \subseteq DOMAIN Joined(all, more)
  BY <1>1 DEF IsTyped
<1> QED BY <1>2, <1>3, <1>4 DEF IsTyped

\* The variables left unset are the ones that may be.
LEMMA UnsetLeft ==
    ASSUME NEW all, NEW valuation, NEW unset, IsTyped(all, valuation, unset)
    PROVE  /\ IsTyped(all, valuation, DOMAIN all \ DOMAIN valuation)
           /\ DOMAIN all \ DOMAIN valuation \subseteq unset
  BY DEF IsTyped

-----------------------------------------------------------------------------
(* What a transition does that has been checked.                           *)

\* What has been found of a precondition and of a statement of the transition t.
PreconditionIsChecked(p, all) ==
    /\ PreCheck(p.condition) /\ Check(p.condition, all) = "ok"
    /\ CalculateType(p.condition, all) = <<"b">>

StatementIsChecked(o, t, s, all) ==
    /\ s[1] \in {"assign", "emit", "reply", "throw"}
    /\ s[1] # "throw" => PreCheck(ExpressionOf(s)) /\ Check(ExpressionOf(s), all) = "ok"
    /\ s[1] = "assign" =>
         /\ PreCheck(<<"data", s[2]>>) /\ Check(<<"data", s[2]>>, all) = "ok"
         /\ IsVariable(<<"data", s[2]>>)
         /\ IsSubtype(CalculateType(s[3], all), CalculateType(<<"data", s[2]>>, all))
    /\ s[1] = "emit" =>
         /\ IsDeclared(o, "signals", s[2])
         /\ IsSubtype(CalculateType(s[3], all), Declared(o, "signals", s[2]))
    /\ s[1] = "reply" =>
         /\ t.trigger[1] = "method"
         /\ IsSubtype(CalculateType(s[2], all), Declared(o, "methods", t.trigger[2]).out)

TransitionIsChecked(o, t, all) ==
    /\ TriggerIsDeclared(o, t.trigger)
    /\ \A p \in ToSet(t.preconditions) : PreconditionIsChecked(p, all)
    /\ \A s \in ToSet(t.statements) : StatementIsChecked(o, t, s, all)
    /\ \A p \in ToSet(t.preconditions) : p.error # NoError => t.trigger[1] = "method"
    /\ t.trigger[1] # "method" => \A s \in ToSet(t.statements) : ~IsAnswer(s)
    /\ \A i, j \in Answers(t.statements) : i = j

\* There is only one reply for the check of its type to look at.
LEMMA ReplyIsChecked ==
    ASSUME NEW o, NEW t, NEW all, IsSequence(t.statements), RightAnswers(t),
           NEW s \in ToSet(t.statements), s[1] = "reply", ReplyFault(o, t, all) = "ok"
    PROVE  /\ t.trigger[1] = "method"
           /\ IsSubtype(CalculateType(s[2], all), Declared(o, "methods", t.trigger[2]).out)
<1> DEFINE replies == {k \in DOMAIN t.statements : t.statements[k][1] = "reply"}
           m == Min(replies)
<1>1. PICK k \in DOMAIN t.statements : s = t.statements[k]
  BY DEF ToSet
<1>2. replies # {} /\ replies \in SUBSET Nat /\ k \in replies
  BY <1>1, SequenceFacts
<1>3. m \in replies
  BY <1>2, LeastNatural
<1>4. m \in Answers(t.statements) /\ k \in Answers(t.statements)
  BY <1>2, <1>3 DEF Answers, IsAnswer
<1>5. /\ (t.trigger[1] = "method") = (\E a \in ToSet(t.statements) : IsAnswer(a))
      /\ \A i, j \in Answers(t.statements) : i = j
  BY AnswersCounted, Zenon
<1>6. m = k /\ t.trigger[1] = "method"
  <2>1. \E a \in ToSet(t.statements) : IsAnswer(a)
    BY DEF IsAnswer
  <2> HIDE DEF m
  <2> QED BY <1>4, <1>5, <2>1
<1> DEFINE type == CalculateType(t.statements[m][2], all)
<1>7. ReplyFault(o, t, all) =
        IF replies = {} THEN "ok" ELSE IF type = Broken THEN "aborted"
        ELSE Holds(IsSubtype(type, Declared(o, "methods", t.trigger[2]).out))
  BY Zenon DEF ReplyFault, Min
<1>8. IsSubtype(type, Declared(o, "methods", t.trigger[2]).out)
  <2> HIDE DEF m, replies
  <2> QED BY <1>2, <1>7 DEF Holds
<1> QED BY <1>1, <1>6, <1>8

LEMMA TransitionsAreChecked ==
    ASSUME NEW o \in Descriptions, ObjectIsSane(o), NEW t \in ToSet(o.transitions),
           TransitionFault(o, t) = "ok"
    PROVE  TransitionIsChecked(o, t, Joined(types, LocalTypes(o, t.trigger)))
<1> DEFINE all == Joined(types, LocalTypes(o, t.trigger))
<1>1. /\ TriggerIsDeclared(o, t.trigger)
      /\ ReplyFault(o, t, all) = "ok"
      /\ \A p \in ToSet(t.preconditions) : PreconditionFault(p, all) = "ok"
      /\ \A s \in ToSet(t.statements) : StatementFault(o, s, all) = "ok"
  BY TransitionIsRight
<1>2. TransitionIsSane(t)
  BY DEF ObjectIsSane
<1>3. /\ IsSequence(t.statements)
      /\ \A s \in ToSet(t.statements) : s[1] \in {"assign", "emit", "reply", "throw"}
  BY DescriptionsAssumption
<1> HIDE DEF all
<1>4. ASSUME NEW p \in ToSet(t.preconditions)
      PROVE  PreconditionIsChecked(p, all) /\ (p.error # NoError => t.trigger[1] = "method")
  <2>1. PreCheck(p.condition) /\ (p.error # NoError => t.trigger[1] = "method")
    BY <1>2 DEF TransitionIsSane, PreconditionIsSane
  <2>2. Check(p.condition, all) = "ok" /\ Holds(CalculateType(p.condition, all) = <<"b">>) = "ok"
    <3>1. PreconditionFault(p, all) = "ok"
      BY <1>1
    <3> QED BY <3>1, TwoOk, Zenon DEF PreconditionFault
  <2> QED BY <2>1, <2>2 DEF PreconditionIsChecked, Holds
<1>5. RightAnswers(t)
  BY <1>2 DEF TransitionIsSane
<1>6. ASSUME NEW s \in ToSet(t.statements) PROVE StatementIsChecked(o, t, s, all)
  <2>1. StatementIsSane(s) /\ StatementFault(o, s, all) = "ok"
    BY <1>1, <1>2 DEF TransitionIsSane
  <2>2. CASE s[1] = "assign"
    <3> DEFINE left == <<"data", s[2]>>
    <3>1. PreCheck(left) /\ PreCheck(s[3])
      BY <2>1, <2>2 DEF StatementIsSane
    <3>2. AssignmentFault(s[2], s[3], all) = "ok"
      BY <2>1, <2>2 DEF StatementFault
    <3>3. /\ Check(left, all) = "ok" /\ Check(s[3], all) = "ok" /\ Holds(IsVariable(left)) = "ok"
          /\ Holds(IsSubtype(CalculateType(s[3], all), CalculateType(left, all))) = "ok"
      BY <3>2, FourOk, Zenon DEF AssignmentFault
    <3> QED BY <2>2, <3>1, <3>3 DEF StatementIsChecked, Holds, ExpressionOf
  <2>3. CASE s[1] = "emit"
    <3>1. PreCheck(s[3])
      BY <2>1, <2>3 DEF StatementIsSane
    <3>2. EmitFault(o, s[2], s[3], all) = "ok"
      BY <2>1, <2>3 DEF StatementFault
    <3>3. /\ Check(s[3], all) = "ok" /\ Holds(IsDeclared(o, "signals", s[2])) = "ok"
          /\ Holds(IsSubtype(CalculateType(s[3], all), Declared(o, "signals", s[2]))) = "ok"
      BY <3>2, ThreeOk, Zenon DEF EmitFault
    <3> QED BY <2>3, <3>1, <3>3 DEF StatementIsChecked, Holds, ExpressionOf
  <2>4. CASE s[1] = "reply"
    <3>1. PreCheck(s[2])
      BY <2>1, <2>4 DEF StatementIsSane
    <3>2. Check(s[2], all) = "ok"
      BY <2>1, <2>4 DEF StatementFault
    <3>3. /\ t.trigger[1] = "method"
          /\ IsSubtype(CalculateType(s[2], all), Declared(o, "methods", t.trigger[2]).out)
      BY <1>1, <1>3, <1>5, <2>4, ReplyIsChecked
    <3> QED BY <2>4, <3>1, <3>2, <3>3 DEF StatementIsChecked, ExpressionOf
  <2>5. CASE s[1] = "throw"
    BY <2>5 DEF StatementIsChecked
  <2> QED BY <1>3, <2>2, <2>3, <2>4, <2>5
<1>7. /\ (t.trigger[1] = "method") = (\E a \in ToSet(t.statements) : IsAnswer(a))
      /\ \A i, j \in Answers(t.statements) : i = j
  BY <1>3, <1>5, AnswersCounted, Zenon
<1>8. t.trigger[1] # "method" => \A s \in ToSet(t.statements) : ~IsAnswer(s)
  BY <1>7
<1> QED BY <1>1, <1>4, <1>6, <1>7, <1>8 DEF TransitionIsChecked, all

\* The preconditions fail with the error of one of them, or are fulfilled.
FailureIsKnown(f, preconditions, unset) ==
    IF IsAbort(f) THEN Payload(f) \in AbortsOfUse(unset)
    ELSE Payload(f) = <<>> \/ \E p \in ToSet(preconditions) : Payload(f) = <<p.error>>

LEMMA FailuresAreKnown ==
    ASSUME NEW unset, NEW preconditions, IsSequence(preconditions), NEW env,
           HasValues(env, unset),
           \A p \in ToSet(preconditions) : PreconditionIsChecked(p, env.types),
           \A p \in ToSet(preconditions) : ExpressionIsSound(p.condition, env, unset)
    PROVE  \A f \in FailureOf(preconditions, env) : FailureIsKnown(f, preconditions, unset)
<1> DEFINE n == Len(preconditions)
<1>1. n \in Nat /\ \A k \in 1..n : preconditions[k] \in ToSet(preconditions)
  BY SequenceFacts
<1>2. PICK f : FailureOf(preconditions, env) = f[n] /\ Failures(f, preconditions, env)
  BY FailureRecursion
<1>7. /\ f[0] = {Sequence(<<>>)}
      /\ \A k \in 1..n : f[k] = Test(preconditions[k], env, f[k - 1])
  BY <1>2 DEF Failures
<1> DEFINE P == {k \in 0..n : \A x \in f[k] : FailureIsKnown(x, preconditions, unset)}
<1>3. ASSUME NEW a PROVE ~IsAbort(Sequence(a)) /\ Payload(Sequence(a)) = a
  BY DEF IsAbort, Sequence, Variant, Payload
<1>4. 0 \in P
  BY <1>1, <1>3, <1>7 DEF FailureIsKnown
<1>5. ASSUME NEW k \in 0..(n - 1), k \in P PROVE k + 1 \in P
  <2> DEFINE p == preconditions[k + 1]
  <2>1. k + 1 \in 1..n /\ k + 1 \in 0..n /\ (k + 1) - 1 = k
    BY <1>1, SMT
  <2>2. p \in ToSet(preconditions) /\ f[k + 1] = Test(p, env, f[k])
    BY <1>1, <1>7, <2>1
  <2> HIDE DEF p
  <2>3. ASSUME NEW v \in Evaluate(p.condition, env), IsAbort(v) PROVE Payload(v) \in AbortsOfUse(unset)
    BY <2>2, <2>3 DEF ExpressionIsSound, IsRight, PreconditionIsChecked
  <2>4. ASSUME NEW x \in f[k + 1] PROVE FailureIsKnown(x, preconditions, unset)
    <3>1. CASE x \in f[k]
      BY <1>5, <3>1
    <3>2. CASE \E v \in Evaluate(p.condition, env) :
                 IF IsAbort(v) THEN x = v ELSE x = Sequence(<<p.error>>) \/ x \in f[k]
      <4>1. PICK v \in Evaluate(p.condition, env) :
                 IF IsAbort(v) THEN x = v ELSE x = Sequence(<<p.error>>) \/ x \in f[k]
        BY <3>2
      <4>2. CASE IsAbort(v)
        BY <4>1, <4>2, <2>3 DEF FailureIsKnown
      <4>3. CASE x = Sequence(<<p.error>>)
        BY <4>3, <1>3, <2>2 DEF FailureIsKnown
      <4> QED BY <3>1, <4>1, <4>2, <4>3
    <3> QED BY <2>2, <3>1, <3>2, TestMembers
  <2> QED BY <2>1, <2>4
<1>6. n \in P
  <2> HIDE DEF P, n
  <2>1. \A k \in 0..(n - 1) : k \in P => k + 1 \in P
    BY <1>5
  <2>2. 0 \in Nat /\ 0 <= n /\ n \in 0..n
    BY <1>1, SMT
  <2>3. \A k \in 0..n : k \in P
    BY <1>1, <1>4, <2>1, <2>2, UpTo, Zenon
  <2> QED BY <2>2, <2>3
<1> QED BY <1>2, <1>6

LEMMA AppendedOutput ==
    ASSUME NEW out, NEW a, IsSequence(out)
    PROVE  /\ IsSequence(Append(out, a)) /\ ToSet(Append(out, a)) = ToSet(out) \cup {a}
           /\ Answers(Append(out, a)) = Answers(out) \cup (IF IsAnswer(a) THEN {Len(out) + 1} ELSE {})
<1> DEFINE n == Len(out)
           S == ToSet(out) \cup {a}
           u == Append(out, a)
<1>1. n \in Nat /\ DOMAIN out = 1..n /\ out \in Seq(ToSet(out)) /\ \A k \in 1..n : out[k] \in ToSet(out)
  BY SequenceFacts
<1>2. out \in Seq(S) /\ a \in S
  BY <1>1, SeqMonotonic
<1> HIDE DEF S
<1>3. /\ u \in Seq(S) /\ Len(u) = n + 1
      /\ \A k \in 1..n : u[k] = out[k]
      /\ u[n + 1] = a
  BY <1>1, <1>2, AppendProperties
<1>4. DOMAIN u = 1..(n + 1)
  BY <1>3, LenProperties
<1>5. 1..(n + 1) = 1..n \cup {n + 1} /\ n + 1 \notin 1..n
  BY <1>1, SMT
<1> HIDE DEF u, n
<1>6. ToSet(u) = ToSet(out) \cup {a}
  <2>1. ToSet(u) = {u[k] : k \in 1..n \cup {n + 1}} /\ ToSet(out) = {out[k] : k \in 1..n}
    BY <1>1, <1>4, <1>5 DEF ToSet
  <2> QED BY <1>3, <2>1
<1>7. Answers(u) = Answers(out) \cup (IF IsAnswer(a) THEN {n + 1} ELSE {})
  BY <1>1, <1>3, <1>4, <1>5 DEF Answers
<1>8. IsSequence(u)
  BY <1>3, SequenceOver
<1> QED BY <1>6, <1>7, <1>8 DEF u, n

\* What is sent is of the type declared for it.
SentIsRight(o, t, a) ==
    /\ a[1] = "reply" =>
         TypeOfValue(a[2]) = Declared(o, "methods", t.trigger[2]).out /\ IsValue(a[2])
    /\ a[1] = "emit" =>
         TypeOfValue(a[3]) = Declared(o, "signals", a[2]) /\ IsValue(a[3])

AbortIsKnown(reason, t, all, unset) ==
    \/ reason \in AbortsOfUse(unset)
    \/ /\ reason = "value of another type"
       /\ \E s \in ToSet(t.statements) : s[1] = "assign" /\ ~PlacesFit(<<"data", s[2]>>, all)

\* The statement s adds what it sends, if it sends anything.
StepIsRight(x, o, t, s, all, output, unset) ==
    IF IsAbort(x) THEN AbortIsKnown(Payload(x), t, all, unset)
    ELSE /\ IsTyped(all, Payload(x)[1], unset)
         /\ \/ Payload(x)[2] = output /\ ~IsAnswer(s)
            \/ \E a : /\ Payload(x)[2] = Append(output, a)
                      /\ SentIsRight(o, t, a) /\ IsAnswer(a) = IsAnswer(s)

LEMMA OutcomeParts ==
    ASSUME NEW after, NEW output
    PROVE  /\ ~IsAbort(Outcome(after, output))
           /\ Payload(Outcome(after, output))[1] = after
           /\ Payload(Outcome(after, output))[2] = output
  BY DEF IsAbort, Outcome, Variant, Payload

LEMMA AppendedIsRight ==
    ASSUME NEW unset, NEW o, NEW t, NEW s, NEW all, NEW output, NEW after, IsTyped(all, after, unset),
           NEW a, SentIsRight(o, t, a), IsAnswer(a) = IsAnswer(s)
    PROVE  StepIsRight(Outcome(after, Append(output, a)), o, t, s, all, output, unset)
<1> DEFINE x == Outcome(after, Append(output, a))
<1>1. ~IsAbort(x) /\ Payload(x)[1] = after /\ Payload(x)[2] = Append(output, a)
  BY OutcomeParts, Zenon
<1> HIDE DEF x
<1>2. StepIsRight(x, o, t, s, all, output, unset)
  BY <1>1, Zenon DEF StepIsRight
<1> QED BY <1>2 DEF x

\* The types of methods and signals of the object are among those sent.
LEMMA DeclaredAreSent ==
    ASSUME NEW o \in Descriptions, ToSet(o.interfaces) \subseteq DOMAIN Introspection, NEW name
    PROVE  /\ IsDeclared(o, "methods", name) => Declared(o, "methods", name).out \in TypesSent
           /\ IsDeclared(o, "signals", name) => Declared(o, "signals", name) \in TypesSent
<1>1. ASSUME IsDeclared(o, "methods", name) PROVE Declared(o, "methods", name).out \in TypesSent
  <2>1. PICK i \in ToSet(o.interfaces) :
           /\ name \in DOMAIN Introspection[i]["methods"]
           /\ Declared(o, "methods", name) = Introspection[i]["methods"][name]
    BY <1>1, DeclaredFacts
  <2> QED BY <2>1 DEF TypesSent
<1>2. ASSUME IsDeclared(o, "signals", name) PROVE Declared(o, "signals", name) \in TypesSent
  <2>1. PICK i \in ToSet(o.interfaces) :
           /\ name \in DOMAIN Introspection[i]["signals"]
           /\ Declared(o, "signals", name) = Introspection[i]["signals"][name]
    BY <1>2, DeclaredFacts
  <2> QED BY <2>1 DEF TypesSent
<1> QED BY <1>1, <1>2

LEMMA StatementsAreRight ==
    ASSUME NEW unset, NEW o \in Descriptions, ToSet(o.interfaces) \subseteq DOMAIN Introspection,
           NEW t, NEW s \in ToSet(t.statements), NEW env, NEW output,
           TriggerIsDeclared(o, t.trigger),
           HasValues(env, unset),
           StatementIsChecked(o, t, s, env.types), StatementIsSound(s, env, unset),
           NEW x \in ExecuteStatement(s, env, output)
    PROVE  StepIsRight(x, o, t, s, env.types, output, unset)
<1> DEFINE all == env.types
           e == ExpressionOf(s)
<1>0. IsTyped(env.types, env.values, unset)
  BY DEF HasValues
<1>1. CASE s[1] = "throw"
  <2>1. x = Outcome(env.values, Append(output, s))
    BY <1>1 DEF ExecuteStatement
  <2>2. SentIsRight(o, t, s)
    BY <1>1 DEF SentIsRight
  <2> QED BY <1>0, <2>1, <2>2, AppendedIsRight, Zenon
<1>2. CASE s[1] # "throw"
  <2>1. PICK v \in Evaluate(e, env) :
           IF IsAbort(v) THEN x = v ELSE x \in OutcomesOf(s, env, output, v)
    BY <1>2 DEF ExecuteStatement, Then
  <2>2. IsRight(e, env, unset)
    BY <1>2 DEF IsRight, StatementIsChecked
  <2>3. IF IsAbort(v) THEN Payload(v) \in AbortsOfUse(unset)
        ELSE TypeOfValue(v) = CalculateType(e, all) /\ IsValue(v)
    BY <1>2, <2>2 DEF StatementIsSound, ExpressionIsSound
  <2>4. CASE IsAbort(v)
    BY <2>1, <2>3, <2>4 DEF StepIsRight, AbortIsKnown
  <2>5. CASE ~IsAbort(v)
    <3> HIDE DEF e
    <3>1. x \in OutcomesOf(s, env, output, v) /\ TypeOfValue(v) = CalculateType(e, all) /\ IsValue(v)
      BY <2>1, <2>3, <2>5
    <3>2. /\ s[1] = "assign" => AssignmentIsSound(s[2], env, v, unset)
          /\ \A type \in TypesSent : IsSubtype(TypeOfValue(v), type) => TypeOfValue(v) = type
      BY <1>2, <2>1, <2>2, <2>5 DEF StatementIsSound, e
    <3>3. CASE s[1] = "assign"
      <4> DEFINE left == <<"data", s[2]>>
      <4>1. e = s[3]
        BY <3>3 DEF e, ExpressionOf
      <4>2. /\ IsRight(left, env, unset) /\ IsVariable(left)
            /\ IsSubtype(TypeOfValue(v), CalculateType(left, all))
        BY <3>1, <3>3, <4>1 DEF IsRight, StatementIsChecked
      <4>3. PICK after \in SetFromVariant(s[2], env, v) :
               IF IsAbort(after) THEN x = after ELSE x = Outcome(Payload(after), output)
        BY <3>1, <3>3 DEF OutcomesOf, Then
      <4>4. IF IsAbort(after)
              THEN \/ Payload(after) \in AbortsOfUse(unset)
                   \/ Payload(after) = "value of another type" /\ ~PlacesFit(left, all)
              ELSE IsTyped(all, Payload(after), unset)
        BY <3>2, <3>3, <4>2 DEF AssignmentIsSound
      <4>5. CASE IsAbort(after)
        BY <3>3, <4>3, <4>4, <4>5 DEF StepIsRight, AbortIsKnown
      <4>6. CASE ~IsAbort(after)
        <5>1. ~IsAnswer(s)
          BY <3>3 DEF IsAnswer
        <5>2. x = Outcome(Payload(after), output) /\ IsTyped(all, Payload(after), unset)
          BY <4>3, <4>4, <4>6
        <5> QED BY <5>1, <5>2, OutcomeParts DEF StepIsRight
      <4> QED BY <4>5, <4>6
    <3>4. CASE s[1] = "emit"
      <4> DEFINE a == <<"emit", s[2], v>>
      <4>1. x = Outcome(env.values, Append(output, a)) /\ e = s[3]
        BY <3>1, <3>4 DEF OutcomesOf, e, ExpressionOf
      <4>2. /\ IsDeclared(o, "signals", s[2])
            /\ IsSubtype(CalculateType(e, all), Declared(o, "signals", s[2]))
        BY <3>4, <4>1 DEF StatementIsChecked
      <4>3. TypeOfValue(v) = Declared(o, "signals", s[2])
        BY <3>1, <3>2, <4>2, DeclaredAreSent
      <4>4. SentIsRight(o, t, a) /\ IsAnswer(a) = IsAnswer(s)
        BY <3>1, <3>4, <4>3 DEF SentIsRight, IsAnswer
      <4> QED BY <1>0, <4>1, <4>4, AppendedIsRight, Zenon
    <3>5. CASE s[1] = "reply"
      <4> DEFINE a == <<"reply", v>>
      <4>1. x = Outcome(env.values, Append(output, a)) /\ e = s[2]
        BY <3>1, <3>5 DEF OutcomesOf, e, ExpressionOf
      <4>2. /\ IsDeclared(o, "methods", t.trigger[2])
            /\ IsSubtype(CalculateType(e, all), Declared(o, "methods", t.trigger[2]).out)
        BY <3>5, <4>1 DEF StatementIsChecked, TriggerIsDeclared
      <4>3. TypeOfValue(v) = Declared(o, "methods", t.trigger[2]).out
        BY <3>1, <3>2, <4>2, DeclaredAreSent
      <4>4. SentIsRight(o, t, a) /\ IsAnswer(a) = IsAnswer(s)
        BY <3>1, <3>5, <4>3 DEF SentIsRight, IsAnswer
      <4> QED BY <1>0, <4>1, <4>4, AppendedIsRight, Zenon
    <3> QED BY <1>2, <3>3, <3>4, <3>5 DEF StatementIsChecked
  <2> QED BY <2>4, <2>5
<1> QED BY <1>1, <1>2

\* What the first k statements of the transition t have sent.
OutputIsRight(out, o, t, k) ==
    /\ IsSequence(out)
    /\ \A a \in ToSet(out) : SentIsRight(o, t, a)
    /\ Answers(out) # {} => \E j \in 1..k : IsAnswer(t.statements[j])
    /\ \A i, j \in Answers(out) : i = j

OutcomeIsRight(x, o, t, all, k, unset) ==
    IF IsAbort(x) THEN AbortIsKnown(Payload(x), t, all, unset)
    ELSE IsTyped(all, Payload(x)[1], unset) /\ OutputIsRight(Payload(x)[2], o, t, k)

\* There is no second answer, as there is no second statement that answers.
LEMMA OutputGrows ==
    ASSUME NEW o, NEW t, IsSequence(t.statements), \A i, j \in Answers(t.statements) : i = j,
           NEW k \in Nat, k + 1 \in 1..Len(t.statements),
           NEW output, OutputIsRight(output, o, t, k), NEW out,
           \/ out = output /\ ~IsAnswer(t.statements[k + 1])
           \/ \E a : /\ out = Append(output, a) /\ SentIsRight(o, t, a)
                     /\ IsAnswer(a) = IsAnswer(t.statements[k + 1])
    PROVE  OutputIsRight(out, o, t, k + 1)
<1>1. 1..k \subseteq 1..(k + 1) /\ k + 1 \in 1..(k + 1) /\ k + 1 \notin 1..k
  BY SMT
<1>2. DOMAIN t.statements = 1..Len(t.statements) /\ Len(t.statements) \in Nat
  BY SequenceFacts
<1>3. 1..k \subseteq 1..Len(t.statements)
  BY <1>2, SMT
<1>4. CASE out = output
  BY <1>1, <1>4 DEF OutputIsRight
<1>5. CASE \E a : /\ out = Append(output, a) /\ SentIsRight(o, t, a)
                 /\ IsAnswer(a) = IsAnswer(t.statements[k + 1])
  <2>1. PICK a : /\ out = Append(output, a) /\ SentIsRight(o, t, a)
                 /\ IsAnswer(a) = IsAnswer(t.statements[k + 1])
    BY <1>5
  <2>2. /\ IsSequence(out) /\ ToSet(out) = ToSet(output) \cup {a}
        /\ Answers(out) = Answers(output) \cup (IF IsAnswer(a) THEN {Len(output) + 1} ELSE {})
    BY <2>1, AppendedOutput DEF OutputIsRight
  <2>3. \A b \in ToSet(out) : SentIsRight(o, t, b)
    BY <2>1, <2>2 DEF OutputIsRight
  <2>4. CASE IsAnswer(a)
    <3>1. IsAnswer(t.statements[k + 1])
      BY <2>1, <2>4
    <3>2. ASSUME NEW j \in 1..k, IsAnswer(t.statements[j]) PROVE FALSE
      BY <1>1, <1>2, <1>3, <3>1, <3>2 DEF Answers
    <3>3. Answers(output) = {}
      BY <3>2 DEF OutputIsRight
    <3>4. Answers(out) = {Len(output) + 1}
      BY <2>2, <2>4, <3>3
    <3> QED BY <1>1, <2>2, <2>3, <3>1, <3>4 DEF OutputIsRight
  <2>5. CASE ~IsAnswer(a)
    <3>1. Answers(out) = Answers(output)
      BY <2>2, <2>5
    <3> QED BY <1>1, <2>2, <2>3, <3>1 DEF OutputIsRight
  <2> QED BY <2>4, <2>5
<1> QED BY <1>4, <1>5

LEMMA OutcomesAreRight ==
    ASSUME NEW unset, NEW o \in Descriptions, ToSet(o.interfaces) \subseteq DOMAIN Introspection,
           NEW t, IsSequence(t.statements),
           NEW all, NEW valuation, IsTyped(all, valuation, unset), NEW fuzz \in BOOLEAN,
           TransitionIsChecked(o, t, all),
           \A s \in ToSet(t.statements) : \A env : StatementIsSound(s, env, unset)
    PROVE  \A x \in ExecuteStatements(t.statements,
                                      [types |-> all, values |-> valuation, fuzzing |-> fuzz]) :
             OutcomeIsRight(x, o, t, all, Len(t.statements), unset)
<1> DEFINE n == Len(t.statements)
           env == [types |-> all, values |-> valuation, fuzzing |-> fuzz]
           Of(w) == [env EXCEPT !.values = w]
           base == Outcome(env.values, <<>>)
<1>1. n \in Nat /\ \A k \in 1..n : t.statements[k] \in ToSet(t.statements)
  BY SequenceFacts
<1>2. PICK f : ExecuteStatements(t.statements, env) = f[n] /\ Executions(f, t.statements, env)
  BY ExecuteRecursion
<1>3. /\ f[0] = {base}
      /\ \A k \in 1..n : f[k] = Proceed(t.statements[k], env, f[k - 1])
  BY <1>2 DEF Executions
<1> DEFINE P == {k \in 0..n : \A x \in f[k] : OutcomeIsRight(x, o, t, all, k, unset)}
<1>4. 0 \in P
  <2>1. OutputIsRight(<<>>, o, t, 0)
    <3>1. <<>> \in Seq({}) /\ DOMAIN <<>> = {}
      BY SMT
    <3>2. ToSet(<<>>) = {} /\ Answers(<<>>) = {}
      BY <3>1 DEF ToSet, Answers
    <3> QED BY <3>1, <3>2 DEF OutputIsRight, IsSequence
  <2>2. ~IsAbort(base) /\ Payload(base)[1] = valuation /\ Payload(base)[2] = <<>>
    BY OutcomeParts
  <2> HIDE DEF base
  <2>3. OutcomeIsRight(base, o, t, all, 0, unset)
    BY <2>1, <2>2 DEF OutcomeIsRight
  <2>4. 0 \in 0..n
    BY <1>1, SMT
  <2> QED BY <1>3, <2>3, <2>4
<1>5. \A w : Of(w) = [types |-> all, values |-> w, fuzzing |-> fuzz]
  OBVIOUS
<1> HIDE DEF base
<1>6. ASSUME NEW k \in 0..(n - 1), k \in P PROVE k + 1 \in P
  <2> DEFINE s == t.statements[k + 1]
  <2>1. k + 1 \in 1..n /\ k + 1 \in 0..n /\ (k + 1) - 1 = k /\ k \in Nat
    BY <1>1, SMT
  <2>2. s \in ToSet(t.statements) /\ f[k + 1] = Proceed(s, env, f[k])
    BY <1>1, <1>3, <2>1
  <2>3. /\ TriggerIsDeclared(o, t.trigger) /\ StatementIsChecked(o, t, s, all)
        /\ \A i, j \in Answers(t.statements) : i = j
    BY <2>2 DEF TransitionIsChecked
  <2> HIDE DEF s, Of, env
  <2>4. ASSUME NEW x \in f[k + 1] PROVE OutcomeIsRight(x, o, t, all, k + 1, unset)
    <3>1. PICK y \in f[k] :
             IF IsAbort(y) THEN x = y
             ELSE x \in ExecuteStatement(s, Of(Payload(y)[1]), Payload(y)[2])
      BY <2>2 DEF Proceed, Then, Of
    <3>2. OutcomeIsRight(y, o, t, all, k, unset)
      BY <1>6
    <3>3. CASE IsAbort(y)
      BY <3>1, <3>2, <3>3 DEF OutcomeIsRight
    <3>4. CASE ~IsAbort(y)
      <4> DEFINE w == Payload(y)[1]
                 output == Payload(y)[2]
      <4>1. /\ x \in ExecuteStatement(s, Of(w), output) /\ IsTyped(all, w, unset)
            /\ OutputIsRight(output, o, t, k)
        BY <3>1, <3>2, <3>4 DEF OutcomeIsRight
      <4> HIDE DEF w, output
      <4>2. StepIsRight(x, o, t, s, all, output, unset)
        <5> DEFINE now == Of(w)
        <5>1. now.types = all /\ HasValues(now, unset) /\ StatementIsSound(s, now, unset)
          <6>1. now = [types |-> all, values |-> w, fuzzing |-> fuzz]
            BY <1>5
          <6> HIDE DEF now
          <6>2. now.types = all /\ now.values = w /\ now.fuzzing = fuzz
            BY <6>1
          <6> QED BY <2>2, <4>1, <6>1, <6>2 DEF HasValues
        <5>2. x \in ExecuteStatement(s, now, output)
          BY <4>1
        <5> HIDE DEF now
        <5> QED BY <2>2, <2>3, <4>1, <5>1, <5>2, StatementsAreRight
      <4>3. CASE IsAbort(x)
        BY <4>2, <4>3 DEF StepIsRight, OutcomeIsRight
      <4>4. CASE ~IsAbort(x)
        <5> DEFINE out == Payload(x)[2]
        <5>1. /\ IsTyped(all, Payload(x)[1], unset)
              /\ \/ out = output /\ ~IsAnswer(s)
                 \/ \E a : /\ out = Append(output, a) /\ SentIsRight(o, t, a)
                           /\ IsAnswer(a) = IsAnswer(s)
          BY <4>2, <4>4 DEF StepIsRight
        <5>2. OutputIsRight(out, o, t, k + 1)
          <6> HIDE DEF out
          <6> QED BY <2>1, <2>3, <4>1, <5>1, OutputGrows DEF s
        <5> QED BY <4>4, <5>1, <5>2 DEF OutcomeIsRight
      <4> QED BY <4>3, <4>4
    <3> QED BY <3>3, <3>4
  <2> QED BY <2>1, <2>4
<1>7. n \in P
  <2> HIDE DEF P, n
  <2>1. \A k \in 0..(n - 1) : k \in P => k + 1 \in P
    BY <1>6
  <2>2. 0 \in Nat /\ 0 <= n /\ n \in 0..n
    BY <1>1, SMT
  <2>3. \A k \in 0..n : k \in P
    BY <1>1, <1>4, <2>1, <2>2, UpTo, Zenon
  <2> QED BY <2>2, <2>3
<1> QED BY <1>2, <1>7

LEMMA ObjectsOwnAreTyped ==
    ASSUME NEW unset, NEW own, NEW locals, NEW after, IsTyped(Joined(own, locals), after, unset),
           \A v \in DOMAIN own : v[1] = "object", \A v \in DOMAIN locals : v[1] = "local"
    PROVE  IsTyped(own, OfObject(after), unset)
<1>1. DOMAIN after \subseteq DOMAIN own \cup DOMAIN locals
  BY DEF IsTyped, Joined
<1>2. {w \in DOMAIN after : w[1] = "object"} = DOMAIN own \cap DOMAIN after
  BY <1>1
<1>3. /\ DOMAIN OfObject(after) = DOMAIN own \cap DOMAIN after
      /\ \A v \in DOMAIN own \cap DOMAIN after : OfObject(after)[v] = after[v]
  BY <1>2 DEF OfObject
<1>4. \A v \in DOMAIN own : v \in DOMAIN Joined(own, locals) /\ Joined(own, locals)[v] = own[v]
  BY DEF Joined
<1> QED BY <1>3, <1>4 DEF IsTyped

-----------------------------------------------------------------------------
(* Variables, output and aborts of every run.                              *)

\* The transition that was executed last, and what it sees.
LastRun == description.transitions[Head(ran)]
AllTypes(t) == Joined(types, LocalTypes(description, t.trigger))

\* What the transition t has sent.
SentBy(t, output) ==
    /\ IsSequence(output)
    /\ \A a \in ToSet(output) : SentIsRight(description, t, a)
    /\ t.trigger[1] # "method" => Answers(output) = {}
    /\ \A i, j \in Answers(output) : i = j

SoundInv ==
    /\ AcceptInv
    /\ IsTyped(types, values, Unset) /\ fuzzing \in BOOLEAN
    /\ \A v \in Unset : IsDeclaredNull(v)
    /\ \A v \in DOMAIN types : v[1] = "object"
    /\ \A p \in pending : /\ p[1] \in DOMAIN description.data
                         /\ p[2] \in DOMAIN DataList(description.data[p[1]])
    /\ stage \in {"parsed", "registered"} => ran = <<>>
    /\ ran \in Seq(DOMAIN description.transitions)
    /\ ran # <<>> => SentBy(LastRun, sent)
    /\ stage = "aborted" =>
         IF ran = <<>> THEN why \in AbortsOfUse(Unset) \cup AbortsOfLoading
         ELSE AbortIsKnown(why, LastRun, AllTypes(LastRun), Unset)

LEMMA NothingSent ==
    ASSUME NEW t
    PROVE  SentBy(t, <<>>)
<1>1. <<>> \in Seq({}) /\ DOMAIN <<>> = {}
  BY SMT
<1>2. ToSet(<<>>) = {} /\ Answers(<<>>) = {}
  BY <1>1 DEF ToSet, Answers
<1> QED BY <1>1, <1>2 DEF SentBy, IsSequence

LEMMA ErrorSent ==
    ASSUME NEW t, t.trigger[1] = "method", NEW error
    PROVE  SentBy(t, <<<<"throw", error>>>>)
<1> DEFINE a == <<"throw", error>>
<1>1. IsSequence(<<a>>) /\ ToSet(<<a>>) = {a}
  BY SingleSequence
<1>2. DOMAIN <<a>> = {1}
  BY SMT
<1>3. SentIsRight(description, t, a)
  BY DEF SentIsRight
<1> HIDE DEF a
<1>4. Answers(<<a>>) \subseteq {1}
  BY <1>2 DEF Answers
<1>5. SentBy(t, <<a>>)
  BY <1>1, <1>3, <1>4 DEF SentBy
<1> QED BY <1>5 DEF a

LEMMA SoundInit == Init => SoundInv
<1> SUFFICES ASSUME Init PROVE SoundInv
  OBVIOUS
<1>1. PICK o \in Descriptions : Parsed(o)
  BY DEF Init
<1>2. /\ stage = "parsed" /\ pending = {} /\ types = Empty /\ values = Empty
      /\ fuzzing = TRUE /\ ran = <<>>
  BY <1>1 DEF Parsed
<1>3. DOMAIN Empty = {}
  BY DEF Empty
<1>4. /\ IsTyped(types, values, Unset) /\ Unset = {}
      /\ \A v \in DOMAIN types : v[1] = "object"
  BY <1>2, <1>3 DEF IsTyped, Unset
<1>5. ran \in Seq(DOMAIN description.transitions)
  BY <1>2
<1> QED BY <1>2, <1>4, <1>5, AcceptInit DEF SoundInv

\* A variable that is declared is typed as its value is, if there is a value.
LEMMA VariableStep ==
    ASSUME LanguageIsSound, SoundInv, NEW k, NEW name, <<k, name>> \in pending,
           CheckVariable(k, name)
    PROVE  SoundInv'
<1> DEFINE d == DataList(description.data[k])[name]
           e == <<"data", d>>
           verdict == Check(e, types)
           variable == <<"object", name>>
           S == Unset
           T == CalculateType(e, types)
<1>1. /\ stage = "registered" /\ ran = <<>> /\ AcceptInv' /\ UNCHANGED <<description, fuzzing, ran, sent>>
      /\ pending' \subseteq pending
  BY AcceptStep DEF CheckVariable, SoundInv, Next
<1>2. /\ k \in DOMAIN description.data /\ name \in DOMAIN DataList(description.data[k])
      /\ description.data[k] \in ToSet(description.data)
      /\ description \in Descriptions /\ PreCheck(e)
  <2>1. /\ k \in DOMAIN description.data /\ name \in DOMAIN DataList(description.data[k])
        /\ description \in Descriptions /\ ObjectIsSane(description)
    BY <1>1 DEF SoundInv, AcceptInv
  <2>2. description.data[k] \in ToSet(description.data)
    BY <2>1 DEF ToSet
  <2> QED BY <2>1, <2>2 DEF ObjectIsSane
<1>3. /\ Environment = [types |-> types, values |-> values, fuzzing |-> fuzzing]
      /\ Environment.types = types /\ Environment.values = values /\ Environment.fuzzing = fuzzing
  BY DEF Environment
<1>4. /\ IsTyped(types, values, S) /\ fuzzing \in BOOLEAN /\ \A v \in DOMAIN types : v[1] = "object"
      /\ \A v \in S : IsDeclaredNull(v)
      /\ S = DOMAIN types \ DOMAIN values
  BY DEF SoundInv, Unset
<1>5. ASSUME verdict = "ok", NEW v \in ToVariant(d, Environment)
      PROVE  IF IsAbort(v) THEN Payload(v) \in AbortsOfUse(S)
             ELSE IF IsNull(v) THEN ~IsBuilt(d) /\ IsType(T)
             ELSE TypeOfValue(v) = T /\ IsValue(v)
  <2>1. DataIsSound(description, Environment, S)
    BY <1>2 DEF LanguageIsSound
  <2>2. IsRight(e, Environment, S)
    BY <1>2, <1>3, <1>4, <1>5 DEF IsRight, HasValues
  <2> QED BY <1>2, <1>3, <1>5, <2>1, <2>2 DEF DataIsSound
<1> HIDE DEF S
<1>6. CASE UNCHANGED <<types, values>> /\ (stage' = "aborted" => why' \in AbortsOfUse(S) \cup AbortsOfLoading)
  <2>1. /\ (IsTyped(types, values, Unset))' /\ (\A v \in DOMAIN types : v[1] = "object")'
        /\ (\A v \in Unset : IsDeclaredNull(v))'
        /\ Unset' = S
    BY <1>1, <1>4, <1>6 DEF Unset, IsDeclaredNull
  <2> HIDE DEF e, d, verdict, variable, T
  <2> QED BY <1>1, <1>4, <1>6, <2>1 DEF SoundInv
<1>7. CASE verdict # "ok"
  <2>1. Conclude(verdict, stage) /\ UNCHANGED <<types, values>>
    BY <1>7 DEF CheckVariable
  <2> HIDE DEF verdict
  <2>2. stage' = "aborted" => why' \in AbortsOfLoading
    BY <1>1, <2>1 DEF Conclude, Abort, AbortsOfLoading
  <2> QED BY <1>6, <2>1, <2>2
<1>8. CASE verdict = "ok"
  <2>1. PICK v \in ToVariant(d, Environment) :
          IF IsAbort(v) THEN Abort(Payload(v)) /\ UNCHANGED <<types, values>>
          ELSE IF variable \in DOMAIN types
            THEN Abort("variable declared twice") /\ UNCHANGED <<types, values>>
          ELSE /\ types' = Joined(types, [new \in {variable} |-> T])
               /\ values' = IF IsNull(v) THEN values
                            ELSE Joined(values, [new \in {variable} |-> v])
               /\ UNCHANGED <<stage, why>>
    BY <1>8 DEF CheckVariable
  <2>2. IF IsAbort(v) THEN Payload(v) \in AbortsOfUse(S)
        ELSE IF IsNull(v) THEN ~IsBuilt(d) /\ IsType(T)
        ELSE TypeOfValue(v) = T /\ IsValue(v)
    BY <1>5, <1>8
  <2> HIDE DEF e, verdict, T
  <2>3. CASE IsAbort(v)
    BY <1>6, <2>1, <2>2, <2>3 DEF Abort
  <2>4. CASE ~IsAbort(v) /\ variable \in DOMAIN types
    BY <1>6, <2>1, <2>4 DEF Abort, AbortsOfLoading
  <2>5. CASE ~IsAbort(v) /\ variable \notin DOMAIN types
    <3> DEFINE f == [new \in {variable} |-> T]
               g == [new \in {variable} |-> v]
               U == S \cup (IF IsNull(v) THEN {variable} ELSE {})
    <3>1. /\ types' = Joined(types, f) /\ stage' = stage /\ why' = why
          /\ values' = IF IsNull(v) THEN values ELSE Joined(values, g)
      BY <2>1, <2>5
    <3>2. DOMAIN f = {variable} /\ DOMAIN g = {variable} /\ g[variable] = v /\ f[variable] = T
      OBVIOUS
    <3>3. IsTyped(types, values, U)
      BY <1>4 DEF IsTyped
    <3>4. ~IsNull(v) => IsTyped(f, g, U)
      BY <2>2, <2>5, <3>2 DEF IsTyped
    <3>5. variable[1] = "object" /\ (IsNull(v) => IsDeclaredNull(variable))
      BY <1>2, <2>2, <2>5 DEF IsDeclaredNull
    <3> HIDE DEF f, g, variable
    <3>6. DOMAIN types \cap DOMAIN f = {}
      BY <2>5, <3>2
    <3>7. IsTyped(types', values', U)
      <4>1. CASE IsNull(v)
        <5>1. /\ DOMAIN types' = DOMAIN types \cup {variable} /\ values' = values
              /\ \A x \in DOMAIN types : types'[x] = types[x]
              /\ types'[variable] = T
          BY <2>5, <3>1, <3>2, <4>1 DEF Joined
        <5>2. IsType(T)
          BY <2>2, <2>5, <4>1
        <5> HIDE DEF T
        <5> QED BY <3>3, <4>1, <5>1, <5>2 DEF IsTyped
      <4>2. CASE ~IsNull(v)
        <5> HIDE DEF U
        <5> QED BY <3>1, <3>3, <3>4, <3>6, <4>2, JoinedIsTyped
      <4> QED BY <4>1, <4>2
    <3>8. IsTyped(types', values', Unset') /\ Unset' \subseteq U
      BY <3>7, UnsetLeft DEF Unset
    <3>9. \A x \in Unset' : IsDeclaredNull(x)
      BY <1>4, <3>5, <3>8
    <3>10. \A x \in DOMAIN types' : x[1] = "object"
      BY <1>4, <3>1, <3>2, <3>5 DEF Joined
    <3> HIDE DEF d
    <3>11. \A x \in Unset' : IsDeclaredNull(x)'
      BY <1>1, <3>9 DEF IsDeclaredNull
    <3> QED BY <1>1, <1>4, <3>1, <3>8, <3>10, <3>11 DEF SoundInv
  <2> QED BY <2>3, <2>4, <2>5
<1> QED BY <1>7, <1>8

\* Whatever a transition does leaves variables typed, and what it sends is right.
LEMMA ExecutionStep ==
    ASSUME LanguageIsSound, SoundInv, NEW k \in DOMAIN description.transitions,
           NEW fuzz \in BOOLEAN, Execute(k, fuzz)
    PROVE  SoundInv'
<1> DEFINE o == description
           t == description.transitions[k]
           locals == LocalTypes(description, t.trigger)
           all == Joined(types, locals)
           S == Unset
<1>1. /\ stage = "ready" /\ stage' \in {"ready", "aborted"} /\ AcceptInv'
      /\ ran' = <<k>> \o ran /\ UNCHANGED <<description, pending, types>>
  <2>1. AcceptInv'
    BY AcceptStep DEF SoundInv, Next
  <2> QED BY <2>1, ExecuteStage DEF Execute
<1>2. /\ o \in Descriptions /\ ObjectIsSane(o) /\ TransitionFault(o, t) = "ok"
      /\ t \in ToSet(o.transitions) /\ ToSet(o.interfaces) \subseteq DOMAIN Introspection
  <2>1. t \in ToSet(o.transitions)
    BY DEF ToSet
  <2>2. o \in Descriptions /\ ObjectIsSane(o) /\ TransitionFault(o, t) = "ok"
    BY <1>1, <2>1 DEF SoundInv, AcceptInv
  <2> QED BY <2>1, <2>2 DEF ObjectIsSane
<1>3. TransitionIsChecked(o, t, all)
  BY <1>2, TransitionsAreChecked
<1>4. \A v \in DOMAIN locals : v[1] = "local" /\ locals[v] \in DOMAIN Arguments
  BY <1>2, <1>3, LocalTypesFacts DEF TransitionIsChecked
<1>5. IsSequence(t.preconditions) /\ IsSequence(t.statements)
  BY <1>2, DescriptionsAssumption
<1>6. \A env : TransitionIsSound(t, env, S)
  BY <1>2 DEF LanguageIsSound
<1>7. /\ IsTyped(types, values, S) /\ fuzzing \in BOOLEAN /\ \A v \in DOMAIN types : v[1] = "object"
      /\ ran \in Seq(DOMAIN description.transitions)
      /\ \A v \in S : IsDeclaredNull(v)
      /\ S = DOMAIN types \ DOMAIN values
  BY DEF SoundInv, Unset
<1> HIDE DEF S
<1>8. ran' \in Seq(DOMAIN description.transitions) /\ ran' # <<>> /\ Head(ran') = k
  <2> DEFINE K == DOMAIN description.transitions
  <2>2. ran \in Seq(K) /\ k \in K
    BY <1>7
  <2> HIDE DEF K
  <2>1. <<k>> \in Seq(K) /\ Len(<<k>>) = 1 /\ <<k>>[1] = k /\ Len(ran) \in Nat
    BY <2>2, LenProperties
  <2>3. /\ <<k>> \o ran \in Seq(K) /\ Len(<<k>> \o ran) = Len(<<k>>) + Len(ran)
        /\ \A i \in 1..(Len(<<k>>) + Len(ran)) :
              (<<k>> \o ran)[i] = IF i <= Len(<<k>>) THEN <<k>>[i] ELSE ran[i - Len(<<k>>)]
    BY <2>1, <2>2, ConcatProperties
  <2>4. Len(ran') = 1 + Len(ran) /\ ran'[1] = k /\ ran' \in Seq(K)
    BY <1>1, <2>1, <2>3
  <2>5. ran' # <<>>
    BY <2>1, <2>4, EmptySeq
  <2> QED BY <2>4, <2>5 DEF K
<1>9. LastRun' = t /\ AllTypes(LastRun)' = all
  BY <1>1, <1>8 DEF LastRun, AllTypes
<1> HIDE DEF t, locals
<1>10. PICK args \in LocalValues(locals) :
         LET env == [types |-> Joined(types, locals), values |-> Joined(values, args),
                     fuzzing |-> fuzzing]
         IN  \E failure \in FailureOf(t.preconditions, env) :
               IF IsAbort(failure)
                 THEN Abort(Payload(failure)) /\ sent' = <<>> /\ UNCHANGED <<values, fuzzing>>
               ELSE IF Payload(failure) # <<>>
                 THEN /\ sent' = IF Payload(failure) = <<NoError>> THEN <<>>
                                 ELSE <<<<"throw", Payload(failure)[1]>>>>
                      /\ UNCHANGED <<stage, why, values, fuzzing>>
               ELSE /\ fuzzing' = fuzz
                    /\ \E x \in ExecuteStatements(t.statements, [env EXCEPT !.fuzzing = fuzz]) :
                         IF IsAbort(x)
                           THEN Abort(Payload(x)) /\ sent' = <<>> /\ UNCHANGED values
                           ELSE /\ values' = OfObject(Payload(x)[1])
                                /\ sent' = Payload(x)[2]
                                /\ UNCHANGED <<stage, why>>
  BY DEF Execute, t, locals
<1> DEFINE valuation == Joined(values, args)
           env == [types |-> all, values |-> valuation, fuzzing |-> fuzzing]
           now == [types |-> all, values |-> valuation, fuzzing |-> fuzz]
<1>11. [env EXCEPT !.fuzzing = fuzz] = now
  OBVIOUS
<1>12. IsTyped(all, valuation, S)
  <2>1. IsTyped(locals, args, S)
    BY <1>4, LocalValuesAreTyped
  <2>2. DOMAIN types \cap DOMAIN locals = {}
    BY <1>4, <1>7
  <2> QED BY <1>7, <2>1, <2>2, JoinedIsTyped DEF all
<1>13. env = [types |-> env.types, values |-> env.values, fuzzing |-> env.fuzzing]
       /\ env.types = all /\ env.values = valuation /\ env.fuzzing = fuzzing
  OBVIOUS
<1> HIDE DEF env, now
<1>14. PICK failure \in FailureOf(t.preconditions, env) :
          IF IsAbort(failure)
            THEN Abort(Payload(failure)) /\ sent' = <<>> /\ UNCHANGED <<values, fuzzing>>
          ELSE IF Payload(failure) # <<>>
            THEN /\ sent' = IF Payload(failure) = <<NoError>> THEN <<>>
                            ELSE <<<<"throw", Payload(failure)[1]>>>>
                 /\ UNCHANGED <<stage, why, values, fuzzing>>
          ELSE /\ fuzzing' = fuzz
               /\ \E x \in ExecuteStatements(t.statements, now) :
                    IF IsAbort(x)
                      THEN Abort(Payload(x)) /\ sent' = <<>> /\ UNCHANGED values
                      ELSE /\ values' = OfObject(Payload(x)[1])
                           /\ sent' = Payload(x)[2]
                           /\ UNCHANGED <<stage, why>>
  BY <1>10, <1>11 DEF env
<1> HIDE DEF valuation, all
<1>15. FailureIsKnown(failure, t.preconditions, S)
  <2>1. \A p \in ToSet(t.preconditions) : PreconditionIsChecked(p, env.types)
    BY <1>3, <1>13 DEF TransitionIsChecked
  <2>2. \A p \in ToSet(t.preconditions) : ExpressionIsSound(p.condition, env, S)
    BY <1>6 DEF TransitionIsSound
  <2>3. HasValues(env, S)
    BY <1>7, <1>12, <1>13 DEF HasValues
  <2> QED BY <1>5, <2>1, <2>2, <2>3, FailuresAreKnown
<1>16. /\ IsTyped(types', values', S) /\ fuzzing' \in BOOLEAN
       /\ SentBy(t, sent')
       /\ stage' = "aborted" => UNCHANGED values /\ AbortIsKnown(why', t, all, S)
  <2>1. CASE IsAbort(failure)
    BY <1>1, <1>7, <1>14, <1>15, <2>1, NothingSent DEF FailureIsKnown, AbortIsKnown, Abort
  <2>2. CASE ~IsAbort(failure) /\ Payload(failure) # <<>>
    <3>1. /\ sent' = IF Payload(failure) = <<NoError>> THEN <<>>
                     ELSE <<<<"throw", Payload(failure)[1]>>>>
          /\ UNCHANGED <<stage, why, values, fuzzing>>
      BY <1>14, <2>2
    <3>2. PICK p \in ToSet(t.preconditions) : Payload(failure) = <<p.error>>
      BY <1>15, <2>2 DEF FailureIsKnown
    <3>3. SentBy(t, sent')
      <4>1. CASE p.error = NoError
        BY <3>1, <3>2, <4>1, NothingSent
      <4>2. CASE p.error # NoError
        <5>1. t.trigger[1] = "method"
          BY <1>3, <4>2 DEF TransitionIsChecked
        <5>2. sent' = <<<<"throw", p.error>>>>
          BY <3>1, <3>2, <4>2
        <5> QED BY <5>1, <5>2, ErrorSent
      <4> QED BY <4>1, <4>2
    <3> QED BY <1>1, <1>7, <3>1, <3>3
  <2>3. CASE ~IsAbort(failure) /\ Payload(failure) = <<>>
    <3>1. PICK x \in ExecuteStatements(t.statements, now) :
             IF IsAbort(x)
               THEN Abort(Payload(x)) /\ sent' = <<>> /\ UNCHANGED values
               ELSE /\ values' = OfObject(Payload(x)[1])
                    /\ sent' = Payload(x)[2]
                    /\ UNCHANGED <<stage, why>>
      BY <1>14, <2>3
    <3>2. OutcomeIsRight(x, o, t, all, Len(t.statements), S)
      <4>1. \A s \in ToSet(t.statements) : \A e : StatementIsSound(s, e, S)
        BY <1>6 DEF TransitionIsSound
      <4>2. x \in ExecuteStatements(t.statements, [types |-> all, values |-> valuation, fuzzing |-> fuzz])
        BY <3>1 DEF now
      <4> QED BY <1>2, <1>3, <1>5, <1>12, <4>1, <4>2, OutcomesAreRight
    <3>3. fuzzing' \in BOOLEAN
      BY <1>14, <2>3
    <3>4. CASE IsAbort(x)
      BY <1>1, <1>7, <3>1, <3>2, <3>3, <3>4, NothingSent DEF OutcomeIsRight, Abort
    <3>5. CASE ~IsAbort(x)
      <4>1. /\ values' = OfObject(Payload(x)[1]) /\ sent' = Payload(x)[2] /\ stage' = stage
            /\ IsTyped(all, Payload(x)[1], S) /\ OutputIsRight(sent', o, t, Len(t.statements))
        BY <3>1, <3>2, <3>5 DEF OutcomeIsRight
      <4>2. IsTyped(types', values', S)
        BY <1>1, <1>4, <1>7, <4>1, ObjectsOwnAreTyped DEF all
      <4>3. SentBy(t, sent')
        <5>1. t.trigger[1] # "method" => \A j \in 1..Len(t.statements) : ~IsAnswer(t.statements[j])
          BY <1>3, <1>5, SequenceFacts DEF TransitionIsChecked
        <5> QED BY <4>1, <5>1 DEF OutputIsRight, SentBy
      <4> QED BY <1>1, <3>3, <4>1, <4>2, <4>3
    <3> QED BY <3>4, <3>5
  <2> QED BY <2>1, <2>2, <2>3
<1>17. /\ SentBy(LastRun, sent)'
       /\ IsTyped(types, values, Unset)' /\ \A v \in Unset' : IsDeclaredNull(v)'
       /\ stage' = "aborted" => AbortIsKnown(why, LastRun, AllTypes(LastRun), Unset)'
  <2>1. SentBy(LastRun, sent)'
    BY <1>1, <1>9, <1>16 DEF SentBy, SentIsRight
  <2>2. IsTyped(types', values', Unset') /\ Unset' \subseteq S
    BY <1>16, UnsetLeft DEF Unset
  <2>3. \A v \in Unset' : IsDeclaredNull(v)'
    BY <1>1, <1>7, <2>2 DEF IsDeclaredNull
  <2>4. stage' = "aborted" => AbortIsKnown(why, LastRun, AllTypes(LastRun), Unset)'
    <3>1. stage' = "aborted" => Unset' = S
      BY <1>1, <1>7, <1>16 DEF Unset
    <3> QED BY <1>9, <1>16, <3>1 DEF AbortIsKnown
  <2> QED BY <2>1, <2>2, <2>3, <2>4
<1> QED BY <1>1, <1>7, <1>8, <1>16, <1>17 DEF SoundInv

\* Steps that leave variables and output alone.
LEMMA QuietStep ==
    ASSUME SoundInv, AcceptInv', UNCHANGED <<description, types, values, fuzzing, ran, sent>>,
           \A p \in pending' : /\ p[1] \in DOMAIN description.data
                              /\ p[2] \in DOMAIN DataList(description.data[p[1]]),
           stage' \in {"parsed", "registered"} => ran = <<>>,
           \/ stage' # "aborted"
           \/ ran = <<>> /\ why' \in AbortsOfLoading
           \/ UNCHANGED <<stage, why>>
    PROVE  SoundInv'
<1>1. LastRun' = LastRun /\ AllTypes(LastRun)' = AllTypes(LastRun)
  BY DEF LastRun, AllTypes
<1>2. /\ IsTyped(types, values, Unset)' /\ \A v \in Unset' : IsDeclaredNull(v)'
      /\ (fuzzing \in BOOLEAN)' /\ (\A v \in DOMAIN types : v[1] = "object")'
      /\ (ran \in Seq(DOMAIN description.transitions))'
      /\ Unset' = Unset
  BY DEF SoundInv, Unset, IsDeclaredNull
<1>3. ASSUME ran # <<>> PROVE SentBy(LastRun, sent)'
  BY <1>1, <1>3 DEF SoundInv, SentBy, SentIsRight
<1>4. ASSUME stage' = "aborted"
      PROVE  (IF ran = <<>> THEN why \in AbortsOfUse(Unset) \cup AbortsOfLoading
              ELSE AbortIsKnown(why, LastRun, AllTypes(LastRun), Unset))'
  <2>1. CASE ran = <<>> /\ why' \in AbortsOfLoading
    BY <2>1
  <2>2. CASE UNCHANGED <<stage, why>>
    BY <1>1, <1>2, <1>4, <2>2 DEF SoundInv, AbortIsKnown
  <2> QED BY <1>4, <2>1, <2>2
<1> QED BY <1>2, <1>3, <1>4 DEF SoundInv

LEMMA SoundStep ==
    ASSUME LanguageIsSound
    PROVE  SoundInv /\ [Next]_vars => SoundInv'
<1> SUFFICES ASSUME SoundInv, [Next]_vars PROVE SoundInv'
  OBVIOUS
<1>1. AcceptInv'
  BY AcceptStep DEF SoundInv
<1>2. CASE InitialCheck
  <2>1. /\ stage = "parsed" /\ UNCHANGED <<description, why, types, values, fuzzing, ran, sent>>
        /\ ran = <<>> /\ stage' \in {"registered", "refused"}
    BY <1>2 DEF InitialCheck, SoundInv
  <2>2. \A p \in pending' : /\ p[1] \in DOMAIN description.data
                            /\ p[2] \in DOMAIN DataList(description.data[p[1]])
    <3>1. CASE UNCHANGED pending
      BY <3>1 DEF SoundInv
    <3>2. CASE pending' = UNION {{<<k, name>> : name \in DOMAIN DataList(description.data[k])} :
                                   k \in DOMAIN description.data}
      BY <3>2
    <3> QED BY <1>2, <3>1, <3>2 DEF InitialCheck
  <2> QED BY <1>1, <2>1, <2>2, QuietStep
<1>3. ASSUME NEW variable \in pending, CheckVariable(variable[1], variable[2]) PROVE SoundInv'
  <2>1. <<variable[1], variable[2]>> \in pending
    BY <1>3 DEF CheckVariable
  <2> QED BY <1>3, <2>1, VariableStep
<1>4. CASE CheckTransitions
  <2>1. /\ stage = "registered" /\ ran = <<>>
        /\ UNCHANGED <<description, pending, types, values, fuzzing, ran, sent>>
    BY <1>4 DEF CheckTransitions, SoundInv
  <2>2. stage' \in {"ready", "refused"} \/ why' \in AbortsOfLoading
    BY <1>4 DEF CheckTransitions, Conclude, Abort, AbortsOfLoading
  <2>3. \A p \in pending' : /\ p[1] \in DOMAIN description.data
                            /\ p[2] \in DOMAIN DataList(description.data[p[1]])
    BY <2>1 DEF SoundInv
  <2> QED BY <1>1, <2>1, <2>2, <2>3, QuietStep
<1>5. ASSUME NEW k \in DOMAIN description.transitions, NEW fuzz \in BOOLEAN, Execute(k, fuzz)
      PROVE  SoundInv'
  BY <1>5, ExecutionStep
<1>6. CASE UNCHANGED vars
  <2>1. UNCHANGED <<description, stage, why, pending, types, values, fuzzing, ran, sent>>
    BY <1>6 DEF vars
  <2>2. \A p \in pending' : /\ p[1] \in DOMAIN description.data
                            /\ p[2] \in DOMAIN DataList(description.data[p[1]])
    BY <2>1 DEF SoundInv
  <2>3. stage' \in {"parsed", "registered"} => ran = <<>>
    BY <2>1 DEF SoundInv
  <2> QED BY <1>1, <2>1, <2>2, <2>3, QuietStep
<1> QED BY <1>2, <1>3, <1>4, <1>5, <1>6 DEF Next

LEMMA AlwaysSound ==
    ASSUME LanguageIsSound
    PROVE  Spec => []SoundInv
  BY SoundInit, SoundStep, PTL DEF Spec

\* If expressions have the values that their types promise, then a variable that
\* has a value has one of its declared type, down to its smallest part, whatever
\* transitions do and in whatever order variables are initialised; and one that
\* has none was declared with a literal of which GLib makes nothing.
THEOREM ValuesAreOfTheirTypesHolds ==
    ASSUME LanguageIsSound
    PROVE  Spec => []ValuesAreOfTheirTypes
<1>1. SoundInv => ValuesAreOfTheirTypes
  BY DEF SoundInv, ValuesAreOfTheirTypes
<1> QED BY AlwaysSound, <1>1, PTL

\* If expressions have the values that their types promise, then every reply and
\* signal has the type that the introspection data declares for it, and a method
\* call is answered once, other transitions not at all.
THEOREM SentAsDeclaredHolds ==
    ASSUME LanguageIsSound
    PROVE  Spec => []SentAsDeclared
<1>1. SoundInv => SentAsDeclared
  <2> SUFFICES ASSUME SoundInv, ran # <<>> PROVE SentAsDeclared
    BY DEF SentAsDeclared
  <2> DEFINE t == LastRun
             A == Answers(sent)
  <2>1. SentBy(t, sent)
    BY DEF SoundInv
  <2>2. Cardinality(A) <= 1
    <3>1. \A i, j \in A : i = j
      BY <2>1 DEF SentBy
    <3> HIDE DEF A
    <3>2. CASE A = {}
      BY <3>2, FS_EmptySet
    <3>3. CASE A # {}
      <4>0. PICK x \in A : TRUE
        BY <3>3
      <4>1. A = {x}
        BY <3>1, <4>0
      <4>2. Cardinality(A) = 1
        BY <4>1, FS_Singleton
      <4> QED BY <4>2
    <3> QED BY <3>2, <3>3
  <2> QED BY <2>1, <2>2 DEF SentAsDeclared, SentBy, SentIsRight, LastRun
<1> QED BY AlwaysSound, <1>1, PTL

\* If expressions have the values that their types promise, then the process ends
\* for the reasons that are known and no others: while loading, because something
\* has no type or is declared twice; at any time, because an assertion about
\* operands, dictionaries or signatures fails or, if there is a variable without a
\* value, because it is used; later, because an annotation hid the type of a
\* variable that is assigned to.
THEOREM OnlyKnownAbortsHolds ==
    ASSUME LanguageIsSound
    PROVE  Spec => []OnlyKnownAborts
<1>1. SoundInv => OnlyKnownAborts
  BY DEF SoundInv, OnlyKnownAborts, AbortIsKnown, LastRun, AllTypes, AssignsToMisfits
<1> QED BY AlwaysSound, <1>1, PTL

\* The functions of the language undo and find one another's changes to the arrays
\* and dictionaries that variables hold, of any size and at any index.
THEOREM BuiltinsUndoOneAnotherHolds ==
    ASSUME LanguageIsSound
    PROVE  Spec => []BuiltinsUndoOneAnother
<1>1. SoundInv => BuiltinsUndoOneAnother
  <2> SUFFICES ASSUME SoundInv, NEW v \in DOMAIN values
               PROVE  /\ (IsArray(types[v]) /\ ~IsDict(types[v])) =>
                           \A n \in 0..(Len(Payload(values[v])) + 1),
                              x, default \in Samples(types[v][2]) :
                             ArrayLaws(values[v], n, x, default)
                      /\ IsDict(types[v]) =>
                           \A key, other \in Samples(types[v][2][2]),
                              x, default \in Samples(types[v][2][3]) :
                             DictLaws(values[v], key, other, x, default)
    BY DEF BuiltinsUndoOneAnother
  <2>1. TypeOfValue(values[v]) = types[v] /\ IsValue(values[v])
    BY DEF SoundInv, IsTyped
  <2>2. ListIsBuilt(values[v])
    BY DEF LanguageIsSound
  <2>3. ASSUME IsArray(types[v])
        PROVE  /\ IsSequence(Payload(values[v]))
               /\ values[v] = Variant(TypeOfValue(values[v]), Payload(values[v]))
    BY <2>1, <2>2, <2>3 DEF ListIsBuilt
  <2>4. ASSUME IsArray(types[v]), NEW n \in 0..(Len(Payload(values[v])) + 1), NEW x, NEW default
        PROVE  ArrayLaws(values[v], n, x, default)
    <3>1. n \in Nat
      BY SMT
    <3> QED BY <2>3, <2>4, <3>1, ArrayLawsHold
  <2>5. ASSUME IsDict(types[v]), NEW key, NEW other, NEW x, NEW default
        PROVE  DictLaws(values[v], key, other, x, default)
    <3>1. IsArray(types[v])
      BY <2>5 DEF IsDict
    <3> QED BY <2>3, <3>1, DictLawsHold
  <2> QED BY <2>4, <2>5
<1> QED BY AlwaysSound, <1>1, PTL
=============================================================================
