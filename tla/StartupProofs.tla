---------------------------- MODULE StartupProofs ----------------------------
(***************************************************************************)
(* Proofs about Startup: however many bytes a read returns, and whenever   *)
(* the daemon dies, main () is told of a whole address, once.              *)
(***************************************************************************)
EXTENDS Startup, SequenceTheorems, WellFoundedInduction, TLAPS

Symbols == Characters \cup {Newline, NoAddress[1]}
Texts == Seq(Symbols)

LEMMA Joined ==
    ASSUME NEW s \in Texts, NEW t \in Texts
    PROVE  /\ s \o t \in Texts /\ Len(s \o t) = Len(s) + Len(t)
           /\ \A k \in 1..(Len(s) + Len(t)) :
                 (s \o t)[k] = IF k <= Len(s) THEN s[k] ELSE t[k - Len(s)]
  BY ConcatProperties DEF Texts

LEMMA Rejoined ==
    ASSUME NEW s \in Texts, NEW t \in Texts, NEW u \in Texts
    PROVE  (s \o t) \o u = s \o (t \o u)
  BY ConcatAssociative DEF Texts

LEMMA AddressFacts ==
    ASSUME NEW a \in Addresses
    PROVE  /\ a \in Texts /\ Len(a) \in Nat /\ Append(a, Newline) \in Texts
           /\ \A k \in 1..Len(a) : a[k] # Newline /\ a[k] # NoAddress[1]
           /\ Append(a, Newline) # <<>> /\ Len(Append(a, Newline)) = Len(a) + 1
           /\ \A k \in 1..Len(a) : Append(a, Newline)[k] = a[k]
           /\ Append(a, Newline)[Len(a) + 1] = Newline
<1>1. a \in Seq(Characters)
  BY AddressesAssumption
<1>2. Len(a) \in Nat /\ \A k \in 1..Len(a) : a[k] \in Characters
  BY <1>1
<1>3. a \in Texts
  BY <1>1, <1>2 DEF Texts, Symbols
<1>4. Newline \in Symbols
  BY DEF Symbols
<1>5. \A k \in 1..Len(a) : a[k] # Newline /\ a[k] # NoAddress[1]
  BY <1>2, AddressesAssumption
<1>6. /\ Append(a, Newline) \in Texts /\ Append(a, Newline) # <<>>
      /\ Len(Append(a, Newline)) = Len(a) + 1
      /\ \A k \in 1..Len(a) : Append(a, Newline)[k] = a[k]
      /\ Append(a, Newline)[Len(a) + 1] = Newline
  BY <1>3, <1>4, AppendProperties DEF Texts
<1> QED
  BY <1>2, <1>3, <1>5, <1>6

Piece(b, n) == WithoutLineEnd(SubSeq(b, 1, n))
Rest(b, n)  == SubSeq(b, n + 1, Len(b))

\* What is written is read piece by piece: a piece that does not end the line is
\* kept as it is, and the one that ends it loses its line end.
LEMMA PieceByPiece ==
    ASSUME NEW a \in Addresses, NEW r \in Texts, NEW b \in Texts,
           r \o b = Append(a, Newline), b # <<>>,
           NEW n \in Nat, 0 < n, n <= Len(b)
    PROVE  /\ Piece(b, n) \in Texts /\ Rest(b, n) \in Texts
           /\ \/ Rest(b, n) # <<>> /\ (r \o Piece(b, n)) \o Rest(b, n) = Append(a, Newline)
              \/ Rest(b, n) = <<>> /\ r \o Piece(b, n) = a
<1> DEFINE first == SubSeq(b, 1, n)
           rest  == SubSeq(b, n + 1, Len(b))
           whole == Append(a, Newline)
<1>1. /\ Len(r) \in Nat /\ Len(b) \in Nat /\ Len(a) \in Nat
      /\ \A k \in 1..Len(b) : b[k] \in Symbols
  BY AddressFacts DEF Texts
<1>2. /\ first \in Texts /\ Len(first) = n
      /\ \A k \in 1..n : first[k] = b[k]
  <2>1. \A k \in 1..n : b[k] \in Symbols
    BY <1>1
  <2> QED BY <2>1, SubSeqProperties DEF Texts
<1>3. /\ rest \in Texts /\ Len(rest) = Len(b) - n
      /\ \A k \in 1..(Len(b) - n) : rest[k] = b[n + k]
  <2>1. \A k \in (n + 1)..Len(b) : b[k] \in Symbols
    BY <1>1
  <2>2. /\ rest \in Seq(Symbols)
        /\ Len(rest) = IF n + 1 <= Len(b) THEN Len(b) - (n + 1) + 1 ELSE 0
        /\ \A k \in 1..(Len(b) - (n + 1) + 1) : rest[k] = b[(n + 1) + k - 1]
    BY <2>1, <1>1, SubSeqProperties
  <2> QED BY <2>2, <1>1 DEF Texts
<1>4. /\ Len(r) + Len(b) = Len(a) + 1
      /\ \A k \in 1..Len(b) : b[k] = whole[Len(r) + k]
      /\ \A k \in 1..Len(r) : r[k] = whole[k]
  <2>1. /\ Len(r \o b) = Len(r) + Len(b)
        /\ \A k \in 1..(Len(r) + Len(b)) :
              (r \o b)[k] = IF k <= Len(r) THEN r[k] ELSE b[k - Len(r)]
    BY Joined
  <2>2. Len(whole) = Len(a) + 1
    BY AddressFacts
  <2>3. \A k \in 1..Len(b) : Len(r) + k \in 1..(Len(r) + Len(b))
                              /\ ~(Len(r) + k <= Len(r)) /\ (Len(r) + k) - Len(r) = k
    BY <1>1
  <2>4. \A k \in 1..Len(r) : k \in 1..(Len(r) + Len(b)) /\ k <= Len(r)
    BY <1>1
  <2> HIDE DEF whole
  <2>5. r \o b = whole
    BY DEF whole
  <2> QED BY <2>1, <2>2, <2>3, <2>4, <2>5
<1>5. Last(first) = b[n] /\ b[n] = whole[Len(r) + n]
  <2> HIDE DEF first, whole
  <2>1. n \in 1..n /\ n \in 1..Len(b)
    BY <1>1
  <2>2. Last(first) = first[n]
    BY <1>2 DEF Last
  <2> QED BY <2>1, <2>2, <1>2, <1>4
<1> HIDE DEF first, rest, whole
<1>6. CASE n = Len(b)
  <2>1. rest = <<>>
    BY <1>1, <1>3, <1>6, EmptySeq DEF Texts
  <2>2. b[n] = Newline
    BY <1>1, <1>4, <1>5, <1>6, AddressFacts DEF whole
  <2>3. WithoutLineEnd(first) = Front(first)
    BY <2>2, <1>5 DEF WithoutLineEnd
  <2>4. /\ Front(first) \in Texts /\ Len(Front(first)) = n - 1
        /\ \A k \in 1..(n - 1) : Front(first)[k] = b[k]
    <3>1. \A k \in 1..(n - 1) : first[k] \in Symbols /\ first[k] = b[k]
      BY <1>1, <1>2
    <3> QED BY <3>1, <1>2, SubSeqProperties DEF Front, Texts
  <2>5. r \o Front(first) = a
    <3>1. /\ r \o Front(first) \in Texts /\ Len(r \o Front(first)) = Len(r) + (n - 1)
          /\ \A k \in 1..(Len(r) + (n - 1)) :
                (r \o Front(first))[k] = IF k <= Len(r) THEN r[k] ELSE Front(first)[k - Len(r)]
      <4> DEFINE f == Front(first)
      <4>1. f \in Texts /\ Len(f) = n - 1
        BY <2>4
      <4> HIDE DEF f
      <4>2. /\ r \o f \in Texts /\ Len(r \o f) = Len(r) + Len(f)
            /\ \A k \in 1..(Len(r) + Len(f)) :
                  (r \o f)[k] = IF k <= Len(r) THEN r[k] ELSE f[k - Len(r)]
        BY <4>1, Joined
      <4> QED BY <4>1, <4>2 DEF f
    <3>2. Len(r) + (n - 1) = Len(a)
      BY <1>1, <1>4, <1>6
    <3>3. ASSUME NEW k \in 1..Len(a) PROVE (r \o Front(first))[k] = a[k]
      <4>1. whole[k] = a[k]
        BY AddressFacts DEF whole
      <4>2. CASE k <= Len(r)
        BY <4>1, <4>2, <3>1, <3>2, <1>1, <1>4
      <4>3. CASE ~(k <= Len(r))
        <5>1. k - Len(r) \in 1..(n - 1) /\ k - Len(r) \in 1..Len(b)
              /\ Len(r) + (k - Len(r)) = k
          BY <4>3, <3>2, <1>1, <1>6
        <5>2. Front(first)[k - Len(r)] = whole[Len(r) + (k - Len(r))]
          BY <5>1, <2>4, <1>4
        <5> QED BY <5>1, <5>2, <4>1, <4>3, <3>1, <3>2
      <4> QED BY <4>2, <4>3
    <3>4. a \in Texts
      BY AddressFacts
    <3> QED BY <3>1, <3>2, <3>3, <3>4, SeqEqual DEF Texts
  <2> QED BY <2>1, <2>3, <2>4, <2>5, <1>3 DEF first, rest, whole, Piece, Rest
<1>7. CASE n < Len(b)
  <2>1. rest # <<>>
    BY <1>1, <1>3, <1>7
  <2>2. Len(r) + n \in 1..Len(a)
    BY <1>1, <1>4, <1>7
  <2>3. b[n] # Newline
    BY <2>2, <1>5, AddressFacts DEF whole
  <2>4. WithoutLineEnd(first) = first
    BY <2>3, <1>5 DEF WithoutLineEnd
  <2>5. first \o rest = b
    <3>1. /\ first \o rest \in Texts /\ Len(first \o rest) = n + (Len(b) - n)
          /\ \A k \in 1..(n + (Len(b) - n)) :
                (first \o rest)[k] = IF k <= n THEN first[k] ELSE rest[k - n]
      <4>1. first \in Texts /\ rest \in Texts /\ Len(first) = n /\ Len(rest) = Len(b) - n
        BY <1>2, <1>3
      <4>2. /\ first \o rest \in Texts /\ Len(first \o rest) = Len(first) + Len(rest)
            /\ \A k \in 1..(Len(first) + Len(rest)) :
                  (first \o rest)[k] = IF k <= Len(first) THEN first[k] ELSE rest[k - Len(first)]
        BY <4>1, Joined
      <4> QED BY <4>1, <4>2
    <3>2. n + (Len(b) - n) = Len(b)
      BY <1>1
    <3>3. ASSUME NEW k \in 1..Len(b) PROVE (first \o rest)[k] = b[k]
      <4>1. CASE k <= n
        BY <4>1, <3>1, <3>2, <1>2
      <4>2. CASE ~(k <= n)
        <5>1. k - n \in 1..(Len(b) - n) /\ n + (k - n) = k
          BY <4>2, <1>1
        <5> QED BY <5>1, <4>2, <3>1, <3>2, <1>3
      <4> QED BY <4>1, <4>2
    <3> QED BY <3>1, <3>2, <3>3, SeqEqual DEF Texts
  <2>6. (r \o first) \o rest = r \o (first \o rest)
    BY <1>2, <1>3, Rejoined
  <2> QED BY <2>1, <2>4, <2>5, <2>6, <1>2, <1>3 DEF first, rest, whole, Piece, Rest
<1>8. n = Len(b) \/ n < Len(b)
  BY <1>1
<1> QED BY <1>6, <1>7, <1>8, Zenon
-----------------------------------------------------------------------------
(* How far the address has come.                                           *)

Pipes == [bytes : Texts, writers : SUBSET {"daemon"}]

TextsInv ==
    /\ line \in Texts /\ reading \in Texts /\ pipe \in Pipes

Unheard == bus_address = NoAddress /\ dbus_address = NoAddress /\ connected

\* The daemon has not printed its address, and may never do.
Unwritten ==
    /\ \E a \in Addresses : line = Append(a, Newline)
    /\ pipe.bytes = <<>> /\ reading = NoAddress /\ Unheard

Written ==
    /\ \E a \in Addresses : pipe.bytes = Append(a, Newline)
    /\ line = <<>> /\ reading = NoAddress /\ Unheard

BeingRead ==
    /\ \E a \in Addresses :
          \/ pipe.bytes # <<>> /\ reading \o pipe.bytes = Append(a, Newline)
          \/ pipe.bytes = <<>> /\ reading = a
    /\ line = <<>> /\ reading # NoAddress /\ Unheard

Heard ==
    /\ dbus_address \in Addresses /\ ~connected
    /\ line = <<>> /\ pipe.bytes = <<>> /\ reading = NoAddress

Progress == Unwritten \/ Written \/ BeingRead \/ Heard

IInv ==
    /\ TextsInv
    /\ caller = "client" => stage \in {"library", "crashed"}
    /\ daemon # "none" <=> stage = "loop"
    /\ daemon = "none" => dbus_address = NoAddress /\ reading = NoAddress
    /\ daemon # "none" => Progress

LEMMA NoAddressFacts ==
    /\ NoAddress \in Texts /\ <<>> \in Texts /\ NoAddress # <<>>
    /\ \A a \in Addresses : a # NoAddress
<1>1. NoAddress \in Texts /\ <<>> \in Texts /\ NoAddress # <<>>
  BY DEF NoAddress, Texts, Symbols
<1>2. ASSUME NEW a \in Addresses, a = NoAddress PROVE FALSE
  <2>1. Len(a) = 1
    BY <1>2 DEF NoAddress
  <2> QED BY <2>1, <1>2, AddressFacts
<1> QED BY <1>1, <1>2

\* What has been read of a line is not taken for no address.
LEMMA PartOfLine ==
    ASSUME NEW a \in Addresses, NEW s \in Texts, NEW t \in Texts, t # <<>>,
           s \o t = Append(a, Newline)
    PROVE  s # NoAddress
<1> SUFFICES ASSUME s = NoAddress PROVE FALSE
  OBVIOUS
<1>1. Len(s) = 1 /\ s[1] = NoAddress[1]
  BY DEF NoAddress
<1>2. Len(t) \in Nat /\ Len(t) > 0
  BY DEF Texts
<1>3. /\ Len(s \o t) = Len(s) + Len(t)
      /\ \A k \in 1..(Len(s) + Len(t)) :
            (s \o t)[k] = IF k <= Len(s) THEN s[k] ELSE t[k - Len(s)]
  BY Joined
<1>4. (s \o t)[1] = s[1]
  BY <1>1, <1>2, <1>3
<1>5. Len(a) + 1 = 1 + Len(t) /\ 1 \in 1..Len(a) /\ a[1] = s[1]
  BY <1>1, <1>2, <1>3, <1>4, AddressFacts
<1> QED BY <1>1, <1>5, AddressFacts

LEMMA InitIInv == Init => IInv
<1> SUFFICES ASSUME Init PROVE IInv
  OBVIOUS
<1>1. TextsInv
  <2>1. line = <<>> /\ reading = NoAddress /\ pipe = [bytes |-> <<>>, writers |-> {}]
    BY DEF Init
  <2> QED BY <2>1, NoAddressFacts DEF TextsInv, Pipes
<1>2. /\ daemon = "none" /\ dbus_address = NoAddress /\ reading = NoAddress
      /\ stage = IF caller = "client" THEN "library" ELSE "code"
  BY DEF Init
<1> QED BY <1>1, <1>2 DEF IInv

\* Before the daemon runs nothing is heard of it.
LEMMA LoadingStep ==
    ASSUME IInv,
           \/ \E f \in Files, ok \in BOOLEAN : FileLoaded(f, ok)
           \/ \E objects \in Sources : Completed(objects)
           \/ ReadFile("code", "xml") \/ ReadFile("xml", "objects")
           \/ \E objects \in Sources : CreateObjects(objects)
           \/ PrepareDirectory
    PROVE  IInv'
<1>1. /\ daemon = "none" /\ stage' # "loop"
      /\ caller = "client" => stage' \in {"library", "crashed"}
      /\ UNCHANGED <<caller, daemon, line, pipe, reading, dbus_address>>
  <2>1. ASSUME NEW f \in Files, NEW ok \in BOOLEAN, FileLoaded(f, ok) PROVE <1>1
    BY <2>1 DEF IInv, FileLoaded, reader
  <2>2. ASSUME NEW objects \in Sources, Completed(objects) PROVE <1>1
    BY <2>2 DEF IInv, Completed, reader
  <2>3. ASSUME NEW f, NEW next \in {"xml", "objects"}, f \in {"code", "xml"}, ReadFile(f, next)
        PROVE  <1>1
    BY <2>3 DEF IInv, ReadFile, Exit, reader
  <2>4. ASSUME NEW objects \in Sources, CreateObjects(objects) PROVE <1>1
    BY <2>4 DEF IInv, CreateObjects, Exit, Crash, reader
  <2>5. ASSUME PrepareDirectory PROVE <1>1
    BY <2>5 DEF IInv, PrepareDirectory, Exit, reader
  <2> QED BY <2>1, <2>2, <2>3, <2>4, <2>5
<1> QED
  BY <1>1 DEF IInv, TextsInv

LEMMA SpawnStep ==
    ASSUME IInv, NEW address \in Addresses, SpawnDaemon(address)
    PROVE  IInv'
<1>1. /\ daemon = "none" /\ caller # "client" /\ dbus_address' = NoAddress /\ connected'
      /\ reading' = NoAddress /\ caller' = caller
  BY DEF IInv, SpawnDaemon
<1>2. CASE Exit("DAEMON_SPAWN_ERROR") /\ UNCHANGED <<daemon, line, pipe, watched, bus_address>>
  BY <1>1, <1>2 DEF IInv, TextsInv, Exit, SpawnDaemon
<1>3. CASE /\ stage' = "loop" /\ daemon' = "alive" /\ line' = Append(address, Newline)
           /\ pipe' = [bytes |-> <<>>, writers |-> Writers] /\ bus_address' = NoAddress
  <2>1. TextsInv'
    BY <1>1, <1>3, AddressFacts, NoAddressFacts DEF TextsInv, Pipes, Writers
  <2>2. Unwritten'
    BY <1>1, <1>3 DEF Unwritten, Unheard
  <2> QED BY <1>1, <1>3, <2>1, <2>2 DEF IInv, Progress
<1> QED BY <1>2, <1>3 DEF SpawnDaemon

\* What is left alone by all that the daemon does.
LEMMA DaemonStep ==
    ASSUME IInv, DaemonWrites \/ DaemonCloses \/ DaemonDies
    PROVE  IInv'
<1>1. /\ daemon = "alive" /\ daemon' # "none"
      /\ UNCHANGED <<caller, stage, reading, bus_address, dbus_address, connected>>
  BY DEF DaemonWrites, DaemonCloses, DaemonDies, reader
<1>2. pipe \in Pipes /\ line \in Texts /\ reading \in Texts /\ Progress
  BY <1>1 DEF IInv, TextsInv
<1>3. CASE DaemonWrites
  <2>1. Unwritten
    BY <1>2, <1>3 DEF DaemonWrites, Progress, Written, BeingRead, Heard
  <2>2. PICK a \in Addresses : line = Append(a, Newline)
    BY <2>1 DEF Unwritten
  <2>3. <<>> \o line = line
    BY <1>2, ConcatEmptySeq DEF Texts
  <2>4. pipe' = [bytes |-> Append(a, Newline), writers |-> pipe.writers] /\ line' = <<>>
    BY <1>2, <1>3, <2>1, <2>2, <2>3 DEF DaemonWrites, Unwritten, Pipes
  <2>5. Written'
    BY <1>1, <2>1, <2>4 DEF Written, Unwritten, Unheard
  <2>6. TextsInv'
    BY <1>1, <1>2, <2>4, AddressFacts, NoAddressFacts DEF TextsInv, Pipes
  <2> QED BY <1>1, <2>5, <2>6 DEF IInv, Progress
<1>4. CASE DaemonCloses \/ DaemonDies
  <2>1. line' = line /\ pipe' = [pipe EXCEPT !.writers = @ \ {"daemon"}]
    BY <1>4 DEF DaemonCloses, DaemonDies
  <2>2. pipe' \in Pipes /\ pipe'.bytes = pipe.bytes
    BY <1>2, <2>1 DEF Pipes
  <2>3. Progress'
    BY <1>1, <1>2, <2>1, <2>2
      DEF Progress, Unwritten, Written, BeingRead, Heard, Unheard
  <2> QED BY <1>1, <1>2, <2>1, <2>2, <2>3 DEF IInv, TextsInv
<1> QED BY <1>3, <1>4

LEMMA StartReadingStep ==
    ASSUME IInv, StartReading
    PROVE  IInv'
<1>1. /\ reading = NoAddress /\ stage = "loop" /\ pipe.bytes # <<>> /\ reading' = <<>>
      /\ UNCHANGED <<caller, stage, daemon, line, pipe, bus_address, connected, dbus_address>>
  BY DEF StartReading, Dispatching
<1>2. TextsInv /\ Progress /\ daemon # "none"
  BY <1>1 DEF IInv
<1>3. Written
  BY <1>1, <1>2 DEF Progress, Unwritten, BeingRead, Heard
<1>4. PICK a \in Addresses : pipe.bytes = Append(a, Newline)
  BY <1>3 DEF Written
<1>5. <<>> \o pipe.bytes = pipe.bytes
  BY <1>2, ConcatEmptySeq DEF TextsInv, Pipes, Texts
<1>6. BeingRead'
  BY <1>1, <1>3, <1>4, <1>5, NoAddressFacts DEF BeingRead, Written, Unheard
<1>7. TextsInv'
  BY <1>1, <1>2, NoAddressFacts DEF TextsInv
<1> QED BY <1>1, <1>2, <1>6, <1>7 DEF IInv, Progress

LEMMA ReadPieceStep ==
    ASSUME IInv, ReadPiece
    PROVE  IInv'
<1> DEFINE n == IF Len(pipe.bytes) < PieceSize THEN Len(pipe.bytes) ELSE PieceSize
           piece == Piece(pipe.bytes, n)
           rest == Rest(pipe.bytes, n)
<1>1. /\ reading # NoAddress /\ n > 0
      /\ reading' = reading \o piece
      /\ pipe' = [pipe EXCEPT !.bytes = rest]
      /\ UNCHANGED <<caller, stage, daemon, line, bus_address, connected, dbus_address>>
  BY DEF ReadPiece, Piece, Rest
<1>2. TextsInv /\ Progress /\ daemon # "none"
  BY <1>1 DEF IInv
<1>3. BeingRead
  BY <1>1, <1>2 DEF Progress, Unwritten, Written, Heard
<1>4. pipe.bytes \in Texts /\ reading \in Texts /\ Len(pipe.bytes) \in Nat
  BY <1>2 DEF TextsInv, Pipes, Texts
<1>5. n \in Nat /\ n <= Len(pipe.bytes)
  BY <1>4, PieceSizeAssumption
<1> HIDE DEF n
<1>6. pipe.bytes # <<>>
  BY <1>1, <1>5
<1>7. PICK a \in Addresses : reading \o pipe.bytes = Append(a, Newline)
  BY <1>3, <1>6 DEF BeingRead
<1>8. /\ piece \in Texts /\ rest \in Texts
      /\ \/ rest # <<>> /\ (reading \o piece) \o rest = Append(a, Newline)
         \/ rest = <<>> /\ reading \o piece = a
  <2>1. 0 < n
    BY <1>1, <1>5
  <2>2. reading \in Texts /\ pipe.bytes \in Texts /\ n \in Nat /\ n <= Len(pipe.bytes)
    BY <1>4, <1>5
  <2> QED BY <2>1, <2>2, <1>6, <1>7, PieceByPiece, Zenon
<1> HIDE DEF piece, rest
<1>9. pipe' \in Pipes /\ pipe'.bytes = rest
  BY <1>1, <1>2, <1>8 DEF TextsInv, Pipes
<1>10. reading' \in Texts
  BY <1>1, <1>4, <1>8, Joined
<1>11. reading' # NoAddress
  <2>1. CASE rest = <<>>
    BY <2>1, <1>1, <1>8, NoAddressFacts
  <2>2. CASE rest # <<>>
    <3>1. reading' \o rest = Append(a, Newline)
      BY <2>2, <1>1, <1>8
    <3> QED BY <2>2, <3>1, <1>8, <1>10, PartOfLine
  <2> QED BY <2>1, <2>2
<1>12. BeingRead'
  BY <1>1, <1>3, <1>8, <1>9, <1>11 DEF BeingRead, Unheard
<1>13. TextsInv'
  BY <1>1, <1>2, <1>9, <1>10 DEF TextsInv
<1> QED BY <1>1, <1>2, <1>12, <1>13 DEF IInv, Progress

LEMMA ReadEndStep ==
    ASSUME IInv, ReadEnd
    PROVE  IInv'
<1>1. /\ reading # NoAddress /\ pipe.bytes = <<>> /\ reading' = NoAddress
      /\ UNCHANGED <<caller, daemon, line, pipe>>
  BY DEF ReadEnd
<1>2. TextsInv /\ Progress /\ daemon # "none" /\ stage = "loop"
  BY <1>1 DEF IInv
<1>3. BeingRead
  BY <1>1, <1>2 DEF Progress, Unwritten, Written, Heard
<1>4. Unheard /\ reading \in Addresses /\ line = <<>>
  BY <1>1, <1>3 DEF BeingRead
<1>5. dbus_address' = reading /\ ~connected' /\ stage' = stage
  BY <1>4 DEF ReadEnd, Notify, Unheard
<1>6. Heard'
  BY <1>1, <1>4, <1>5 DEF Heard
<1>7. TextsInv'
  BY <1>1, <1>2, NoAddressFacts DEF TextsInv
<1> QED BY <1>1, <1>2, <1>5, <1>6, <1>7 DEF IInv, Progress

\* The daemon's death clears an address only after main () has heard of it.
LEMMA EndStep ==
    ASSUME IInv, HangUp \/ DaemonDied
    PROVE  IInv'
<1>1. /\ stage = "loop" /\ UNCHANGED <<caller, line, pipe, reading>>
  BY DEF HangUp, DaemonDied, Dispatching
<1>2. TextsInv /\ Progress /\ daemon # "none"
  BY <1>1 DEF IInv
<1>3. TextsInv'
  BY <1>1, <1>2 DEF TextsInv
<1>4. CASE HangUp
  <2>1. UNCHANGED <<stage, daemon, bus_address, connected, dbus_address>>
    BY <1>4 DEF HangUp
  <2>2. Progress'
    BY <1>1, <1>2, <2>1 DEF Progress, Unwritten, Written, BeingRead, Heard, Unheard
  <2> QED BY <1>1, <1>2, <1>3, <2>1, <2>2 DEF IInv
<1>5. CASE DaemonDied
  <2>1. /\ daemon' = "reaped"
        /\ IF bus_address = NoAddress
             THEN UNCHANGED <<bus_address, connected, dbus_address, stage>>
             ELSE bus_address' = NoAddress /\ Notify(NoAddress)
    BY <1>5 DEF DaemonDied
  <2>2. CASE bus_address = NoAddress
    <3>1. Progress'
      BY <1>1, <1>2, <2>1, <2>2 DEF Progress, Unwritten, Written, BeingRead, Heard, Unheard
    <3> QED BY <1>1, <1>2, <1>3, <2>1, <2>2, <3>1 DEF IInv
  <2>3. CASE bus_address # NoAddress
    <3>1. Heard
      BY <1>2, <2>3 DEF Progress, Unwritten, Written, BeingRead, Unheard
    <3>2. UNCHANGED <<connected, dbus_address, stage>>
      BY <2>1, <2>3, <3>1 DEF Notify, Heard
    <3>3. Heard'
      BY <1>1, <3>1, <3>2 DEF Heard
    <3> QED BY <1>1, <1>2, <1>3, <2>1, <3>2, <3>3 DEF IInv, Progress
  <2> QED BY <2>2, <2>3
<1> QED BY <1>4, <1>5

LEMMA StepIInv == IInv /\ [Next]_vars => IInv'
<1> SUFFICES ASSUME IInv, [Next]_vars PROVE IInv'
  OBVIOUS
<1>1. CASE UNCHANGED vars
  BY <1>1 DEF vars, loading, reader, IInv, TextsInv, Progress, Unwritten, Written, BeingRead,
              Heard, Unheard
<1>2. CASE Next
  BY <1>2, LoadingStep, SpawnStep, DaemonStep, StartReadingStep, ReadPieceStep, ReadEndStep,
     EndStep DEF Next
<1> QED BY <1>1, <1>2

LEMMA Invariant == Spec => []IInv
  BY InitIInv, StepIInv, PTL DEF Spec

\* For every size of the pieces read, main () connects to an address the daemon
\* printed, whole and without its line end.
THEOREM AddressIsWholeHolds == Spec => []AddressIsWhole
<1>1. IInv => AddressIsWhole
  BY DEF IInv, Progress, Unwritten, Written, BeingRead, Heard, Unheard, AddressIsWhole
<1> QED BY <1>1, Invariant, PTL

\* No order of reads, hang-ups and deaths notifies main () of a second address or
\* makes the wrapper read one twice.
THEOREM AddressAssertionsHoldAlways == Spec => []AddressAssertionsHold
<1>1. IInv => AddressAssertionsHold
  BY DEF IInv, AddressAssertionsHold
<1> QED BY <1>1, Invariant, PTL
-----------------------------------------------------------------------------
(* How often a client is called back, and with what.                       *)

LEMMA LeastNatural ==
    ASSUME NEW S \in SUBSET Nat, S # {}
    PROVE  Min(S) \in S
<1>1. PICK m \in S : \A k \in S : <<k, m>> \notin OpToRel(<, Nat)
  BY WFMin, NatLessThanWellFounded
<1>2. \A k \in S : ~(k < m)
  BY <1>1 DEF OpToRel
<1>3. \A k \in S : m <= k
  BY <1>2, SMT
<1> QED BY <1>3, Zenon DEF Min

\* Loaded files make objects or are refused, or end the process: there is an answer.
LEMMA FactoryAnswers ==
    ASSUME NEW objects \in Sources
    PROVE  factory_from_data(objects) \in {"objects", "refused", "aborted"}
<1> DEFINE initial == [k \in DOMAIN objects |-> objects[k].initial_check]
           later == [k \in DOMAIN objects |-> objects[k].check]
           V == {"ok", "refused", "aborted"}
           verdicts == initial \o later
           faults == {k \in DOMAIN verdicts : verdicts[k] # "ok"}
<1>1. objects \in Seq(Objects)
  BY SourcesAssumption
<1>2. initial \in Seq(V) /\ later \in Seq(V)
  <2>1. /\ DOMAIN objects = 1..Len(objects) /\ Len(objects) \in Nat
        /\ \A k \in 1..Len(objects) : objects[k] \in Objects
    BY <1>1
  <2>2. initial \in [1..Len(objects) -> V] /\ later \in [1..Len(objects) -> V]
    BY <2>1 DEF Objects
  <2> HIDE DEF initial, later
  <2> QED BY <2>1, <2>2
<1> HIDE DEF initial, later
<1>3. verdicts \in Seq(V)
  BY <1>2, ConcatProperties
<1> HIDE DEF verdicts
<1>4. faults \in SUBSET Nat
  BY <1>3
<1>5. ASSUME faults # {} PROVE verdicts[Min(faults)] \in {"refused", "aborted"}
  <2>1. Min(faults) \in faults
    BY <1>4, <1>5, LeastNatural
  <2> QED BY <2>1, <1>3
<1> QED BY <1>5 DEF factory_from_data, initial, later, verdicts

\* Sums of two.
LEMMA Pairs ==
    ASSUME NEW m \in Nat, NEW n \in Nat, m + n = 2
    PROVE  /\ m # 0 /\ n > 0 => m = 1
           /\ 2 \in 1..m => m = 2
  OBVIOUS

Failed == {f \in Files : files[f] = "failed"}

\* A failure calls back at once; otherwise the last of the files does.
Due == IF Failed = Files THEN 2 ELSE IF Failed # {} \/ BothLoaded(files) THEN 1 ELSE 0

CompletionInv ==
    caller = "client" =>
      /\ files \in [Files -> {"loading", "loaded", "failed"}]
      /\ answers \in Seq({"objects", "refused", "aborted", "nothing"})
      /\ idles \in Nat /\ Len(answers) + idles = Due
      /\ Failed # {} /\ answers = <<>> => error
      /\ \A k \in DOMAIN answers :
            /\ answers[k] = "nothing" => Failed = Files /\ k = 2
            /\ answers[k] = "objects" => BothLoaded(files)

LEMMA CompletionInit == Init => CompletionInv
<1> SUFFICES ASSUME Init, caller = "client" PROVE CompletionInv
  BY DEF CompletionInv
<1>1. files = [f \in Files |-> "loading"] /\ idles = 0 /\ answers = <<>>
  BY DEF Init
<1>2. Failed = {} /\ ~BothLoaded(files) /\ Files # {}
  BY <1>1 DEF Failed, BothLoaded, Files
<1> QED BY <1>1, <1>2 DEF CompletionInv, Due

\* A load moves what is due by as much as it moves the idle sources.
LEMMA CompletionFileLoaded ==
    ASSUME CompletionInv, NEW f \in Files, NEW ok \in BOOLEAN, FileLoaded(f, ok)
    PROVE  CompletionInv'
<1>1. /\ caller = "client" /\ caller' = caller /\ files[f] = "loading" /\ answers' = answers
      /\ files' = [files EXCEPT ![f] = IF ok THEN "loaded" ELSE "failed"]
      /\ error' = (error \/ ~ok)
      /\ idles' = IF ~ok \/ BothLoaded(files') THEN idles + 1 ELSE idles
  BY DEF FileLoaded
<1>2. /\ files \in [Files -> {"loading", "loaded", "failed"}] /\ idles \in Nat
      /\ answers \in Seq({"objects", "refused", "aborted", "nothing"})
      /\ Len(answers) + idles = Due /\ Len(answers) \in Nat
      /\ Failed # {} /\ answers = <<>> => error
      /\ \A k \in DOMAIN answers :
            /\ answers[k] = "nothing" => Failed = Files /\ k = 2
            /\ answers[k] = "objects" => BothLoaded(files)
  BY <1>1 DEF CompletionInv
<1>3. PICK g \in Files : g # f /\ Files = {f, g}
  BY DEF Files
<1>4. f \notin Failed /\ ~BothLoaded(files) /\ Failed # Files
  BY <1>1 DEF Failed, BothLoaded
<1>5. files'[g] = files[g] /\ files'[f] = (IF ok THEN "loaded" ELSE "failed")
  BY <1>1, <1>2, <1>3
<1>6. Failed' = IF ok THEN Failed ELSE Failed \cup {f}
  BY <1>3, <1>5, <1>4 DEF Failed
<1>7. Due = IF files[g] = "failed" THEN 1 ELSE 0
  BY <1>3, <1>4 DEF Due, Failed
<1>10. files' \in [Files -> {"loading", "loaded", "failed"}] /\ idles' \in Nat
  BY <1>1, <1>2
<1>11. \A k \in DOMAIN answers' : answers'[k] # "nothing" /\ answers'[k] # "objects"
  BY <1>1, <1>2, <1>4
<1>8. CASE ok
  <2>1. Due' = Due + (IF BothLoaded(files') THEN 1 ELSE 0)
    <3>1. BothLoaded(files') <=> files[g] = "loaded"
      BY <1>3, <1>5, <1>8 DEF BothLoaded
    <3>2. Failed' = Failed /\ (Failed # {} <=> files[g] = "failed")
      BY <1>3, <1>4, <1>6, <1>8 DEF Failed
    <3>3. Due' = IF Failed' = Files THEN 2
                 ELSE IF Failed' # {} \/ BothLoaded(files') THEN 1 ELSE 0
      BY DEF Due
    <3> QED BY <1>4, <1>7, <3>1, <3>2, <3>3
  <2>2. Len(answers') + idles' = Due'
    BY <1>1, <1>2, <1>8, <2>1, <1>7
  <2> QED BY <1>10, <1>11, <1>1, <1>2, <1>6, <1>8, <2>2 DEF CompletionInv
<1>9. CASE ~ok
  <2>1. Due' = Due + 1
    <3>1. Failed' = Files <=> files[g] = "failed"
      BY <1>3, <1>4, <1>6, <1>9 DEF Failed
    <3>2. Failed' # {}
      BY <1>6, <1>9
    <3>3. Due' = IF Failed' = Files THEN 2
                 ELSE IF Failed' # {} \/ BothLoaded(files') THEN 1 ELSE 0
      BY DEF Due
    <3> QED BY <1>7, <3>1, <3>2, <3>3
  <2>2. Len(answers') + idles' = Due' /\ idles' \in Nat
    BY <1>1, <1>2, <1>9, <2>1, <1>7
  <2> QED BY <1>10, <1>11, <1>1, <1>2, <1>9, <2>2 DEF CompletionInv
<1> QED BY <1>8, <1>9

LEMMA CompletionCompleted ==
    ASSUME CompletionInv, NEW objects \in Sources, Completed(objects)
    PROVE  CompletionInv'
<1> DEFINE answer == IF error THEN "refused"
                     ELSE IF \E f \in Files : files[f] = "failed" THEN "nothing"
                     ELSE factory_from_data(objects)
           A == {"objects", "refused", "aborted", "nothing"}
<1>1. /\ caller = "client" /\ caller' = caller /\ idles > 0 /\ idles' = idles - 1
      /\ files' = files /\ answers' = Append(answers, answer)
  BY DEF Completed
<1>2. /\ files \in [Files -> {"loading", "loaded", "failed"}] /\ idles \in Nat
      /\ answers \in Seq(A) /\ Len(answers) + idles = Due /\ Len(answers) \in Nat
      /\ Failed # {} /\ answers = <<>> => error
      /\ \A k \in DOMAIN answers :
            /\ answers[k] = "nothing" => Failed = Files /\ k = 2
            /\ answers[k] = "objects" => BothLoaded(files)
  BY <1>1 DEF CompletionInv
<1>3. answer \in A
  BY FactoryAnswers
<1>4. answer = "nothing" => Failed = Files /\ Len(answers) = 1
  <2> SUFFICES ASSUME answer = "nothing" PROVE Failed = Files /\ Len(answers) = 1
    OBVIOUS
  <2>1. ~error /\ Failed # {}
    BY FactoryAnswers DEF Failed
  <2>2. Len(answers) # 0
    BY <2>1, <1>2
  <2>3. Due >= 2
    BY <2>2, <1>1, <1>2
  <2>4. Due = 2 /\ Failed = Files
    BY <2>3 DEF Due
  <2>5. Len(answers) \in Nat /\ idles \in Nat /\ idles > 0 /\ Len(answers) + idles = 2
    BY <2>4, <1>1, <1>2
  <2>6. Len(answers) = 1
    BY <2>2, <2>5, Pairs, Zenon
  <2> QED BY <2>4, <2>6
<1>5. answer = "objects" => BothLoaded(files)
  <2> SUFFICES ASSUME answer = "objects" PROVE BothLoaded(files)
    OBVIOUS
  <2>1. Failed = {}
    BY DEF Failed
  <2>2. Due > 0 /\ Failed # Files
    BY <2>1, <1>1, <1>2 DEF Files
  <2> QED BY <2>1, <2>2 DEF Due
<1> HIDE DEF answer, A
<1>6. /\ answers' \in Seq(A) /\ answers' # <<>> /\ Len(answers') = Len(answers) + 1
      /\ \A k \in 1..Len(answers) : answers'[k] = answers[k]
      /\ answers'[Len(answers) + 1] = answer
  BY <1>1, <1>2, <1>3, AppendProperties
<1>7. Failed' = Failed /\ Due' = Due /\ (BothLoaded(files') <=> BothLoaded(files))
  BY <1>1 DEF Failed, Due, BothLoaded
<1>8. ASSUME NEW k \in DOMAIN answers'
      PROVE  /\ answers'[k] = "nothing" => Failed = Files /\ k = 2
             /\ answers'[k] = "objects" => BothLoaded(files)
  <2>1. DOMAIN answers' = 1..(Len(answers) + 1) /\ DOMAIN answers = 1..Len(answers)
    BY <1>2, <1>6
  <2>2. CASE k \in 1..Len(answers)
    BY <2>1, <2>2, <1>2, <1>6
  <2>3. CASE k = Len(answers) + 1
    BY <2>3, <1>2, <1>4, <1>5, <1>6
  <2> QED BY <2>1, <2>2, <2>3, <1>2
<1>9. idles' \in Nat /\ Len(answers') + idles' = Due'
  BY <1>1, <1>2, <1>6, <1>7
<1>10. answers' \in Seq({"objects", "refused", "aborted", "nothing"})
  BY <1>6 DEF A
<1> QED BY <1>1, <1>2, <1>6, <1>7, <1>8, <1>9, <1>10 DEF CompletionInv

LEMMA CompletionStep == IInv /\ CompletionInv /\ [Next]_vars => CompletionInv'
<1> SUFFICES ASSUME IInv, CompletionInv, [Next]_vars PROVE CompletionInv'
  OBVIOUS
<1>1. ASSUME NEW f \in Files, NEW ok \in BOOLEAN, FileLoaded(f, ok) PROVE CompletionInv'
  BY <1>1, CompletionFileLoaded
<1>2. ASSUME NEW objects \in Sources, Completed(objects) PROVE CompletionInv'
  BY <1>2, CompletionCompleted
<1>3. ASSUME UNCHANGED caller, caller # "client" PROVE CompletionInv'
  BY <1>3 DEF CompletionInv
<1>4. ASSUME UNCHANGED <<caller, loading>> PROVE CompletionInv'
  BY <1>4 DEF CompletionInv, loading, Failed, Due, BothLoaded
<1>5. ASSUME NEW f \in {"code", "xml"}, NEW next, ReadFile(f, next) PROVE CompletionInv'
  BY <1>3, <1>5 DEF ReadFile, IInv
<1>6. CASE \E address \in Addresses : SpawnDaemon(address)
  BY <1>4, <1>6 DEF SpawnDaemon
<1>7. CASE PrepareDirectory \/ \E objects \in Sources : CreateObjects(objects)
  BY <1>4, <1>7 DEF PrepareDirectory, CreateObjects
<1>8. CASE DaemonWrites \/ DaemonCloses \/ DaemonDies
  BY <1>4, <1>8 DEF DaemonWrites, DaemonCloses, DaemonDies
<1>9. CASE StartReading \/ ReadPiece \/ ReadEnd \/ HangUp \/ DaemonDied
  BY <1>4, <1>9 DEF StartReading, ReadPiece, ReadEnd, HangUp, DaemonDied
<1>10. CASE UNCHANGED vars
  BY <1>4, <1>10 DEF vars
<1> QED BY <1>1, <1>2, <1>5, <1>6, <1>7, <1>8, <1>9, <1>10 DEF Next

\* Whatever the order of the loads and the idle sources, a client is called back
\* once, unless both files fail, with objects only if both were loaded, and with
\* neither objects nor an error only the second time.
THEOREM CompletesTwiceOnlyIfBothFailHolds == Spec => []CompletesTwiceOnlyIfBothFail
<1>1. CompletionInv => CompletesTwiceOnlyIfBothFail
  <2> SUFFICES ASSUME CompletionInv, caller = "client" PROVE CompletesTwiceOnlyIfBothFail
    BY DEF CompletesTwiceOnlyIfBothFail
  <2>1. /\ files \in [Files -> {"loading", "loaded", "failed"}] /\ idles \in Nat
        /\ answers \in Seq({"objects", "refused", "aborted", "nothing"})
        /\ Len(answers) + idles = Due /\ Len(answers) \in Nat
        /\ \A k \in DOMAIN answers :
              /\ answers[k] = "nothing" => Failed = Files /\ k = 2
              /\ answers[k] = "objects" => BothLoaded(files)
    BY DEF CompletionInv
  <2>2. Len(answers) + idles <= 1 \/ Failed = Files
    BY <2>1 DEF Due
  <2>3. ASSUME "nothing" \in ToSet(answers) PROVE Failed = Files /\ Len(answers) = 2
    <3>1. PICK k \in DOMAIN answers : answers[k] = "nothing"
      BY <2>3, <2>1 DEF ToSet
    <3>2. Failed = Files /\ k = 2 /\ Due = 2
      BY <3>1, <2>1 DEF Due
    <3>3. 2 \in 1..Len(answers)
      BY <3>1, <3>2, <2>1
    <3>4. Len(answers) \in Nat /\ idles \in Nat /\ Len(answers) + idles = 2
      BY <3>2, <2>1
    <3>5. Len(answers) = 2
      BY <3>3, <3>4, Pairs, Zenon
    <3> QED BY <3>2, <3>5
  <2>4. ASSUME "objects" \in ToSet(answers) PROVE BothLoaded(files)
    BY <2>4, <2>1 DEF ToSet
  <2>5. ASSUME \A f \in Files : files[f] # "loading" PROVE Len(answers) + idles >= 1
    <3>1. Failed # {} \/ BothLoaded(files)
      BY <2>5, <2>1 DEF Failed, BothLoaded
    <3>2. Due >= 1
      BY <3>1 DEF Due
    <3> QED BY <3>2, <2>1
  <2> QED BY <2>2, <2>3, <2>4, <2>5 DEF CompletesTwiceOnlyIfBothFail, Failed, BothLoaded
<1>2. Spec => []CompletionInv
  <2>1. Init => CompletionInv
    BY CompletionInit
  <2>2. IInv /\ CompletionInv /\ [Next]_vars => CompletionInv'
    BY CompletionStep
  <2> QED BY <2>1, <2>2, Invariant, PTL DEF Spec
<1> QED BY <1>1, <1>2, PTL
==============================================================================
