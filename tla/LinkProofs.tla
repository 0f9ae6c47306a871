----------------------------- MODULE LinkProofs ------------------------------
(***************************************************************************)
(* The bytes of one direction of the link implement the link of frames,    *)
(* for every size of frames, pipes, UART and framing buffer.               *)
(*                                                                         *)
(* The pipes and the UART together are one stream of bytes: moving a byte  *)
(* leaves it as it is, reading and losing drop one of its bytes, framing   *)
(* appends to it.  IndInv says which bytes the stream and the framing      *)
(* buffer hold: in the order of writing, and every byte of a frame that    *)
(* has not ended is on its way, read or lost.  So a delimiter that is read *)
(* has only open frames before it, and the framing buffer then is the      *)
(* frame if nothing of it was lost.                                        *)
(***************************************************************************)
EXTENDS Link, SequenceTheorems, TLAPS

-----------------------------------------------------------------------------
(* Sequences of bytes.                                                     *)

\* A byte moved from the front of t to the end of s: nothing changes in the
\* sequence that they are together.
LEMMA MoveByte ==
    ASSUME NEW B, NEW s \in Seq(B), NEW t \in Seq(B), t # <<>>
    PROVE  Append(s, Head(t)) \o Tail(t) = s \o t
<1> DEFINE x == Append(s, Head(t)) \o Tail(t)
           y == s \o t
<1>1. /\ Head(t) \in B /\ Head(t) = t[1] /\ Tail(t) \in Seq(B) /\ Len(Tail(t)) = Len(t) - 1
      /\ \A i \in 1 .. Len(t) - 1 : Tail(t)[i] = t[i + 1]
  BY HeadTailProperties
<1>2. /\ Append(s, Head(t)) \in Seq(B) /\ Len(Append(s, Head(t))) = Len(s) + 1
      /\ \A i \in 1 .. Len(s) : Append(s, Head(t))[i] = s[i]
      /\ Append(s, Head(t))[Len(s) + 1] = Head(t)
  BY <1>1, AppendProperties
<1>3. Len(s) \in Nat /\ Len(t) \in Nat \ {0}
  BY EmptySeq, LenProperties
<1>4. /\ x \in Seq(B) /\ Len(x) = Len(s) + 1 + (Len(t) - 1)
      /\ \A i \in 1 .. Len(s) + 1 + (Len(t) - 1) :
            x[i] = IF i <= Len(s) + 1 THEN Append(s, Head(t))[i] ELSE Tail(t)[i - (Len(s) + 1)]
  BY <1>1, <1>2, ConcatProperties
<1>5. /\ y \in Seq(B) /\ Len(y) = Len(s) + Len(t)
      /\ \A i \in 1 .. Len(s) + Len(t) : y[i] = IF i <= Len(s) THEN s[i] ELSE t[i - Len(s)]
  BY ConcatProperties
<1> HIDE DEF x, y
<1>6. ASSUME NEW i \in 1 .. Len(s) + Len(t)
      PROVE  x[i] = y[i]
  <2>1. x[i] = IF i <= Len(s) + 1 THEN Append(s, Head(t))[i] ELSE Tail(t)[i - (Len(s) + 1)]
    <3>1. i \in 1 .. Len(s) + 1 + (Len(t) - 1)
      BY <1>3
    <3> QED BY <1>4, <3>1
  <2>2. CASE i <= Len(s)
    BY <1>2, <1>3, <1>5, <2>1, <2>2
  <2>3. CASE i = Len(s) + 1
    <3>1. x[i] = t[1]
      BY <1>1, <1>2, <1>3, <2>1, <2>3
    <3>2. y[i] = t[1]
      BY <1>3, <1>5, <2>3
    <3> QED BY <3>1, <3>2
  <2>4. CASE i > Len(s) + 1
    <3> DEFINE j == i - (Len(s) + 1)
    <3>1. j \in 1 .. Len(t) - 1 /\ j + 1 = i - Len(s)
      BY <1>3, <2>4
    <3>2. x[i] = Tail(t)[j] /\ y[i] = t[j + 1]
      BY <1>3, <1>5, <2>1, <2>4, <3>1
    <3> QED BY <1>1, <3>1, <3>2
  <2> QED BY <1>3, <2>2, <2>3, <2>4
<1>7. Len(x) = Len(y)
  BY <1>3, <1>4, <1>5
<1>8. x = y
  BY <1>4, <1>5, <1>6, <1>7, SeqEqual
<1> QED BY <1>8 DEF x, y

\* y is x without its d-th element.
Dropped(x, y, d) ==
    /\ d \in 1 .. Len(x) /\ Len(y) = Len(x) - 1
    /\ \A i \in 1 .. Len(y) : y[i] = x[IF i < d THEN i ELSE i + 1]

\* A byte taken from the front of t, behind s.
LEMMA DropByte ==
    \A s, t, u \in Seq(Bytes) : t # <<>> =>
        /\ ((s \o t) \o u)[Len(s) + 1] = Head(t)
        /\ Dropped((s \o t) \o u, (s \o Tail(t)) \o u, Len(s) + 1)
<1> SUFFICES ASSUME NEW s \in Seq(Bytes), NEW t \in Seq(Bytes), NEW u \in Seq(Bytes), t # <<>>
             PROVE  /\ ((s \o t) \o u)[Len(s) + 1] = Head(t)
                    /\ Dropped((s \o t) \o u, (s \o Tail(t)) \o u, Len(s) + 1)
  OBVIOUS
<1> DEFINE x == (s \o t) \o u
           y == (s \o Tail(t)) \o u
           d == Len(s) + 1
<1>1. /\ Head(t) = t[1] /\ Tail(t) \in Seq(Bytes) /\ Len(Tail(t)) = Len(t) - 1
      /\ \A i \in 1 .. Len(t) - 1 : Tail(t)[i] = t[i + 1]
  BY HeadTailProperties
<1>2. Len(s) \in Nat /\ Len(t) \in Nat \ {0} /\ Len(u) \in Nat
  BY EmptySeq, LenProperties
<1>3. /\ s \o t \in Seq(Bytes) /\ Len(s \o t) = Len(s) + Len(t)
      /\ \A i \in 1 .. Len(s) + Len(t) : (s \o t)[i] = IF i <= Len(s) THEN s[i] ELSE t[i - Len(s)]
  BY ConcatProperties
<1>4. /\ x \in Seq(Bytes) /\ Len(x) = Len(s) + Len(t) + Len(u)
      /\ \A i \in 1 .. Len(s) + Len(t) + Len(u) :
            x[i] = IF i <= Len(s) + Len(t) THEN (s \o t)[i] ELSE u[i - (Len(s) + Len(t))]
  BY <1>3, ConcatProperties
<1> DEFINE v == s \o Tail(t)
           n == Len(t) - 1
<1>5. /\ v \in Seq(Bytes) /\ Len(v) = Len(s) + n
      /\ \A i \in 1 .. Len(s) + n : v[i] = IF i <= Len(s) THEN s[i] ELSE Tail(t)[i - Len(s)]
  BY <1>1, ConcatProperties
<1>6. /\ y \in Seq(Bytes) /\ Len(y) = Len(s) + n + Len(u)
      /\ \A i \in 1 .. Len(s) + n + Len(u) :
            y[i] = IF i <= Len(s) + n THEN v[i] ELSE u[i - (Len(s) + n)]
  BY <1>5, ConcatProperties
<1>7. n \in Nat /\ Len(t) = n + 1
  BY <1>2
<1> HIDE DEF x, y, v, n
<1>8. d \in 1 .. Len(x) /\ x[d] = Head(t)
  <2>1. d \in 1 .. Len(s) + Len(t) + Len(u) /\ d <= Len(s) + Len(t) /\ d - Len(s) = 1
    BY <1>2
  <2>2. x[d] = (s \o t)[d] /\ (s \o t)[d] = t[1]
    BY <1>2, <1>3, <1>4, <2>1
  <2> QED BY <1>1, <1>4, <2>1, <2>2
<1>9. ASSUME NEW i \in 1 .. Len(y)
      PROVE  y[i] = x[IF i < d THEN i ELSE i + 1]
  <2>1. i \in 1 .. Len(s) + n + Len(u)
    BY <1>6
  <2>2. CASE i < d
    <3>1. i <= Len(s) + n /\ i <= Len(s) + Len(t) /\ i <= Len(s)
      BY <1>2, <1>7, <2>1, <2>2
    <3>2. y[i] = s[i]
      BY <1>2, <1>5, <1>6, <1>7, <2>1, <3>1
    <3>3. x[i] = s[i]
      BY <1>2, <1>3, <1>4, <1>7, <2>1, <3>1
    <3> QED BY <2>2, <3>2, <3>3
  <2>3. CASE i >= d /\ i <= Len(s) + n
    <3> DEFINE j == i - Len(s)
    <3>1. j \in 1 .. n /\ j + 1 = (i + 1) - Len(s) /\ i \in 1 .. Len(s) + n
          /\ i + 1 \in 1 .. Len(s) + Len(t)
      BY <1>2, <1>7, <2>1, <2>3
    <3>2. y[i] = Tail(t)[j]
      BY <1>2, <1>5, <1>6, <2>1, <2>3, <3>1
    <3>3. x[i + 1] = t[j + 1]
      BY <1>2, <1>3, <1>4, <2>3, <3>1
    <3>4. Tail(t)[j] = t[j + 1]
      BY <1>1, <3>1 DEF n
    <3>5. ~(i < d)
      BY <1>2, <2>1, <2>3
    <3> QED BY <3>2, <3>3, <3>4, <3>5
  <2>4. CASE i > Len(s) + n
    <3>1. /\ i + 1 \in 1 .. Len(s) + Len(t) + Len(u) /\ ~(i + 1 <= Len(s) + Len(t))
          /\ (i + 1) - (Len(s) + Len(t)) = i - (Len(s) + n) /\ ~(i < d)
      BY <1>2, <1>7, <2>1, <2>4
    <3>2. y[i] = u[i - (Len(s) + n)]
      BY <1>2, <1>6, <1>7, <2>1, <2>4
    <3>3. x[i + 1] = u[(i + 1) - (Len(s) + Len(t))]
      BY <1>4, <3>1
    <3> QED BY <3>1, <3>2, <3>3
  <2> QED BY <1>2, <1>7, <2>1, <2>2, <2>3, <2>4
<1>10. Len(y) = Len(x) - 1
  BY <1>2, <1>4, <1>6, <1>7
<1>11. Dropped(x, y, d)
  BY <1>8, <1>9, <1>10 DEF Dropped
<1> HIDE DEF d
<1> QED BY <1>8, <1>11 DEF x, y, d

-----------------------------------------------------------------------------
(* Types.                                                                  *)

\* A frame is its bytes in order and the delimiter.
LEMMA EncodeType ==
    ASSUME NEW f \in 1 .. MaxSent
    PROVE  /\ Encode(f) \in Seq(Bytes) /\ Len(Encode(f)) = SIZE + 1
           /\ \A i \in 1 .. SIZE : Encode(f)[i] = <<f, i>>
           /\ Encode(f)[SIZE + 1] = <<f, 0>>
<1>1. SIZE \in Nat /\ SIZE >= 2
  BY LinkAssumption
<1>2. \A i \in 1 .. SIZE + 1 : <<f, IF i <= SIZE THEN i ELSE 0>> \in Bytes
  BY <1>1 DEF Bytes
<1>3. Encode(f) \in [1 .. SIZE + 1 -> Bytes]
  BY <1>2 DEF Encode
<1>4. Encode(f) \in Seq(Bytes)
  BY <1>1, <1>3, SeqDef
<1>5. Len(Encode(f)) = SIZE + 1
  BY <1>1, <1>3, <1>4, LenProperties
<1> QED BY <1>1, <1>4, <1>5 DEF Encode

-----------------------------------------------------------------------------
(* The bytes on their way, as one sequence.                                *)

\* In the order in which they are read.
Stream == rx_pipe \o (uart \o (pipe \o out))

\* A fact of the library, for sequences of bytes.
LEMMA Associative ==
    \A s, t, u \in Seq(Bytes) : s \o (t \o u) = (s \o t) \o u
BY ConcatAssociative

\* The stream is a sequence of bytes.
LEMMA StreamType ==
    ASSUME TypeOK
    PROVE  /\ Stream \in Seq(Bytes) /\ Len(Stream) \in Nat
           /\ \A i \in 1 .. Len(Stream) : Stream[i] \in Bytes
<1>1. Stream \in Seq(Bytes)
  <2>1. pipe \o out \in Seq(Bytes)
    BY ConcatProperties DEF TypeOK
  <2>2. uart \o (pipe \o out) \in Seq(Bytes)
    BY <2>1, ConcatProperties DEF TypeOK
  <2> QED BY <2>2, ConcatProperties DEF TypeOK, Stream
<1> QED BY <1>1, LenProperties, ElementOfSeq

\* Moving a byte leaves the stream as it is.
LEMMA MovesKeepStream ==
    ASSUME TypeOK, Write \/ Transmit \/ Receive
    PROVE  Stream' = Stream
<1>1. /\ out \in Seq(Bytes) /\ pipe \in Seq(Bytes) /\ uart \in Seq(Bytes)
      /\ rx_pipe \in Seq(Bytes)
  BY DEF TypeOK
<1>2. CASE Write
  <2>1. pipe' \o out' = pipe \o out
    BY <1>1, <1>2, MoveByte DEF Write
  <2> QED BY <1>2, <2>1 DEF Write, Stream, receiver
<1>3. CASE Transmit
  <2>1. uart' \o pipe' = uart \o pipe
    BY <1>1, <1>3, MoveByte DEF Transmit
  <2>2. uart' \in Seq(Bytes) /\ pipe' \in Seq(Bytes)
    <3>1. Head(pipe) \in Bytes /\ Tail(pipe) \in Seq(Bytes)
      BY <1>1, <1>3, HeadTailProperties DEF Transmit
    <3> QED BY <1>1, <1>3, <3>1, AppendProperties DEF Transmit
  <2>3. uart' \o (pipe' \o out) = uart \o (pipe \o out)
    <3>1. uart' \o (pipe' \o out) = (uart' \o pipe') \o out
      BY <1>1, <2>2, Associative
    <3>2. uart \o (pipe \o out) = (uart \o pipe) \o out
      BY <1>1, Associative
    <3> QED BY <2>1, <3>1, <3>2
  <2> QED BY <1>3, <2>3 DEF Transmit, Stream, receiver, sender
<1>4. CASE Receive
  <2>1. rx_pipe' \o uart' = rx_pipe \o uart
    BY <1>1, <1>4, MoveByte DEF Receive
  <2>2. rx_pipe' \in Seq(Bytes) /\ uart' \in Seq(Bytes)
    <3>1. Head(uart) \in Bytes /\ Tail(uart) \in Seq(Bytes)
      BY <1>1, <1>4, HeadTailProperties DEF Receive
    <3> QED BY <1>1, <1>4, <3>1, AppendProperties DEF Receive
  <2>3. rx_pipe' \o (uart' \o (pipe \o out)) = rx_pipe \o (uart \o (pipe \o out))
    <3> DEFINE u == pipe \o out
    <3>1. u \in Seq(Bytes)
      BY <1>1, ConcatProperties
    <3> HIDE DEF u
    <3>2. rx_pipe' \o (uart' \o u) = (rx_pipe' \o uart') \o u
      BY <2>2, <3>1, Associative
    <3>3. rx_pipe \o (uart \o u) = (rx_pipe \o uart) \o u
      BY <1>1, <3>1, Associative
    <3> QED BY <2>1, <3>2, <3>3 DEF u
  <2> QED BY <1>4, <2>3 DEF Receive, Stream, sender
<1> QED BY <1>2, <1>3, <1>4

\* A read takes the first byte of the stream.
LEMMA ReadsDropFirst ==
    ASSUME TypeOK, Collect \/ Deliver
    PROVE  Dropped(Stream, Stream', 1) /\ Stream[1] = Head(rx_pipe)
<1> DEFINE u == uart \o (pipe \o out)
<1>1. rx_pipe \in Seq(Bytes) /\ rx_pipe # <<>> /\ u \in Seq(Bytes) /\ Tail(rx_pipe) \in Seq(Bytes)
  <2>1. rx_pipe \in Seq(Bytes) /\ rx_pipe # <<>>
    BY DEF TypeOK, Collect, Deliver, NextIsDelimiter
  <2>2. uart \in Seq(Bytes) /\ pipe \in Seq(Bytes) /\ out \in Seq(Bytes)
    BY DEF TypeOK
  <2>3. pipe \o out \in Seq(Bytes)
    BY <2>2, ConcatProperties
  <2>4. u \in Seq(Bytes)
    BY <2>2, <2>3, ConcatProperties
  <2> HIDE DEF u
  <2> QED BY <2>1, <2>4, HeadTailProperties
<1>2. Stream' = Tail(rx_pipe) \o u
  BY DEF Collect, Deliver, Stream, sender
<1>3. Stream = rx_pipe \o u
  BY DEF Stream
<1> HIDE DEF u
<1>4. /\ <<>> \in Seq(Bytes) /\ Len(<<>>) = 0
      /\ (<<>> \o rx_pipe) \o u = rx_pipe \o u
      /\ (<<>> \o Tail(rx_pipe)) \o u = Tail(rx_pipe) \o u
  BY <1>1, ConcatEmptySeq, EmptySeq
<1> DEFINE d == Len(<<>>) + 1
           x == (<<>> \o rx_pipe) \o u
           y == (<<>> \o Tail(rx_pipe)) \o u
<1>5. x[d] = Head(rx_pipe) /\ Dropped(x, y, d)
  BY <1>1, <1>4, DropByte
<1>6. d = 1 /\ x = Stream /\ y = Stream'
  BY <1>2, <1>3, <1>4
<1> HIDE DEF d, x, y
<1> QED BY <1>5, <1>6

\* A loss takes one byte of it, wherever the UART is.
LEMMA LossDropsOne ==
    ASSUME TypeOK, Lose
    PROVE  \E d \in 1 .. Len(Stream) : Dropped(Stream, Stream', d) /\ Stream[d] = Head(uart)
<1> DEFINE u == pipe \o out
           d == Len(rx_pipe) + 1
           x == (rx_pipe \o uart) \o u
           y == (rx_pipe \o Tail(uart)) \o u
<1>1. /\ rx_pipe \in Seq(Bytes) /\ uart \in Seq(Bytes) /\ uart # <<>> /\ u \in Seq(Bytes)
      /\ Tail(uart) \in Seq(Bytes)
  <2>1. /\ rx_pipe \in Seq(Bytes) /\ uart \in Seq(Bytes) /\ uart # <<>>
        /\ pipe \in Seq(Bytes) /\ out \in Seq(Bytes)
    BY DEF TypeOK, Lose
  <2>2. u \in Seq(Bytes)
    BY <2>1, ConcatProperties
  <2> HIDE DEF u
  <2> QED BY <2>1, <2>2, HeadTailProperties
<1>2. Stream' = rx_pipe \o (Tail(uart) \o u)
  BY DEF Lose, Stream, sender, receiver
<1>3. Stream = rx_pipe \o (uart \o u)
  BY DEF Stream
<1> HIDE DEF u
<1>4. x = Stream /\ y = Stream'
  BY <1>1, <1>2, <1>3, Associative
<1>5. x[d] = Head(uart) /\ Dropped(x, y, d)
  BY <1>1, DropByte
<1> HIDE DEF d, x, y
<1> QED BY <1>4, <1>5 DEF Dropped

\* A frame is appended to it.
LEMMA FramesAppended ==
    ASSUME TypeOK, Serialise, Len(framed) + 1 \in 1 .. MaxSent
    PROVE  Stream' = Stream \o Encode(Len(framed) + 1)
<1> DEFINE e == Encode(Len(framed) + 1)
<1>1. /\ rx_pipe \in Seq(Bytes) /\ uart \in Seq(Bytes) /\ pipe \in Seq(Bytes)
      /\ e \in Seq(Bytes)
  <2>1. e \in Seq(Bytes)
    BY EncodeType
  <2> HIDE DEF e
  <2> QED BY <2>1 DEF TypeOK
<1>2. Stream = rx_pipe \o (uart \o pipe)
  <2>1. pipe \o out = pipe
    BY <1>1, ConcatEmptySeq DEF Serialise
  <2> QED BY <2>1 DEF Stream
<1>3. Stream' = rx_pipe \o (uart \o (pipe \o e))
  BY DEF Serialise, Stream, receiver
<1> HIDE DEF e
<1>4. uart \o (pipe \o e) = (uart \o pipe) \o e /\ uart \o pipe \in Seq(Bytes)
  <2>1. uart \o pipe \in Seq(Bytes)
    BY <1>1, ConcatProperties
  <2>2. uart \o (pipe \o e) = (uart \o pipe) \o e
    BY <1>1, Associative
  <2> QED BY <2>1, <2>2
<1>5. rx_pipe \o ((uart \o pipe) \o e) = (rx_pipe \o (uart \o pipe)) \o e
  <2> DEFINE v == uart \o pipe
  <2>1. v \in Seq(Bytes)
    BY <1>4
  <2> HIDE DEF v
  <2>2. rx_pipe \o (v \o e) = (rx_pipe \o v) \o e
    BY <1>1, <2>1, Associative
  <2> QED BY <2>2 DEF v
<1> QED BY <1>2, <1>3, <1>4, <1>5 DEF e

-----------------------------------------------------------------------------
(* What is invariant of the stream S, the lost bytes L, the framing buffer *)
(* F, the frame e whose delimiter was read last and the number n of        *)
(* frames: operators of constants, so that each step is one lemma.         *)

\* The place of a byte in its frame: the delimiter is the last.
Place(b) == IF b[2] = 0 THEN SIZE + 1 ELSE b[2]

\* The order in which bytes are written.
Precedes(b, c) == b[1] < c[1] \/ (b[1] = c[1] /\ Place(b) < Place(c))

\* b is on its way.
In(S, b) == \E i \in 1 .. Len(S) : S[i] = b

\* Bytes do not overtake each other.
InOrder(S) == \A i, j \in 1 .. Len(S) : i < j => Precedes(S[i], S[j])

\* A byte on its way is not lost and belongs to a frame that has not ended.
OnTheWay(S, L, e, n) ==
    \A i \in 1 .. Len(S) : S[i] \notin L /\ S[i][1] \in e + 1 .. n

\* What is lost was written; the delimiter that was read was not lost.
LostOfFrames(L, e, n) == <<e, 0>> \notin L /\ \A b \in L : b[1] \in 1 .. n

\* The delimiter of a frame that has not ended is on its way or lost.
Delimited(S, L, e, n) == \A f \in e + 1 .. n : <<f, 0>> \in L \/ In(S, <<f, 0>>)

\* What was written behind a byte on its way is on its way too, or lost.
Gapless(S, L, n) ==
    \A j \in 1 .. Len(S) : \A b \in Bytes :
        b[1] <= n /\ Precedes(S[j], b) => b \in L \/ In(S, b)

\* The framing buffer holds bytes of frames that have not ended, from before
\* those on their way.
Collected(S, F, e, n) ==
    \A i \in 1 .. Len(F) :
        /\ F[i][1] \in e + 1 .. n
        /\ \A j \in 1 .. Len(S) : Precedes(F[i], S[j])

\* Undamaged, for the lost bytes L.
Clean(L, f) == <<f - 1, 0>> \notin L /\ \A i \in 0 .. SIZE : <<f, i>> \notin L

\* While nothing is lost of the first frame that has not ended, the framing
\* buffer is its beginning, and its other bytes are on their way.
FirstFrame(S, L, F, e, n) ==
    e < n /\ Clean(L, e + 1) =>
        /\ Len(F) <= SIZE
        /\ \A i \in 1 .. Len(F) : F[i] = <<e + 1, i>>
        /\ \A i \in Len(F) + 1 .. SIZE : In(S, <<e + 1, i>>)

\* The bytes are where they should be.
StreamInv(S, L, F, e, n) ==
    /\ InOrder(S) /\ OnTheWay(S, L, e, n) /\ LostOfFrames(L, e, n)
    /\ Delimited(S, L, e, n) /\ Gapless(S, L, n) /\ Collected(S, F, e, n)
    /\ FirstFrame(S, L, F, e, n)

\* A byte has a frame and a place in it.
LEMMA ByteType ==
    ASSUME NEW b \in Bytes
    PROVE  /\ b[1] \in 1 .. MaxSent /\ b[2] \in 0 .. SIZE /\ b = <<b[1], b[2]>>
           /\ Place(b) \in 1 .. SIZE + 1
<1>1. b[1] \in 1 .. MaxSent /\ b[2] \in 0 .. SIZE /\ b = <<b[1], b[2]>>
  BY DEF Bytes
<1> QED BY <1>1, LinkAssumption DEF Place

\* The order of bytes is transitive
LEMMA PrecedesTransitive ==
    ASSUME NEW a \in Bytes, NEW b \in Bytes, NEW c \in Bytes, Precedes(a, b), Precedes(b, c)
    PROVE  Precedes(a, c)
<1>1. /\ a[1] \in Int /\ b[1] \in Int /\ c[1] \in Int
      /\ Place(a) \in Int /\ Place(b) \in Int /\ Place(c) \in Int
  BY ByteType, LinkAssumption
<1> QED BY <1>1 DEF Precedes

\* and strict.
LEMMA PrecedesIrreflexive ==
    ASSUME NEW a \in Bytes
    PROVE  ~Precedes(a, a)
<1>1. a[1] \in Int /\ Place(a) \in Int
  BY ByteType, LinkAssumption
<1> QED BY <1>1 DEF Precedes

\* The bytes of the frames, and where they are with respect to each other.
LEMMA PlaceOf ==
    ASSUME NEW f \in 1 .. MaxSent, NEW i \in 0 .. SIZE
    PROVE  /\ <<f, i>> \in Bytes /\ <<f, i>>[1] = f /\ <<f, i>>[2] = i
           /\ Place(<<f, i>>) = IF i = 0 THEN SIZE + 1 ELSE i
BY DEF Bytes, Place

\* What a stream without its d-th byte holds, and in which order.
LEMMA DroppedElements ==
    ASSUME NEW S \in Seq(Bytes), NEW T \in Seq(Bytes), NEW d, Dropped(S, T, d)
    PROVE  /\ \A b : In(T, b) => In(S, b)
           /\ \A b : In(S, b) /\ b # S[d] => In(T, b)
           /\ \A i \in 1 .. Len(T) : T[i] \in Bytes /\ In(S, T[i])
           /\ InOrder(S) => InOrder(T) /\ \A i \in 1 .. Len(T) : T[i] # S[d]
<1>1. /\ d \in 1 .. Len(S) /\ Len(T) = Len(S) - 1 /\ Len(S) \in Nat /\ Len(T) \in Nat
      /\ \A i \in 1 .. Len(T) : T[i] = S[IF i < d THEN i ELSE i + 1]
  BY LenProperties DEF Dropped
<1>2. \A i \in 1 .. Len(S) : S[i] \in Bytes
  BY ElementOfSeq
<1>3. \A i \in 1 .. Len(T) : T[i] \in Bytes
  BY ElementOfSeq
<1>4. ASSUME NEW i \in 1 .. Len(T)
      PROVE  In(S, T[i])
  <2>1. (IF i < d THEN i ELSE i + 1) \in 1 .. Len(S)
    BY <1>1
  <2> QED BY <1>1, <2>1 DEF In
<1>5. \A b : In(T, b) => In(S, b)
  BY <1>4 DEF In
<1>6. ASSUME NEW b, In(S, b), b # S[d]
      PROVE  In(T, b)
  <2>1. PICK k \in 1 .. Len(S) : S[k] = b
    BY <1>6 DEF In
  <2>2. k # d
    BY <1>6, <2>1
  <2>3. CASE k < d
    <3>1. k \in 1 .. Len(T)
      BY <1>1, <2>3
    <3>2. T[k] = S[k]
      BY <1>1, <2>3, <3>1
    <3> QED BY <2>1, <3>1, <3>2 DEF In
  <2>4. CASE k > d
    <3>1. k - 1 \in 1 .. Len(T) /\ ~(k - 1 < d) /\ (k - 1) + 1 = k
      BY <1>1, <2>4
    <3>2. T[k - 1] = S[(k - 1) + 1]
      BY <1>1, <3>1
    <3> QED BY <2>1, <3>1, <3>2 DEF In
  <2> QED BY <1>1, <2>2, <2>3, <2>4
<1>7. ASSUME InOrder(S)
      PROVE  InOrder(T) /\ \A i \in 1 .. Len(T) : T[i] # S[d]
  <2> DEFINE At(i) == IF i < d THEN i ELSE i + 1
  <2>1. \A i, j \in 1 .. Len(T) : i < j => At(i) < At(j)
    BY <1>1
  <2>2. \A i \in 1 .. Len(T) : At(i) \in 1 .. Len(S) /\ T[i] = S[At(i)] /\ (At(i) < d \/ d < At(i))
    BY <1>1
  <2> HIDE DEF At
  <2>3. InOrder(T)
    BY <1>7, <2>1, <2>2 DEF InOrder
  <2>4. ASSUME NEW i \in 1 .. Len(T)
        PROVE  T[i] # S[d]
    <3>1. Precedes(T[i], S[d]) \/ Precedes(S[d], T[i])
      BY <1>1, <1>7, <2>2 DEF InOrder
    <3> QED BY <1>1, <1>2, <3>1, PrecedesIrreflexive
  <2> QED BY <2>3, <2>4
<1> QED BY <1>3, <1>4, <1>5, <1>6, <1>7

\* The first byte of an ordered stream is before all others.
LEMMA FirstOfStream ==
    ASSUME NEW S \in Seq(Bytes), InOrder(S), S # <<>>
    PROVE  /\ 1 \in 1 .. Len(S) /\ S[1] \in Bytes
           /\ \A b : In(S, b) => b = S[1] \/ Precedes(S[1], b)
           /\ \A T \in Seq(Bytes) : Dropped(S, T, 1) =>
                \A i \in 1 .. Len(T) : Precedes(S[1], T[i])
<1>1. Len(S) \in Nat \ {0} /\ 1 \in 1 .. Len(S) /\ S[1] \in Bytes
  BY EmptySeq, ElementOfSeq
<1>2. \A j \in 1 .. Len(S) : j = 1 \/ Precedes(S[1], S[j])
  BY <1>1 DEF InOrder
<1>3. \A b : In(S, b) => b = S[1] \/ Precedes(S[1], b)
  BY <1>2 DEF In
<1>4. ASSUME NEW T \in Seq(Bytes), Dropped(S, T, 1), NEW i \in 1 .. Len(T)
      PROVE  Precedes(S[1], T[i])
  <2>1. Len(T) = Len(S) - 1 /\ T[i] = S[IF i < 1 THEN i ELSE i + 1]
    BY <1>4 DEF Dropped
  <2>2. i + 1 \in 1 .. Len(S) /\ i + 1 # 1 /\ ~(i < 1)
    BY <1>1, <2>1
  <2> QED BY <1>2, <2>1, <2>2
<1> QED BY <1>1, <1>3, <1>4

\* Without its first byte, or one that is counted as lost, it is gapless still.
LEMMA DroppedGapless ==
    ASSUME NEW S \in Seq(Bytes), NEW T \in Seq(Bytes), NEW d, Dropped(S, T, d),
           NEW L, NEW M, L \subseteq M, d = 1 \/ S[d] \in M, NEW n,
           InOrder(S), Gapless(S, L, n)
    PROVE  Gapless(T, M, n)
<1> SUFFICES ASSUME NEW j \in 1 .. Len(T), NEW b \in Bytes, b[1] <= n, Precedes(T[j], b)
             PROVE  b \in M \/ In(T, b)
  BY DEF Gapless
<1>1. In(S, T[j]) /\ T[j] \in Bytes
  BY DroppedElements
<1>2. b \in L \/ In(S, b)
  BY <1>1 DEF Gapless, In
<1>3. CASE b # S[d]
  BY <1>2, <1>3, DroppedElements
<1>4. CASE b = S[d] /\ d = 1
  <2>1. S # <<>>
    BY EmptySeq DEF Dropped
  <2>2. Precedes(b, T[j])
    BY <1>4, <2>1, FirstOfStream
  <2>3. Precedes(b, b)
    BY <1>1, <2>2, PrecedesTransitive
  <2> QED BY <2>3, PrecedesIrreflexive
<1>5. CASE b = S[d] /\ S[d] \in M
  BY <1>5
<1> QED BY <1>3, <1>4, <1>5

\* A byte is lost.
LEMMA LossStep ==
    ASSUME NEW S \in Seq(Bytes), NEW T \in Seq(Bytes), NEW d, Dropped(S, T, d),
           NEW L \in SUBSET Bytes, NEW F \in Seq(Bytes), NEW e \in Nat, NEW n \in Nat,
           StreamInv(S, L, F, e, n)
    PROVE  StreamInv(T, L \cup {S[d]}, F, e, n)
<1> DEFINE M == L \cup {S[d]}
<1>1. /\ InOrder(S) /\ OnTheWay(S, L, e, n) /\ LostOfFrames(L, e, n)
      /\ Delimited(S, L, e, n) /\ Gapless(S, L, n) /\ Collected(S, F, e, n)
      /\ FirstFrame(S, L, F, e, n)
  BY DEF StreamInv
<1>2. /\ d \in 1 .. Len(S) /\ InOrder(T)
      /\ \A i \in 1 .. Len(T) : T[i] # S[d] /\ In(S, T[i])
      /\ \A b : In(S, b) /\ b # S[d] => In(T, b)
  <2>1. d \in 1 .. Len(S)
    BY DEF Dropped
  <2>2. /\ InOrder(T) /\ \A i \in 1 .. Len(T) : T[i] # S[d]
        /\ \A i \in 1 .. Len(T) : In(S, T[i])
        /\ \A b : In(S, b) /\ b # S[d] => In(T, b)
    BY <1>1, DroppedElements
  <2> QED BY <2>1, <2>2
<1>3. OnTheWay(T, M, e, n)
  <2> SUFFICES ASSUME NEW i \in 1 .. Len(T)
               PROVE  T[i] \notin M /\ T[i][1] \in e + 1 .. n
    BY DEF OnTheWay
  <2>1. PICK k \in 1 .. Len(S) : S[k] = T[i]
    BY <1>2 DEF In
  <2>2. S[k] \notin L /\ S[k][1] \in e + 1 .. n
    BY <1>1 DEF OnTheWay
  <2> QED BY <1>2, <2>1, <2>2
<1>4. LostOfFrames(M, e, n)
  <2>1. S[d][1] \in e + 1 .. n
    BY <1>1, <1>2 DEF OnTheWay
  <2>2. S[d][1] \in 1 .. n /\ S[d][1] # e
    BY <2>1
  <2>3. S[d] # <<e, 0>>
    BY <2>2
  <2> QED BY <1>1, <2>2, <2>3 DEF LostOfFrames
<1>5. Delimited(T, M, e, n)
  BY <1>1, <1>2 DEF Delimited
<1>6. Gapless(T, M, n)
  <2>1. L \subseteq M /\ S[d] \in M
    OBVIOUS
  <2> HIDE DEF M
  <2> QED BY <1>1, <2>1, DroppedGapless
<1>7. Collected(T, F, e, n)
  BY <1>1, <1>2 DEF Collected, In
<1>8. FirstFrame(T, M, F, e, n)
  <2> SUFFICES ASSUME e < n, Clean(M, e + 1)
               PROVE  /\ Len(F) <= SIZE
                      /\ \A i \in 1 .. Len(F) : F[i] = <<e + 1, i>>
                      /\ \A i \in Len(F) + 1 .. SIZE : In(T, <<e + 1, i>>)
    BY DEF FirstFrame
  <2>1. Clean(L, e + 1) /\ \A i \in 0 .. SIZE : <<e + 1, i>> # S[d]
    BY DEF Clean
  <2>2. /\ Len(F) <= SIZE
        /\ \A i \in 1 .. Len(F) : F[i] = <<e + 1, i>>
        /\ \A i \in Len(F) + 1 .. SIZE : In(S, <<e + 1, i>>)
    BY <1>1, <2>1 DEF FirstFrame
  <2>3. Len(F) \in Nat
    BY LenProperties
  <2>4. ASSUME NEW i \in Len(F) + 1 .. SIZE
        PROVE  In(T, <<e + 1, i>>)
    <3>1. i \in 0 .. SIZE
      BY <2>3, LinkAssumption
    <3> QED BY <1>2, <2>1, <2>2, <3>1
  <2> QED BY <2>2, <2>4
<1> QED BY <1>2, <1>3, <1>4, <1>5, <1>6, <1>7, <1>8 DEF StreamInv

\* A delimiter is read: the frames up to its own have ended.
LEMMA EndStep ==
    ASSUME NEW S \in Seq(Bytes), NEW T \in Seq(Bytes), Dropped(S, T, 1),
           NEW L \in SUBSET Bytes, NEW F \in Seq(Bytes), NEW e \in Nat, NEW n \in Nat,
           n <= MaxSent, StreamInv(S, L, F, e, n), S[1][2] = 0
    PROVE  S[1][1] \in e + 1 .. n /\ StreamInv(T, L, <<>>, S[1][1], n)
<1> DEFINE g == S[1][1]
<1>1. /\ InOrder(S) /\ OnTheWay(S, L, e, n) /\ LostOfFrames(L, e, n)
      /\ Delimited(S, L, e, n) /\ Gapless(S, L, n)
  BY DEF StreamInv
<1>2. S # <<>>
  BY EmptySeq DEF Dropped
<1>3. /\ S[1] \in Bytes /\ 1 \in 1 .. Len(S)
      /\ \A i \in 1 .. Len(T) : Precedes(S[1], T[i])
  BY <1>1, <1>2, FirstOfStream
<1>4. /\ InOrder(T) /\ \A i \in 1 .. Len(T) : T[i] \in Bytes /\ In(S, T[i])
      /\ \A b : In(S, b) /\ b # S[1] => In(T, b)
  BY <1>1, DroppedElements
<1>5. g \in e + 1 .. n /\ g \in 1 .. MaxSent /\ S[1] \notin L
  BY <1>1, <1>3, ByteType DEF OnTheWay
<1>6. S[1] = <<g, 0>> /\ Place(S[1]) = SIZE + 1
  BY <1>3, ByteType DEF Place
<1>7. ASSUME NEW b \in Bytes
      PROVE  Precedes(S[1], b) <=> b[1] > g
  <2>1. b[1] \in Nat /\ Place(b) \in 1 .. SIZE + 1
    BY ByteType
  <2>2. g \in Nat /\ ~(SIZE + 1 < Place(b))
    BY <1>5, <2>1, LinkAssumption
  <2> HIDE DEF g
  <2>3. S[1][1] = g
    BY DEF g
  <2> QED BY <1>6, <2>1, <2>2, <2>3 DEF Precedes
<1> HIDE DEF g
<1>8. OnTheWay(T, L, g, n)
  <2> SUFFICES ASSUME NEW i \in 1 .. Len(T)
               PROVE  T[i] \notin L /\ T[i][1] \in g + 1 .. n
    BY DEF OnTheWay
  <2>1. T[i] \notin L /\ T[i][1] \in e + 1 .. n
    BY <1>1, <1>4 DEF OnTheWay, In
  <2>2. T[i][1] > g
    BY <1>3, <1>4, <1>7
  <2> QED BY <1>5, <2>1, <2>2
<1>9. LostOfFrames(L, g, n)
  BY <1>1, <1>5, <1>6 DEF LostOfFrames
<1>10. Delimited(T, L, g, n)
  <2> SUFFICES ASSUME NEW f \in g + 1 .. n
               PROVE  <<f, 0>> \in L \/ In(T, <<f, 0>>)
    BY DEF Delimited
  <2>1. f \in e + 1 .. n /\ f # g
    BY <1>5
  <2>2. <<f, 0>> # S[1]
    BY <1>6, <2>1
  <2> QED BY <1>1, <1>4, <2>1, <2>2 DEF Delimited
<1>11. Gapless(T, L, n)
  BY <1>1, DroppedGapless
<1>12. Collected(T, <<>>, g, n)
  BY EmptySeq DEF Collected
<1>13. FirstFrame(T, L, <<>>, g, n)
  <2> SUFFICES ASSUME g < n, Clean(L, g + 1), NEW i \in 1 .. SIZE
               PROVE  In(T, <<g + 1, i>>)
    <3>1. Len(<<>>) = 0
      BY EmptySeq
    <3> QED BY <3>1, LinkAssumption DEF FirstFrame
  <2>1. g + 1 \in 1 .. MaxSent /\ g + 1 <= n /\ i \in 0 .. SIZE
    BY <1>5, LinkAssumption
  <2>2. <<g + 1, i>> \in Bytes /\ <<g + 1, i>>[1] = g + 1
    BY <2>1, PlaceOf
  <2>3. Precedes(S[1], <<g + 1, i>>)
    BY <1>5, <1>7, <2>2
  <2>4. <<g + 1, i>> \notin L
    BY <2>1 DEF Clean
  <2>5. In(S, <<g + 1, i>>)
    BY <1>1, <1>3, <2>1, <2>2, <2>3, <2>4 DEF Gapless
  <2>6. <<g + 1, i>> # S[1]
    BY <1>5, <1>6
  <2> QED BY <1>4, <2>5, <2>6
<1> QED BY <1>4, <1>5, <1>8, <1>9, <1>10, <1>11, <1>12, <1>13 DEF StreamInv, g

\* A byte of a frame is read into the framing buffer, or empties it.
LEMMA CollectStep ==
    ASSUME NEW S \in Seq(Bytes), NEW T \in Seq(Bytes), Dropped(S, T, 1),
           NEW L \in SUBSET Bytes, NEW F \in Seq(Bytes), NEW e \in Nat, NEW n \in Nat,
           n <= MaxSent, StreamInv(S, L, F, e, n), S[1][2] # 0,
           NEW G, G = IF Len(F) < FRAMING THEN Append(F, S[1]) ELSE <<>>
    PROVE  StreamInv(T, L, G, e, n)
<1>1. /\ InOrder(S) /\ OnTheWay(S, L, e, n) /\ LostOfFrames(L, e, n)
      /\ Delimited(S, L, e, n) /\ Gapless(S, L, n) /\ Collected(S, F, e, n)
      /\ FirstFrame(S, L, F, e, n)
  BY DEF StreamInv
<1>2. S # <<>>
  BY EmptySeq DEF Dropped
<1>3. /\ S[1] \in Bytes /\ 1 \in 1 .. Len(S)
      /\ \A i \in 1 .. Len(T) : Precedes(S[1], T[i])
      /\ \A b : In(S, b) => b = S[1] \/ Precedes(S[1], b)
  BY <1>1, <1>2, FirstOfStream
<1>4. /\ InOrder(T) /\ \A i \in 1 .. Len(T) : T[i] \in Bytes /\ In(S, T[i])
      /\ \A b : In(S, b) /\ b # S[1] => In(T, b)
  BY <1>1, DroppedElements
<1>5. S[1][1] \in e + 1 .. n /\ S[1] \notin L
  BY <1>1, <1>3 DEF OnTheWay
<1>6. Len(F) \in Nat /\ \A i \in 1 .. Len(F) : F[i] \in Bytes
  BY LenProperties, ElementOfSeq
<1>7. OnTheWay(T, L, e, n)
  BY <1>1, <1>4 DEF OnTheWay, In
<1>8. Delimited(T, L, e, n)
  <2> SUFFICES ASSUME NEW f \in e + 1 .. n
               PROVE  <<f, 0>> \in L \/ In(T, <<f, 0>>)
    BY DEF Delimited
  <2>1. <<f, 0>> # S[1]
    OBVIOUS
  <2> QED BY <1>1, <1>4, <2>1 DEF Delimited
<1>9. Gapless(T, L, n)
  BY <1>1, DroppedGapless
<1>10. ASSUME e < n, Clean(L, e + 1)
       PROVE  /\ Len(F) + 1 <= SIZE /\ S[1] = <<e + 1, Len(F) + 1>>
              /\ \A i \in 1 .. Len(F) : F[i] = <<e + 1, i>>
              /\ \A i \in Len(F) + 1 .. SIZE : In(S, <<e + 1, i>>)
  <2>1. /\ Len(F) <= SIZE
        /\ \A i \in 1 .. Len(F) : F[i] = <<e + 1, i>>
        /\ \A i \in Len(F) + 1 .. SIZE : In(S, <<e + 1, i>>)
    BY <1>1, <1>10 DEF FirstFrame
  <2>2. e + 1 \in 1 .. MaxSent /\ e + 1 \in e + 1 .. n
    BY <1>10, LinkAssumption
  <2>3. In(S, <<e + 1, 0>>)
    <3>1. <<e + 1, 0>> \notin L
      BY <1>10, LinkAssumption DEF Clean
    <3> QED BY <1>1, <2>2, <3>1 DEF Delimited
  <2> DEFINE k == S[1][2]
  <2>4. S[1] = <<e + 1, k>> /\ k \in 1 .. SIZE
    <3>1. S[1][2] \in 0 .. SIZE /\ S[1] = <<S[1][1], S[1][2]>> /\ S[1][1] \in Nat
      BY <1>3, ByteType
    <3>2. Precedes(S[1], <<e + 1, 0>>)
      BY <1>3, <2>3
    <3>3. S[1][1] <= e + 1
      BY <2>2, <3>1, <3>2, PlaceOf, LinkAssumption DEF Precedes
    <3> QED BY <1>5, <3>1, <3>3, LinkAssumption
  <2>5. k > Len(F)
    <3> SUFFICES ASSUME k \in 1 .. Len(F)
                 PROVE  FALSE
      BY <1>6, <2>4, LinkAssumption
    <3>1. F[k] = S[1]
      BY <2>1, <2>4
    <3>2. Precedes(F[k], S[1])
      BY <1>1, <1>3 DEF Collected
    <3> QED BY <1>3, <3>1, <3>2, PrecedesIrreflexive
  <2>6. k = Len(F) + 1
    <3>1. Len(F) + 1 \in Len(F) + 1 .. SIZE /\ Len(F) + 1 \in 0 .. SIZE /\ Len(F) + 1 # 0
      BY <1>6, <2>4, <2>5, LinkAssumption
    <3> DEFINE b == <<e + 1, Len(F) + 1>>
    <3>2. b = S[1] \/ Precedes(S[1], b)
      BY <1>3, <2>1, <3>1
    <3>3. CASE b = S[1]
      BY <3>3
    <3>4. CASE Precedes(S[1], b)
      <4>1. Place(S[1]) = k /\ Place(b) = Len(F) + 1 /\ b[1] = e + 1 /\ S[1][1] = e + 1
        BY <2>2, <2>4, <3>1, PlaceOf DEF Place
      <4>2. k < Len(F) + 1
        BY <2>2, <3>4, <4>1 DEF Precedes
      <4> QED BY <1>6, <2>4, <2>5, <4>2
    <3> QED BY <3>2, <3>3, <3>4
  <2> HIDE DEF k
  <2> QED BY <1>6, <2>1, <2>4, <2>6, LinkAssumption
<1>11. CASE Len(F) < FRAMING
  <2>1. /\ G \in Seq(Bytes) /\ Len(G) = Len(F) + 1
        /\ \A i \in 1 .. Len(F) : G[i] = F[i]
        /\ G[Len(F) + 1] = S[1]
    BY <1>3, <1>11, AppendProperties
  <2>2. Collected(T, G, e, n)
    <3> SUFFICES ASSUME NEW i \in 1 .. Len(G)
                 PROVE  G[i][1] \in e + 1 .. n /\ \A j \in 1 .. Len(T) : Precedes(G[i], T[j])
      BY DEF Collected
    <3>1. CASE i = Len(F) + 1
      BY <1>3, <1>5, <2>1, <3>1
    <3>2. CASE i \in 1 .. Len(F)
      <4>1. G[i] = F[i] /\ F[i][1] \in e + 1 .. n
            /\ \A j \in 1 .. Len(S) : Precedes(F[i], S[j])
        BY <1>1, <2>1, <3>2 DEF Collected
      <4> QED BY <1>4, <4>1 DEF In
    <3> QED BY <1>6, <2>1, <3>1, <3>2
  <2>3. FirstFrame(T, L, G, e, n)
    <3> SUFFICES ASSUME e < n, Clean(L, e + 1)
                 PROVE  /\ Len(G) <= SIZE
                        /\ \A i \in 1 .. Len(G) : G[i] = <<e + 1, i>>
                        /\ \A i \in Len(G) + 1 .. SIZE : In(T, <<e + 1, i>>)
      BY DEF FirstFrame
    <3>1. /\ Len(F) + 1 <= SIZE /\ S[1] = <<e + 1, Len(F) + 1>>
          /\ \A i \in 1 .. Len(F) : F[i] = <<e + 1, i>>
          /\ \A i \in Len(F) + 1 .. SIZE : In(S, <<e + 1, i>>)
      BY <1>10
    <3>2. Len(G) <= SIZE
      BY <2>1, <3>1
    <3>3. \A i \in 1 .. Len(G) : G[i] = <<e + 1, i>>
      BY <1>6, <2>1, <3>1
    <3>4. ASSUME NEW i \in Len(G) + 1 .. SIZE
          PROVE  In(T, <<e + 1, i>>)
      <4>1. i \in Len(F) + 1 .. SIZE /\ i # Len(F) + 1
        BY <1>6, <2>1
      <4>2. <<e + 1, i>> # S[1]
        BY <3>1, <4>1
      <4> QED BY <1>4, <3>1, <4>1, <4>2
    <3> QED BY <3>2, <3>3, <3>4
  <2> QED BY <1>1, <1>4, <1>7, <1>8, <1>9, <2>2, <2>3 DEF StreamInv
<1>12. CASE ~(Len(F) < FRAMING)
  <2>1. G = <<>> /\ Len(G) = 0
    BY <1>12, EmptySeq
  <2>2. Collected(T, G, e, n)
    BY <2>1 DEF Collected
  <2>3. FirstFrame(T, L, G, e, n)
    <3>1. ~(e < n /\ Clean(L, e + 1))
      BY <1>6, <1>10, <1>12, LinkAssumption
    <3> QED BY <3>1 DEF FirstFrame
  <2> QED BY <1>1, <1>4, <1>7, <1>8, <1>9, <2>2, <2>3 DEF StreamInv
<1> QED BY <1>11, <1>12

\* A frame is written behind the others.
LEMMA FrameStep ==
    ASSUME NEW S \in Seq(Bytes), NEW L \in SUBSET Bytes, NEW F \in Seq(Bytes),
           NEW e \in Nat, NEW n \in Nat, e <= n, n + 1 \in 1 .. MaxSent,
           StreamInv(S, L, F, e, n)
    PROVE  StreamInv(S \o Encode(n + 1), L, F, e, n + 1)
<1> DEFINE E == Encode(n + 1)
           T == S \o E
           m == n + 1
<1>1. /\ InOrder(S) /\ OnTheWay(S, L, e, n) /\ LostOfFrames(L, e, n)
      /\ Delimited(S, L, e, n) /\ Gapless(S, L, n) /\ Collected(S, F, e, n)
      /\ FirstFrame(S, L, F, e, n)
  BY DEF StreamInv
<1>2. /\ E \in Seq(Bytes) /\ Len(E) = SIZE + 1
      /\ \A i \in 1 .. SIZE : E[i] = <<m, i>>
      /\ E[SIZE + 1] = <<m, 0>>
  BY EncodeType
<1>3. m \in Nat /\ m \in 1 .. MaxSent /\ m = n + 1 /\ SIZE \in Nat /\ SIZE >= 2
  BY LinkAssumption
<1> HIDE DEF E, m
<1>4. /\ Len(S) \in Nat /\ T \in Seq(Bytes) /\ Len(T) = Len(S) + (SIZE + 1)
      /\ \A i \in 1 .. Len(S) + (SIZE + 1) : T[i] = IF i <= Len(S) THEN S[i] ELSE E[i - Len(S)]
  <2>1. Len(S) \in Nat
    BY LenProperties
  <2>2. /\ T \in Seq(Bytes) /\ Len(T) = Len(S) + Len(E)
        /\ \A i \in 1 .. Len(S) + Len(E) : T[i] = IF i <= Len(S) THEN S[i] ELSE E[i - Len(S)]
    BY <1>2, ConcatProperties
  <2> HIDE DEF T
  <2> QED BY <1>2, <2>1, <2>2
<1> HIDE DEF T
<1>5. \A i \in 1 .. Len(S) : i \in 1 .. Len(T) /\ T[i] = S[i] /\ S[i] \in Bytes
  BY <1>3, <1>4, ElementOfSeq
<1>6. ASSUME NEW i \in 1 .. SIZE + 1
      PROVE  /\ Len(S) + i \in 1 .. Len(T) /\ T[Len(S) + i] = E[i]
             /\ E[i] \in Bytes /\ E[i][1] = m /\ Place(E[i]) = i
  <2>1. Len(S) + i \in 1 .. Len(S) + (SIZE + 1) /\ ~(Len(S) + i <= Len(S)) /\ (Len(S) + i) - Len(S) = i
    BY <1>3, <1>4
  <2>2. T[Len(S) + i] = E[i] /\ Len(S) + i \in 1 .. Len(T)
    BY <1>4, <2>1
  <2>3. CASE i = SIZE + 1
    <3>1. 0 \in 0 .. SIZE /\ E[i] = <<m, 0>>
      BY <1>2, <1>3, <2>3
    <3>2. E[i] \in Bytes /\ E[i][1] = m /\ Place(E[i]) = SIZE + 1
      BY <1>3, <3>1, PlaceOf
    <3> QED BY <2>2, <2>3, <3>2
  <2>4. CASE i \in 1 .. SIZE
    <3>1. i \in 0 .. SIZE /\ i # 0 /\ E[i] = <<m, i>>
      BY <1>2, <2>4
    <3> QED BY <1>3, <2>2, <3>1, PlaceOf
  <2> QED BY <1>3, <2>3, <2>4
<1>7. ASSUME NEW i \in 1 .. Len(T)
      PROVE  i \in 1 .. Len(S) \/ \E k \in 1 .. SIZE + 1 : i = Len(S) + k
  <2>1. CASE i > Len(S)
    <3>1. i - Len(S) \in 1 .. SIZE + 1 /\ i = Len(S) + (i - Len(S))
      BY <1>3, <1>4, <2>1
    <3> QED BY <3>1
  <2> QED BY <1>4, <2>1
<1>8. \A b : In(S, b) => In(T, b)
  BY <1>5 DEF In
<1>9. \A i \in 0 .. SIZE : In(T, <<m, i>>)
  <2>1. In(T, <<m, 0>>)
    <3>1. SIZE + 1 \in 1 .. SIZE + 1
      BY <1>3
    <3> QED BY <1>2, <1>6, <3>1 DEF In
  <2>2. ASSUME NEW i \in 1 .. SIZE
        PROVE  In(T, <<m, i>>)
    <3>1. i \in 1 .. SIZE + 1
      BY <1>3
    <3> QED BY <1>2, <1>6, <3>1 DEF In
  <2>3. \A i \in 0 .. SIZE : i = 0 \/ i \in 1 .. SIZE
    BY <1>3
  <2> QED BY <2>1, <2>2, <2>3
<1>10. \A i \in 1 .. Len(S) : S[i][1] \in e + 1 .. n /\ S[i][1] < m /\ S[i][1] \in Nat
  BY <1>1, <1>3 DEF OnTheWay
<1>11. InOrder(T)
  <2> SUFFICES ASSUME NEW i \in 1 .. Len(T), NEW j \in 1 .. Len(T), i < j
               PROVE  Precedes(T[i], T[j])
    BY DEF InOrder
  <2>1. CASE i \in 1 .. Len(S) /\ j \in 1 .. Len(S)
    BY <1>1, <1>5, <2>1 DEF InOrder
  <2>2. CASE i \in 1 .. Len(S) /\ j \notin 1 .. Len(S)
    <3>1. PICK k \in 1 .. SIZE + 1 : j = Len(S) + k
      BY <1>7, <2>2
    <3>2. T[j][1] = m
      BY <1>6, <3>1
    <3> QED BY <1>5, <1>10, <2>2, <3>2 DEF Precedes
  <2>3. CASE i \notin 1 .. Len(S)
    <3>1. PICK h \in 1 .. SIZE + 1 : i = Len(S) + h
      BY <1>7, <2>3
    <3>2. j \notin 1 .. Len(S)
      BY <1>4, <2>3
    <3>3. PICK k \in 1 .. SIZE + 1 : j = Len(S) + k
      BY <1>7, <3>2
    <3>4. h < k
      BY <1>4, <3>1, <3>3
    <3> QED BY <1>6, <3>1, <3>3, <3>4 DEF Precedes
  <2> QED BY <2>1, <2>2, <2>3
<1>12. OnTheWay(T, L, e, m)
  <2> SUFFICES ASSUME NEW i \in 1 .. Len(T)
               PROVE  T[i] \notin L /\ T[i][1] \in e + 1 .. m
    BY DEF OnTheWay
  <2>1. CASE i \in 1 .. Len(S)
    <3>1. T[i] = S[i] /\ S[i] \notin L /\ S[i][1] \in e + 1 .. n
      BY <1>1, <1>5, <2>1 DEF OnTheWay
    <3> QED BY <1>3, <3>1
  <2>2. CASE i \notin 1 .. Len(S)
    <3>1. PICK k \in 1 .. SIZE + 1 : i = Len(S) + k
      BY <1>7, <2>2
    <3>2. T[i][1] = m
      BY <1>6, <3>1
    <3>3. m \in e + 1 .. m /\ m \notin 1 .. n
      BY <1>3
    <3> QED BY <1>1, <3>2, <3>3 DEF LostOfFrames
  <2> QED BY <2>1, <2>2
<1>13. LostOfFrames(L, e, m)
  BY <1>1, <1>3 DEF LostOfFrames
<1>14. Delimited(T, L, e, m)
  <2> SUFFICES ASSUME NEW f \in e + 1 .. m
               PROVE  <<f, 0>> \in L \/ In(T, <<f, 0>>)
    BY DEF Delimited
  <2>1. CASE f = m
    <3>1. 0 \in 0 .. SIZE
      BY <1>3
    <3> QED BY <1>9, <2>1, <3>1
  <2>2. CASE f \in e + 1 .. n
    BY <1>1, <1>8, <2>2 DEF Delimited
  <2> QED BY <1>3, <2>1, <2>2
<1>15. Gapless(T, L, m)
  <2> SUFFICES ASSUME NEW j \in 1 .. Len(T), NEW b \in Bytes, b[1] <= m, Precedes(T[j], b)
               PROVE  b \in L \/ In(T, b)
    BY DEF Gapless
  <2>1. b[1] \in Nat /\ b = <<b[1], b[2]>> /\ b[2] \in 0 .. SIZE
    BY ByteType
  <2>2. CASE b[1] = m
    <3>1. b = <<m, b[2]>>
      BY <2>1, <2>2
    <3> QED BY <1>9, <2>1, <3>1
  <2>3. CASE b[1] # m
    <3>1. b[1] <= n
      BY <1>3, <2>1, <2>3
    <3>2. j \in 1 .. Len(S)
      <4> SUFFICES ASSUME j \notin 1 .. Len(S)
                   PROVE  FALSE
        OBVIOUS
      <4>1. PICK k \in 1 .. SIZE + 1 : j = Len(S) + k
        BY <1>7
      <4>2. T[j][1] = m
        BY <1>6, <4>1
      <4> QED BY <1>3, <2>1, <2>3, <4>2 DEF Precedes
    <3>3. Precedes(S[j], b)
      BY <1>5, <3>2
    <3>4. b \in L \/ In(S, b)
      BY <1>1, <3>1, <3>2, <3>3 DEF Gapless
    <3> QED BY <1>8, <3>4
  <2> QED BY <2>2, <2>3
<1>16. Len(F) \in Nat /\ \A i \in 1 .. Len(F) : F[i] \in Bytes
  BY LenProperties, ElementOfSeq
<1>17. Collected(T, F, e, m)
  <2> SUFFICES ASSUME NEW i \in 1 .. Len(F)
               PROVE  F[i][1] \in e + 1 .. m /\ \A j \in 1 .. Len(T) : Precedes(F[i], T[j])
    BY DEF Collected
  <2>1. F[i][1] \in e + 1 .. n /\ \A j \in 1 .. Len(S) : Precedes(F[i], S[j])
    BY <1>1 DEF Collected
  <2>2. F[i][1] \in e + 1 .. m /\ F[i][1] < m
    BY <1>3, <2>1
  <2>3. ASSUME NEW j \in 1 .. Len(T)
        PROVE  Precedes(F[i], T[j])
    <3>1. CASE j \in 1 .. Len(S)
      BY <1>5, <2>1, <3>1
    <3>2. CASE j \notin 1 .. Len(S)
      <4>1. PICK k \in 1 .. SIZE + 1 : j = Len(S) + k
        BY <1>7, <3>2
      <4> QED BY <1>6, <2>2, <4>1 DEF Precedes
    <3> QED BY <3>1, <3>2
  <2> QED BY <2>2, <2>3
<1>18. FirstFrame(T, L, F, e, m)
  <2> SUFFICES ASSUME e < m, Clean(L, e + 1)
               PROVE  /\ Len(F) <= SIZE
                      /\ \A i \in 1 .. Len(F) : F[i] = <<e + 1, i>>
                      /\ \A i \in Len(F) + 1 .. SIZE : In(T, <<e + 1, i>>)
    BY DEF FirstFrame
  <2>1. CASE e < n
    BY <1>1, <1>8, <2>1 DEF FirstFrame
  <2>2. CASE e = n
    <3>1. \A i \in 1 .. Len(F) : FALSE
      <4> SUFFICES ASSUME NEW i \in 1 .. Len(F)
                   PROVE  FALSE
        OBVIOUS
      <4>1. F[i][1] \in e + 1 .. n
        BY <1>1 DEF Collected
      <4> QED BY <2>2, <4>1
    <3>2. Len(F) = 0
      BY <1>16, <3>1
    <3>3. e + 1 = m
      BY <1>3, <2>2
    <3>4. \A i \in Len(F) + 1 .. SIZE : i \in 0 .. SIZE
      BY <1>3, <3>2
    <3> QED BY <1>3, <1>9, <3>1, <3>2, <3>3, <3>4
  <2> QED BY <2>1, <2>2
<1>19. StreamInv(T, L, F, e, m)
  BY <1>11, <1>12, <1>13, <1>14, <1>15, <1>17, <1>18 DEF StreamInv
<1> QED BY <1>19 DEF T, E, m

\* The values that a decoder can return.
LEMMA DecodedType ==
    ASSUME NEW buf, framed \in Seq(1 .. MaxSent), NEW v \in Decoded(buf)
    PROVE  v \in {Error, Garbage} \cup 1 .. MaxSent
<1>1. \A f \in DOMAIN framed : framed[f] \in 1 .. MaxSent
  BY LenProperties, ElementOfSeq
<1> QED BY <1>1 DEF Decoded

\* The types at the start.
LEMMA TypeInit ==
    Init => TypeOK
<1> SUFFICES ASSUME Init PROVE TypeOK
  OBVIOUS
<1>1. <<>> \in Seq(Bytes) /\ <<>> \in Seq(1 .. MaxSent) /\ Len(<<>>) = 0
  BY EmptySeq
<1>2. sent \in 0 .. MaxSent /\ got \in 0 .. MaxSent /\ ended \in 0 .. 0
  BY LinkAssumption DEF Init
<1>3. 0 <= sent /\ 0 <= SIZE + 1 /\ 0 <= PIPE /\ 0 <= UART /\ 0 <= FRAMING
  BY LinkAssumption DEF Init
<1> QED BY <1>1, <1>2, <1>3 DEF Init, TypeOK

\* A value that waits has not been serialised.
TypeInv == TypeOK /\ (sent_new => Len(framed) < sent)

\* The inductive invariant.
BytesInv == StreamInv(Stream, lost, framing, ended, Len(framed))

IndInv == TypeInv /\ BytesInv

\* The inductive invariant at the start.
LEMMA InitInv ==
    Init => IndInv
<1> SUFFICES ASSUME Init
             PROVE  IndInv
  OBVIOUS
<1>1. TypeInv
  BY TypeInit DEF TypeInv, Init
<1>2. Len(<<>>) = 0 /\ <<>> \in Seq(Bytes)
  BY EmptySeq
<1>3. Stream = <<>>
  <2>1. <<>> \o <<>> = <<>>
    BY <1>2, ConcatEmptySeq
  <2> QED BY <2>1 DEF Stream, Init
<1>4. StreamInv(<<>>, {}, <<>>, 0, 0)
  BY <1>2 DEF StreamInv, InOrder, OnTheWay, LostOfFrames, Delimited, Gapless, Collected, FirstFrame
<1>5. BytesInv
  BY <1>2, <1>3, <1>4 DEF BytesInv, Init
<1> QED BY <1>1, <1>5 DEF IndInv

\* The byte that is read next, and the frame that a delimiter ends.
LEMMA NextByte ==
    ASSUME TypeOK, BytesInv, Collect \/ Deliver
    PROVE  /\ Stream[1] = Head(rx_pipe) /\ Dropped(Stream, Stream', 1)
           /\ Stream[1] \in Bytes /\ Stream[1][1] \in ended + 1 .. Len(framed)
           /\ Stream # <<>> /\ 1 \in 1 .. Len(Stream)
<1>1. Dropped(Stream, Stream', 1) /\ Stream[1] = Head(rx_pipe)
  BY ReadsDropFirst
<1>2. 1 \in 1 .. Len(Stream)
  BY <1>1 DEF Dropped
<1>3. Stream[1] \in Bytes /\ Stream[1][1] \in ended + 1 .. Len(framed)
  BY <1>2, StreamType DEF BytesInv, StreamInv, OnTheWay
<1>4. Stream # <<>>
  BY <1>2, EmptySeq
<1> QED BY <1>1, <1>2, <1>3, <1>4

\* Every step keeps the types.
LEMMA TypeStep ==
    IndInv /\ [Next]_vars => TypeInv'
<1> SUFFICES ASSUME TypeInv, BytesInv, [Next]_vars
             PROVE  TypeInv'
  BY DEF IndInv
<1> USE DEF TypeInv
<1>a. /\ out \in Seq(Bytes) /\ pipe \in Seq(Bytes) /\ uart \in Seq(Bytes)
      /\ rx_pipe \in Seq(Bytes) /\ framing \in Seq(Bytes) /\ framed \in Seq(1 .. MaxSent)
      /\ sent \in 0 .. MaxSent /\ sent_new \in BOOLEAN /\ Len(framed) <= sent /\ ended \in 0 .. Len(framed)
      /\ Len(framed) \in Nat /\ Len(out) \in Nat /\ Len(pipe) \in Nat /\ Len(uart) \in Nat
      /\ Len(rx_pipe) \in Nat /\ Len(framing) \in Nat
  BY DEF TypeOK
<1>1. CASE Send
  <2>1. sent + 1 \in 0 .. MaxSent /\ Len(framed) < sent + 1
    BY <1>1, <1>a, LinkAssumption DEF Send
  <2> QED BY <1>1, <1>a, <2>1 DEF Send, TypeOK, receiver
<1>2. CASE Serialise
  <2>1. Len(framed) < sent /\ Len(framed) + 1 \in 1 .. MaxSent /\ sent \in 1 .. MaxSent
    BY <1>2, <1>a, LinkAssumption DEF Serialise
  <2>2. out' \in Seq(Bytes) /\ Len(out') = SIZE + 1
    BY <1>2, <2>1, EncodeType DEF Serialise
  <2>3. framed' \in Seq(1 .. MaxSent) /\ Len(framed') = Len(framed) + 1
    BY <1>2, <1>a, <2>1, AppendProperties DEF Serialise
  <2>4. Len(framed') <= sent /\ ended \in 0 .. Len(framed') /\ Len(out') <= SIZE + 1
    BY <1>a, <2>1, <2>2, <2>3, LinkAssumption
  <2> QED BY <1>2, <1>a, <2>2, <2>3, <2>4 DEF Serialise, TypeOK, receiver
<1>3. CASE Write
  <2>1. /\ Head(out) \in Bytes /\ Tail(out) \in Seq(Bytes) /\ Len(Tail(out)) = Len(out) - 1
    BY <1>3, <1>a, HeadTailProperties DEF Write
  <2>2. pipe' \in Seq(Bytes) /\ Len(pipe') = Len(pipe) + 1 /\ out' \in Seq(Bytes)
    BY <1>3, <1>a, <2>1, AppendProperties DEF Write
  <2>3. Len(pipe') <= PIPE /\ Len(out') <= SIZE + 1
    BY <1>3, <1>a, <2>1, <2>2, LinkAssumption DEF Write, TypeOK
  <2> QED BY <1>3, <1>a, <2>2, <2>3 DEF Write, TypeOK, receiver
<1>4. CASE Transmit
  <2>1. /\ Head(pipe) \in Bytes /\ Tail(pipe) \in Seq(Bytes) /\ Len(Tail(pipe)) = Len(pipe) - 1
    BY <1>4, <1>a, HeadTailProperties DEF Transmit
  <2>2. uart' \in Seq(Bytes) /\ Len(uart') = Len(uart) + 1 /\ pipe' \in Seq(Bytes)
    BY <1>4, <1>a, <2>1, AppendProperties DEF Transmit
  <2>3. Len(uart') <= UART /\ Len(pipe') <= PIPE
    BY <1>4, <1>a, <2>1, <2>2, LinkAssumption DEF Transmit, TypeOK
  <2> QED BY <1>4, <1>a, <2>2, <2>3 DEF Transmit, TypeOK, receiver, sender
<1>5. CASE Receive
  <2>1. /\ Head(uart) \in Bytes /\ Tail(uart) \in Seq(Bytes) /\ Len(Tail(uart)) = Len(uart) - 1
    BY <1>5, <1>a, HeadTailProperties DEF Receive
  <2>2. rx_pipe' \in Seq(Bytes) /\ Len(rx_pipe') = Len(rx_pipe) + 1 /\ uart' \in Seq(Bytes)
    BY <1>5, <1>a, <2>1, AppendProperties DEF Receive
  <2>3. Len(rx_pipe') <= PIPE /\ Len(uart') <= UART
    BY <1>5, <1>a, <2>1, <2>2, LinkAssumption DEF Receive, TypeOK
  <2> QED BY <1>5, <1>a, <2>2, <2>3 DEF Receive, TypeOK, sender
<1>6. CASE Lose
  <2>1. /\ Head(uart) \in Bytes /\ Tail(uart) \in Seq(Bytes) /\ Len(Tail(uart)) = Len(uart) - 1
    BY <1>6, <1>a, HeadTailProperties DEF Lose
  <2>2. Len(uart') <= UART
    BY <1>6, <1>a, <2>1, LinkAssumption DEF Lose, TypeOK
  <2> QED BY <1>6, <1>a, <2>1, <2>2 DEF Lose, TypeOK, sender, receiver
<1>7. CASE Collect
  <2>1. /\ Head(rx_pipe) \in Bytes /\ Tail(rx_pipe) \in Seq(Bytes)
        /\ Len(Tail(rx_pipe)) = Len(rx_pipe) - 1
    BY <1>7, <1>a, HeadTailProperties DEF Collect
  <2>2. framing' \in Seq(Bytes) /\ Len(framing') <= FRAMING
    <3>1. CASE Len(framing) < FRAMING
      BY <1>7, <1>a, <2>1, <3>1, AppendProperties, LinkAssumption DEF Collect
    <3>2. CASE ~(Len(framing) < FRAMING)
      BY <1>7, <3>2, EmptySeq, LinkAssumption DEF Collect
    <3> QED BY <3>1, <3>2
  <2>3. rx_pipe' \in Seq(Bytes) /\ Len(rx_pipe') <= PIPE
    BY <1>7, <1>a, <2>1, LinkAssumption DEF Collect, TypeOK
  <2> QED BY <1>7, <1>a, <2>2, <2>3 DEF Collect, TypeOK, sender
<1>8. CASE Deliver
  <2>1. /\ Head(rx_pipe) \in Bytes /\ Tail(rx_pipe) \in Seq(Bytes)
        /\ Len(Tail(rx_pipe)) = Len(rx_pipe) - 1
    BY <1>8, <1>a, HeadTailProperties DEF Deliver, NextIsDelimiter
  <2>2. rx_pipe' \in Seq(Bytes) /\ Len(rx_pipe') <= PIPE
    BY <1>8, <1>a, <2>1, LinkAssumption DEF Deliver, TypeOK
  <2>3. framing' \in Seq(Bytes) /\ Len(framing') <= FRAMING
    BY <1>8, EmptySeq, LinkAssumption DEF Deliver
  <2>4. ended' \in 0 .. Len(framed)
    <3>1. Head(rx_pipe)[1] \in ended + 1 .. Len(framed)
      BY <1>8, NextByte
    <3> QED BY <1>8, <1>a, <3>1 DEF Deliver
  <2>5. got' \in 0 .. MaxSent
    <3>1. PICK v \in (IF TooShort THEN {Error} ELSE Decoded(framing)) :
              got' = IF v = Error THEN got ELSE v
      BY <1>8 DEF Deliver
    <3>2. v \in {Error, Garbage} \cup 1 .. MaxSent
      BY <1>a, <3>1, DecodedType
    <3>3. got \in 0 .. MaxSent
      BY DEF TypeOK
    <3> QED BY <3>1, <3>2, <3>3, LinkAssumption DEF Garbage
  <2> QED BY <1>8, <1>a, <2>2, <2>3, <2>4, <2>5 DEF Deliver, TypeOK, sender
<1>9. CASE UNCHANGED vars
  BY <1>9 DEF vars, sender, receiver, TypeOK
<1> QED BY <1>1, <1>2, <1>3, <1>4, <1>5, <1>6, <1>7, <1>8, <1>9 DEF Next

\* Every step keeps the bytes where they should be.
LEMMA BytesStep ==
    IndInv /\ [Next]_vars => BytesInv'
<1> SUFFICES ASSUME TypeInv, BytesInv, TypeInv', [Next]_vars
             PROVE  BytesInv'
  BY TypeStep DEF IndInv
<1>a. /\ Stream \in Seq(Bytes) /\ Stream' \in Seq(Bytes) /\ lost \in SUBSET Bytes
      /\ framing \in Seq(Bytes) /\ ended \in Nat /\ Len(framed) \in Nat
      /\ Len(framed) <= MaxSent /\ ended <= Len(framed)
  <2>1. Stream \in Seq(Bytes)
    BY StreamType DEF TypeInv
  <2>2. Stream' \in Seq(Bytes)
    <3>1. TypeOK'
      BY DEF TypeInv
    <3>2. (TypeOK => Stream \in Seq(Bytes))'
      BY StreamType, PTL
    <3> QED BY <3>1, <3>2
  <2>3. /\ framed \in Seq(1 .. MaxSent) /\ Len(framed) <= sent /\ sent \in 0 .. MaxSent
        /\ ended \in 0 .. Len(framed) /\ lost \in SUBSET Bytes /\ framing \in Seq(Bytes)
    BY DEF TypeInv, TypeOK
  <2>4. Len(framed) \in Nat
    BY <2>3, LenProperties
  <2> QED BY <2>1, <2>2, <2>3, <2>4, LinkAssumption
<1>b. StreamInv(Stream, lost, framing, ended, Len(framed))
  BY DEF BytesInv
<1>1. CASE Send \/ UNCHANGED vars
  <2>1. UNCHANGED <<Stream, lost, framing, ended, framed>>
    BY <1>1 DEF Send, vars, sender, receiver, Stream
  <2> QED BY <1>b, <2>1 DEF BytesInv
<1>2. CASE Serialise
  <2>1. Len(framed) + 1 \in 1 .. MaxSent
    <3>1. sent_new /\ (sent_new => Len(framed) < sent) /\ sent \in 0 .. MaxSent
      BY <1>2 DEF Serialise, TypeInv, TypeOK
    <3> QED BY <1>a, <3>1, LinkAssumption
  <2>2. Stream' = Stream \o Encode(Len(framed) + 1)
    BY <1>2, <2>1, FramesAppended DEF TypeInv
  <2>3. StreamInv(Stream \o Encode(Len(framed) + 1), lost, framing, ended, Len(framed) + 1)
    BY <1>a, <1>b, <2>1, FrameStep
  <2>4. Len(framed') = Len(framed) + 1
    BY <1>2, AppendProperties DEF Serialise, TypeInv, TypeOK
  <2>5. lost' = lost /\ framing' = framing /\ ended' = ended
    BY <1>2 DEF Serialise, receiver
  <2> QED BY <2>2, <2>3, <2>4, <2>5 DEF BytesInv
<1>3. CASE Write \/ Transmit \/ Receive
  <2>1. Stream' = Stream
    BY <1>3, MovesKeepStream DEF TypeInv
  <2>2. UNCHANGED <<lost, framing, ended, framed>>
    BY <1>3 DEF Write, Transmit, Receive, sender, receiver
  <2> QED BY <1>b, <2>1, <2>2 DEF BytesInv
<1>4. CASE Lose
  <2>1. PICK d \in 1 .. Len(Stream) : Dropped(Stream, Stream', d) /\ Stream[d] = Head(uart)
    BY <1>4, LossDropsOne DEF TypeInv
  <2>2. StreamInv(Stream', lost \cup {Stream[d]}, framing, ended, Len(framed))
    BY <1>a, <1>b, <2>1, LossStep
  <2>3. lost' = lost \cup {Stream[d]} /\ UNCHANGED <<framing, ended, framed>>
    BY <1>4, <2>1 DEF Lose, sender, receiver
  <2> QED BY <2>2, <2>3 DEF BytesInv
<1>5. CASE Collect
  <2>1. Dropped(Stream, Stream', 1) /\ Stream[1] = Head(rx_pipe)
    BY <1>5, NextByte DEF TypeInv
  <2>2. /\ Stream[1][2] # 0
        /\ framing' = IF Len(framing) < FRAMING THEN Append(framing, Stream[1]) ELSE <<>>
    BY <1>5, <2>1 DEF Collect, NextIsDelimiter
  <2>3. StreamInv(Stream', lost, framing', ended, Len(framed))
    BY <1>a, <1>b, <2>1, <2>2, CollectStep
  <2>4. UNCHANGED <<lost, ended, framed>>
    BY <1>5 DEF Collect, sender
  <2> QED BY <2>3, <2>4 DEF BytesInv
<1>6. CASE Deliver
  <2>1. Dropped(Stream, Stream', 1) /\ Stream[1] = Head(rx_pipe)
    BY <1>6, NextByte DEF TypeInv
  <2>2. Stream[1][2] = 0 /\ framing' = <<>> /\ ended' = Stream[1][1]
    BY <1>6, <2>1 DEF Deliver, NextIsDelimiter
  <2>3. StreamInv(Stream', lost, <<>>, Stream[1][1], Len(framed))
    BY <1>a, <1>b, <2>1, <2>2, EndStep
  <2>4. UNCHANGED <<lost, framed>>
    BY <1>6 DEF Deliver, sender
  <2> QED BY <2>2, <2>3, <2>4 DEF BytesInv
<1> QED BY <1>1, <1>2, <1>3, <1>4, <1>5, <1>6 DEF Next

\* The inductive invariant: every byte of a frame that has not ended is on its
\* way, in the framing buffer or lost, and they are in the order of writing.
THEOREM Invariance ==
    Spec => []IndInv
<1>1. IndInv /\ [Next]_vars => IndInv'
  BY TypeStep, BytesStep DEF IndInv
<1> QED BY InitInv, <1>1, PTL DEF Spec

\* Pipes, UART and framing buffer stay within their capacity, and what the
\* receiver's watch holds is a value that was sent or one of a damaged frame.
THEOREM TypeCorrect ==
    Spec => []TypeOK
<1>1. IndInv => TypeOK
  BY DEF IndInv, TypeInv
<1> QED BY Invariance, <1>1, PTL

-----------------------------------------------------------------------------
(* The link of frames.                                                     *)

\* StateOf and the frame f, for the lost bytes L and the values q.
State(L, f) == IF <<f, 0>> \in L THEN "open" ELSE IF Clean(L, f) THEN "whole" ELSE "damaged"

Frame(q, L, f) == [value |-> q[f], state |-> State(L, f)]

\* The frames of the link of frames.
AnyFrame == [value : 1 .. MaxSent, state : {"whole", "damaged", "open"}]

\* The frames on their way, one by one.
FlightType ==
    /\ Len(framed) - ended \in Nat /\ ended \in Nat /\ Len(framed) \in Nat
    /\ InFlight \in Seq(AnyFrame)
    /\ Len(InFlight) = Len(framed) - ended
    /\ DOMAIN InFlight = 1 .. Len(framed) - ended
    /\ \A i \in 1 .. Len(framed) - ended : InFlight[i] = Frame(framed, lost, ended + i)

\* They are what InFlight says.
LEMMA FlightOf ==
    ASSUME TypeOK
    PROVE  FlightType
<1> DEFINE n == Len(framed) - ended
<1>1. framed \in Seq(1 .. MaxSent) /\ ended \in 0 .. Len(framed)
  BY DEF TypeOK
<1>2. Len(framed) \in Nat /\ n \in Nat /\ ended \in Nat
  BY <1>1, LenProperties
<1>3. \A f : StateOf(f) = State(lost, f)
  BY DEF StateOf, State, Undamaged, Clean
<1>4. InFlight = [i \in 1 .. n |-> Frame(framed, lost, ended + i)]
  BY <1>3 DEF InFlight, Frame
<1>5. ASSUME NEW i \in 1 .. n
      PROVE  Frame(framed, lost, ended + i) \in AnyFrame
  <2>1. ended + i \in 1 .. Len(framed)
    BY <1>1, <1>2
  <2>2. framed[ended + i] \in 1 .. MaxSent
    BY <1>1, <2>1, ElementOfSeq
  <2>3. State(lost, ended + i) \in {"whole", "damaged", "open"}
    BY DEF State
  <2> QED BY <2>2, <2>3 DEF Frame, AnyFrame
<1> HIDE DEF n
<1>6. InFlight \in [1 .. n -> AnyFrame] /\ \A i \in 1 .. n : InFlight[i] = Frame(framed, lost, ended + i)
  BY <1>4, <1>5
<1>7. InFlight \in Seq(AnyFrame)
  BY <1>2, <1>6, SeqDef
<1>8. Len(InFlight) = n /\ DOMAIN InFlight = 1 .. n
  BY <1>2, <1>6, <1>7, LenProperties
<1> QED BY <1>2, <1>6, <1>7, <1>8 DEF n, FlightType

\* How to show what the frames on their way are after a step.
LEMMA FlightAfter ==
    ASSUME TypeOK', NEW s \in Seq(AnyFrame), Len(s) = Len(framed') - ended',
           \A i \in 1 .. Len(framed') - ended' : s[i] = Frame(framed', lost', ended' + i)
    PROVE  InFlight' = s
<1>1. (TypeOK => FlightType)'
  BY FlightOf, PTL
<1>2. /\ InFlight' \in Seq(AnyFrame) /\ Len(InFlight') = Len(framed') - ended'
      /\ \A i \in 1 .. Len(framed') - ended' : InFlight'[i] = Frame(framed', lost', ended' + i)
  BY <1>1 DEF FlightType
<1>3. \A i \in 1 .. Len(InFlight') : InFlight'[i] = s[i]
  BY <1>2
<1> QED BY <1>2, <1>3, SeqEqual

\* What a loss does to the state of a frame.
LEMMA LossOfByte ==
    ASSUME NEW L, NEW f \in Nat, NEW i \in 1 .. SIZE, NEW h \in Nat
    PROVE  State(L \cup {<<f, i>>}, h) =
              IF h = f /\ State(L, f) = "whole" THEN "damaged" ELSE State(L, h)
<1> DEFINE M == L \cup {<<f, i>>}
<1>1. i # 0 /\ i \in 0 .. SIZE
  BY LinkAssumption
<1>2. \A k : <<k, 0>> \in M <=> <<k, 0>> \in L
  BY <1>1
<1>3. CASE h = f
  <2>1. ~Clean(M, h)
    BY <1>1, <1>3 DEF Clean
  <2> QED BY <1>2, <1>3, <2>1 DEF State
<1>4. CASE h # f
  <2>1. Clean(M, h) <=> Clean(L, h)
    BY <1>1, <1>4 DEF Clean
  <2> QED BY <1>2, <1>4, <2>1 DEF State
<1> QED BY <1>3, <1>4

\* A lost delimiter opens its frame and harms the next.
LEMMA LossOfDelimiter ==
    ASSUME NEW L, NEW f \in Nat, NEW h \in Nat
    PROVE  State(L \cup {<<f, 0>>}, h) =
              IF h = f THEN "open"
              ELSE IF h = f + 1 /\ State(L, h) = "whole" THEN "damaged" ELSE State(L, h)
<1> DEFINE M == L \cup {<<f, 0>>}
<1>1. CASE h = f
  BY <1>1 DEF State
<1>2. CASE h = f + 1
  <2>1. ~Clean(M, h)
    BY <1>2 DEF Clean
  <2>2. <<h, 0>> \in M <=> <<h, 0>> \in L
    BY <1>2
  <2> QED BY <1>2, <2>1, <2>2 DEF State
<1>3. CASE h # f /\ h # f + 1
  <2>1. h - 1 # f
    BY <1>3
  <2>2. Clean(M, h) <=> Clean(L, h)
    BY <1>3, <2>1 DEF Clean
  <2>3. <<h, 0>> \in M <=> <<h, 0>> \in L
    BY <1>3
  <2> QED BY <1>3, <2>2, <2>3 DEF State
<1> QED BY <1>1, <1>2, <1>3

\* A value is framed.
LEMMA SerialiseTakes ==
    ASSUME IndInv, TypeOK', Serialise
    PROVE  FrameLevel!Take
<1> DEFINE n == Len(framed)
           x == [value |-> sent, state |-> IF FrameLevel!LastIsOpen THEN "damaged" ELSE "whole"]
<1>1. FlightType /\ TypeOK
  BY FlightOf DEF IndInv, TypeInv
<1>2. /\ ended \in Nat /\ n \in Nat /\ n - ended \in Nat /\ sent \in 1 .. MaxSent
      /\ framed \in Seq(1 .. MaxSent)
  <2>1. /\ sent_new /\ (sent_new => Len(framed) < sent) /\ sent \in 0 .. MaxSent
        /\ framed \in Seq(1 .. MaxSent)
    BY DEF Serialise, IndInv, TypeInv, TypeOK
  <2> QED BY <1>1, <2>1, LinkAssumption DEF FlightType
<1>3. /\ framed' = Append(framed, sent) /\ lost' = lost /\ ended' = ended /\ got' = got
      /\ sent' = sent /\ sent_new /\ sent_new' = FALSE
  BY DEF Serialise, receiver
<1>4. Len(framed') = n + 1 /\ framed'[n + 1] = sent /\ \A i \in 1 .. n : framed'[i] = framed[i]
  BY <1>2, <1>3, AppendProperties
<1>5. /\ <<ended, 0>> \notin lost /\ \A b \in lost : b[1] \in 1 .. n
  BY DEF IndInv, BytesInv, StreamInv, LostOfFrames
<1>6. FrameLevel!LastIsOpen <=> <<n, 0>> \in lost
  <2>1. CASE n = ended
    <3>1. Len(InFlight) = 0
      BY <1>1, <1>2, <2>1 DEF FlightType
    <3>2. InFlight = <<>>
      BY <1>1, <3>1, EmptySeq DEF FlightType
    <3> QED BY <1>5, <2>1, <3>2 DEF FrameLevel!LastIsOpen
  <2>2. CASE n # ended
    <3>1. n - ended \in 1 .. n - ended /\ ended + (n - ended) = n
      BY <1>2, <2>2
    <3>2. Len(InFlight) = n - ended /\ InFlight[n - ended] = Frame(framed, lost, n)
      BY <1>1, <3>1 DEF FlightType
    <3>3. InFlight # <<>>
      BY <3>1, <3>2, EmptySeq
    <3>4. InFlight[Len(InFlight)].state = State(lost, n)
      BY <3>2 DEF Frame
    <3> QED BY <3>3, <3>4 DEF FrameLevel!LastIsOpen, State
  <2> QED BY <2>1, <2>2
<1>7. x = Frame(framed', lost', n + 1)
  <2>1. \A i \in 0 .. SIZE : <<n + 1, i>> \notin lost
    <3>1. n + 1 \notin 1 .. n
      BY <1>2
    <3> QED BY <1>5, <3>1
  <2>2. (n + 1) - 1 = n /\ 0 \in 0 .. SIZE
    BY <1>2, LinkAssumption
  <2>3. Clean(lost, n + 1) <=> <<n, 0>> \notin lost
    BY <2>1, <2>2 DEF Clean
  <2>4. State(lost, n + 1) = IF <<n, 0>> \in lost THEN "damaged" ELSE "whole"
    BY <2>1, <2>2, <2>3 DEF State
  <2> QED BY <1>3, <1>4, <1>6, <2>4 DEF Frame
<1>8. x \in AnyFrame
  BY <1>2 DEF AnyFrame
<1> DEFINE s == Append(InFlight, x)
<1> HIDE DEF x, n
<1>9. /\ s \in Seq(AnyFrame) /\ Len(s) = (n - ended) + 1
      /\ \A i \in 1 .. n - ended : s[i] = InFlight[i]
      /\ s[(n - ended) + 1] = x
  <2>1. InFlight \in Seq(AnyFrame) /\ Len(InFlight) = n - ended
    BY <1>1 DEF FlightType, n
  <2> QED BY <1>8, <2>1, AppendProperties
<1> HIDE DEF s
<1>10. ASSUME NEW i \in 1 .. Len(framed') - ended'
       PROVE  s[i] = Frame(framed', lost', ended' + i)
  <2>1. CASE i = (n - ended) + 1
    <3>1. ended' + i = n + 1
      BY <1>2, <1>3, <2>1
    <3> QED BY <1>7, <1>9, <2>1, <3>1
  <2>2. CASE i \in 1 .. n - ended
    <3>1. ended + i \in 1 .. n
      BY <1>2, <2>2
    <3>2. Frame(framed', lost', ended' + i) = Frame(framed, lost, ended + i)
      BY <1>3, <1>4, <3>1 DEF Frame
    <3>3. InFlight[i] = Frame(framed, lost, ended + i)
      BY <1>1, <2>2 DEF FlightType, n
    <3> QED BY <1>9, <2>2, <3>2, <3>3
  <2> QED BY <1>2, <1>3, <1>4, <2>1, <2>2
<1>11. Len(s) = Len(framed') - ended'
  BY <1>2, <1>3, <1>4, <1>9
<1>12. InFlight' = s
  BY <1>9, <1>10, <1>11, FlightAfter
<1> QED BY <1>3, <1>12 DEF s, x, FrameLevel!Take

\* A lost byte damages or opens its frame, or one that was damaged before.
LEMMA LossHarmsFrame ==
    ASSUME IndInv, TypeOK', Lose
    PROVE  FrameLevel!Lose \/ UNCHANGED FrameLevel!linkVars
<1> DEFINE N == Len(framed) - ended
<1>1. FlightType /\ TypeOK
  BY FlightOf DEF IndInv, TypeInv
<1>2. /\ ended \in Nat /\ Len(framed) \in Nat /\ N \in Nat
      /\ InFlight \in Seq(AnyFrame) /\ Len(InFlight) = N /\ DOMAIN InFlight = 1 .. N
      /\ \A i \in 1 .. N : InFlight[i] = Frame(framed, lost, ended + i)
  BY <1>1 DEF FlightType
<1>3. PICK d \in 1 .. Len(Stream) : Dropped(Stream, Stream', d) /\ Stream[d] = Head(uart)
  BY <1>1, LossDropsOne
<1>4. /\ Stream[d] \in Bytes /\ Stream[d] \notin lost
      /\ Stream[d][1] \in ended + 1 .. Len(framed)
  BY <1>1, <1>3, StreamType DEF IndInv, BytesInv, StreamInv, OnTheWay
<1>5. PICK f \in Nat, i \in 0 .. SIZE : Stream[d] = <<f, i>>
  BY <1>4, ByteType
<1>6. /\ f \in ended + 1 .. Len(framed) /\ <<f, i>> \notin lost
      /\ lost' = lost \cup {<<f, i>>}
      /\ framed' = framed /\ ended' = ended /\ sent' = sent /\ sent_new' = sent_new /\ got' = got
  BY <1>3, <1>4, <1>5 DEF Lose, sender, receiver
<1> DEFINE k == f - ended
<1>7. k \in 1 .. N /\ ended + k = f /\ k \in DOMAIN InFlight
  BY <1>2, <1>6
<1>8. InFlight[k].state = State(lost, f) /\ \A h \in 1 .. N : InFlight[h].state = State(lost, ended + h)
  BY <1>2, <1>7 DEF Frame
<1> HIDE DEF N, k
<1>9. ASSUME NEW s \in [1 .. N -> AnyFrame],
             \A h \in 1 .. N : s[h] = Frame(framed, lost', ended + h)
      PROVE  InFlight' = s
  <2>1. s \in Seq(AnyFrame) /\ Len(s) = N
    <3>1. s \in Seq(AnyFrame)
      BY <1>2, SeqDef
    <3> QED BY <1>2, <3>1, LenProperties
  <2>2. Len(framed') - ended' = N
    BY <1>6 DEF N
  <2>3. \A h \in 1 .. Len(framed') - ended' : s[h] = Frame(framed', lost', ended' + h)
    BY <1>6, <1>9, <2>2
  <2> QED BY <2>1, <2>2, <2>3, FlightAfter
<1>10. \A h \in 1 .. N : ended + h \in Nat /\ (ended + h = f <=> h = k) /\ (ended + h = f + 1 <=> h = k + 1)
  BY <1>2, <1>7
<1>11. InFlight \in [1 .. N -> AnyFrame] /\ \A h \in 1 .. N : InFlight[h] \in AnyFrame
  <2>1. \A h \in 1 .. N : InFlight[h] \in AnyFrame
    BY <1>2, ElementOfSeq
  <2> QED BY <1>2, <2>1, LenProperties
<1>12. CASE i # 0 /\ State(lost, f) = "whole"
  <2> DEFINE s == [InFlight EXCEPT ![k].state = "damaged"]
  <2>1. s \in [1 .. N -> AnyFrame]
    BY <1>7, <1>11 DEF AnyFrame
  <2>2. ASSUME NEW h \in 1 .. N
        PROVE  s[h] = Frame(framed, lost', ended + h)
    <3>1. State(lost', ended + h) = IF h = k THEN "damaged" ELSE State(lost, ended + h)
      <4>1. i \in 1 .. SIZE
        BY <1>12, LinkAssumption
      <4> QED BY <1>6, <1>10, <1>12, <4>1, LossOfByte
    <3>2. InFlight[h] = [value |-> framed[ended + h], state |-> State(lost, ended + h)]
      BY <1>2 DEF Frame
    <3>3. CASE h = k
      <4>1. s[h] = [InFlight[h] EXCEPT !.state = "damaged"]
        BY <1>11, <3>3
      <4> QED BY <3>1, <3>2, <3>3, <4>1 DEF Frame
    <3>4. CASE h # k
      <4>1. s[h] = InFlight[h]
        BY <1>11, <3>4
      <4> QED BY <3>1, <3>2, <3>4, <4>1 DEF Frame
    <3> QED BY <3>3, <3>4
  <2>3. InFlight' = s
    BY <1>9, <2>1, <2>2
  <2>4. FrameLevel!Damage(k)
    BY <1>6, <1>8, <1>12, <2>3 DEF FrameLevel!Damage
  <2> QED BY <1>7, <2>4 DEF FrameLevel!Lose
<1>13. CASE i # 0 /\ State(lost, f) # "whole"
  <2>1. ASSUME NEW h \in 1 .. N
        PROVE  InFlight[h] = Frame(framed, lost', ended + h)
    <3>1. State(lost', ended + h) = State(lost, ended + h)
      <4>1. i \in 1 .. SIZE
        BY <1>13, LinkAssumption
      <4> QED BY <1>6, <1>10, <1>13, <4>1, LossOfByte
    <3> QED BY <1>2, <3>1 DEF Frame
  <2>2. InFlight' = InFlight
    BY <1>9, <1>11, <2>1
  <2> QED BY <1>6, <2>2 DEF FrameLevel!linkVars
<1>14. CASE i = 0
  <2> DEFINE s == [h \in DOMAIN InFlight |->
                    IF h = k THEN [InFlight[h] EXCEPT !.state = "open"]
                    ELSE IF h = k + 1 /\ InFlight[h].state = "whole"
                    THEN [InFlight[h] EXCEPT !.state = "damaged"]
                    ELSE InFlight[h]]
  <2>1. s \in [1 .. N -> AnyFrame]
    BY <1>2, <1>11 DEF AnyFrame
  <2>2. ASSUME NEW h \in 1 .. N
        PROVE  s[h] = Frame(framed, lost', ended + h)
    <3>1. State(lost', ended + h) =
            IF h = k THEN "open"
            ELSE IF h = k + 1 /\ State(lost, ended + h) = "whole" THEN "damaged"
            ELSE State(lost, ended + h)
      BY <1>6, <1>10, <1>14, LossOfDelimiter
    <3>2. InFlight[h] = [value |-> framed[ended + h], state |-> State(lost, ended + h)]
      BY <1>2 DEF Frame
    <3>3. s[h] = IF h = k THEN [InFlight[h] EXCEPT !.state = "open"]
                 ELSE IF h = k + 1 /\ InFlight[h].state = "whole"
                 THEN [InFlight[h] EXCEPT !.state = "damaged"]
                 ELSE InFlight[h]
      BY <1>2
    <3> HIDE DEF s
    <3>4. s[h] = [value |-> framed[ended + h], state |-> State(lost', ended + h)]
      BY <3>1, <3>2, <3>3
    <3> QED BY <3>4 DEF Frame
  <2>3. InFlight' = s
    <3> HIDE DEF s
    <3> QED BY <1>9, <2>1, <2>2
  <2>4. InFlight[k].state # "open"
    BY <1>6, <1>8, <1>14 DEF State
  <2>5. FrameLevel!Open(k)
    BY <1>6, <2>3, <2>4 DEF FrameLevel!Open
  <2> QED BY <1>7, <2>5 DEF FrameLevel!Lose
<1> QED BY <1>12, <1>13, <1>14

\* A delimiter ends its frame and the open ones before it.
LEMMA DeliverArrives ==
    ASSUME IndInv, TypeOK', Deliver
    PROVE  FrameLevel!Arrive
<1> DEFINE N == Len(framed) - ended
           g == Stream[1][1]
           n == g - ended
<1>1. FlightType /\ TypeOK /\ BytesInv
  BY FlightOf DEF IndInv, TypeInv
<1>2. /\ ended \in Nat /\ Len(framed) \in Nat /\ N \in Nat
      /\ InFlight \in Seq(AnyFrame) /\ Len(InFlight) = N /\ DOMAIN InFlight = 1 .. N
      /\ \A i \in 1 .. N : InFlight[i] = Frame(framed, lost, ended + i)
  BY <1>1 DEF FlightType
<1>3. /\ Stream[1] = Head(rx_pipe) /\ Dropped(Stream, Stream', 1) /\ Stream[1] \in Bytes
      /\ g \in ended + 1 .. Len(framed) /\ Stream # <<>> /\ 1 \in 1 .. Len(Stream)
  BY <1>1, NextByte
<1>4. Stream[1][2] = 0 /\ Stream[1] = <<g, 0>> /\ g \in 1 .. MaxSent
  <2>1. Stream[1][2] = 0
    BY <1>3 DEF Deliver, NextIsDelimiter
  <2> QED BY <1>3, <2>1, ByteType
<1>5. n \in 1 .. N /\ ended + n = g /\ n \in DOMAIN InFlight
  BY <1>2, <1>3
<1>6. /\ InOrder(Stream) /\ OnTheWay(Stream, lost, ended, Len(framed))
      /\ Delimited(Stream, lost, ended, Len(framed))
      /\ Collected(Stream, framing, ended, Len(framed))
      /\ FirstFrame(Stream, lost, framing, ended, Len(framed))
  BY <1>1 DEF BytesInv, StreamInv
<1>7. \A b : In(Stream, b) => b = Stream[1] \/ Precedes(Stream[1], b)
  BY <1>1, <1>3, <1>6, StreamType, FirstOfStream
<1>8. \A i \in 1 .. N : InFlight[i].state = State(lost, ended + i)
  BY <1>2 DEF Frame
<1>9. /\ framed' = framed /\ lost' = lost /\ ended' = g
      /\ sent' = sent /\ sent_new' = sent_new
  BY <1>3 DEF Deliver, sender
<1> HIDE DEF N, n
<1>10. FrameLevel!Ends(n)
  <2>1. InFlight[n].state # "open"
    <3>1. <<g, 0>> \notin lost
      BY <1>3, <1>4, <1>6 DEF OnTheWay
    <3> QED BY <1>5, <1>8, <3>1 DEF State
  <2>2. ASSUME NEW i \in 1 .. n - 1
        PROVE  InFlight[i].state = "open"
    <3> DEFINE f == ended + i
    <3>1. f \in ended + 1 .. Len(framed) /\ f < g /\ i \in 1 .. N /\ f \in 1 .. MaxSent
      <4>1. n \in Nat /\ N \in Nat /\ g \in Nat /\ n <= N /\ i < n /\ i >= 1 /\ i \in Nat
        BY <1>2, <1>4, <1>5
      <4>2. g <= Len(framed) /\ g <= MaxSent /\ ended + n = g
        BY <1>2, <1>3, <1>4, <1>5
      <4> HIDE DEF g
      <4> QED BY <1>2, <4>1, <4>2, LinkAssumption
    <3> HIDE DEF f
    <3>2. ~In(Stream, <<f, 0>>)
      <4>1. <<f, 0>> # Stream[1]
        BY <1>4, <3>1
      <4>2. ~Precedes(Stream[1], <<f, 0>>)
        <5>1. Stream[1][1] = g /\ <<f, 0>>[1] = f /\ ~(g < f) /\ g # f
          BY <1>4, <3>1
        <5> HIDE DEF g
        <5> QED BY <5>1 DEF Precedes
      <4> QED BY <1>7, <4>1, <4>2
    <3>3. <<f, 0>> \in lost
      BY <1>6, <3>1, <3>2 DEF Delimited
    <3> QED BY <1>8, <3>1, <3>3 DEF State, f
  <2>3. InFlight' = SubSeq(InFlight, n + 1, Len(InFlight))
    <3> DEFINE s == SubSeq(InFlight, n + 1, Len(InFlight))
    <3>1. /\ s \in Seq(AnyFrame) /\ Len(s) = N - n
          /\ \A i \in 1 .. N - n : s[i] = InFlight[n + i]
      <4>1. n + 1 \in 1 .. Len(InFlight) + 1 /\ Len(InFlight) \in n .. Len(InFlight)
            /\ n \in Nat /\ N \in Nat /\ n <= N
        BY <1>2, <1>5
      <4>2. \A i \in n + 1 .. N : InFlight[i] \in AnyFrame
        BY <1>2, <1>5, ElementOfSeq
      <4> QED BY <1>2, <4>1, <4>2, SubSeqProperties
    <3> HIDE DEF s
    <3>2. Len(framed') - ended' = N - n
      BY <1>2, <1>5, <1>9 DEF N
    <3>3. ASSUME NEW i \in 1 .. N - n
          PROVE  s[i] = Frame(framed', lost', ended' + i)
      <4>1. n + i \in 1 .. N /\ ended + (n + i) = g + i
        BY <1>2, <1>3, <1>5
      <4> QED BY <1>2, <1>9, <3>1, <4>1
    <3>4. InFlight' = s
      BY <3>1, <3>2, <3>3, FlightAfter
    <3> QED BY <3>4 DEF s
  <2> QED BY <1>9, <2>1, <2>2, <2>3 DEF FrameLevel!Ends
<1>11. PICK v \in (IF TooShort THEN {Error} ELSE Decoded(framing)) :
            got' = IF v = Error THEN got ELSE v
  BY DEF Deliver
<1>12. framing \in Seq(Bytes) /\ Len(framing) \in Nat
  BY <1>1, LenProperties DEF TypeOK
<1>f. /\ framed \in Seq(1 .. MaxSent) /\ DOMAIN framed = 1 .. Len(framed)
      /\ Len(framed) <= MaxSent
  <2>1. framed \in Seq(1 .. MaxSent) /\ Len(framed) <= sent /\ sent \in 0 .. MaxSent
    BY <1>1 DEF TypeOK
  <2>2. DOMAIN framed = 1 .. Len(framed)
    BY <2>1, LenProperties
  <2> QED BY <1>2, <2>1, <2>2, LinkAssumption
\* A buffer that starts with a whole frame starts with one that ends now.
<1>13. ASSUME NEW f \in DOMAIN framed, StartsWith(framing, f)
       PROVE  f \in ended + 1 .. g /\ framing[1] = <<f, 1>>
  <2>1. f \in 1 .. Len(framed) /\ f \in 1 .. MaxSent
    BY <1>2, <1>f, LinkAssumption
  <2>2. 1 \in 1 .. SIZE /\ 1 \in 1 .. Len(framing)
    BY <1>12, <1>13, LinkAssumption DEF StartsWith
  <2>3. framing[1] = <<f, 1>>
    BY <1>13, <2>1, <2>2, EncodeType DEF StartsWith
  <2>4. framing[1][1] \in ended + 1 .. Len(framed) /\ Precedes(framing[1], Stream[1])
    BY <1>3, <1>6, <2>2 DEF Collected
  <2>5. f \in ended + 1 .. Len(framed)
    BY <2>3, <2>4
  <2>6. f < g \/ f = g
    BY <2>3, <2>4 DEF Precedes
  <2> QED BY <1>2, <1>3, <2>3, <2>5, <2>6
<1>14. CASE InFlight[n].state = "whole"
  <2>1. State(lost, g) = "whole"
    BY <1>5, <1>8, <1>14
  <2>2. Clean(lost, g)
    BY <2>1 DEF State
  <2>3. n = 1 /\ g = ended + 1 /\ ended < Len(framed)
    <3> SUFFICES ASSUME n # 1
                 PROVE  FALSE
      BY <1>2, <1>3, <1>5
    <3>1. n - 1 \in 1 .. n - 1 /\ n - 1 \in 1 .. N /\ ended + (n - 1) = g - 1
      BY <1>2, <1>4, <1>5
    <3>2. InFlight[n - 1].state = "open"
      BY <1>10, <3>1 DEF FrameLevel!Ends
    <3>3. State(lost, g - 1) = "open"
      BY <1>8, <3>1, <3>2
    <3>4. <<g - 1, 0>> \in lost
      BY <3>3 DEF State
    <3> QED BY <2>2, <3>4 DEF Clean
  <2>4. /\ Len(framing) <= SIZE
        /\ \A i \in 1 .. Len(framing) : framing[i] = <<g, i>>
        /\ \A i \in Len(framing) + 1 .. SIZE : In(Stream, <<g, i>>)
    BY <1>6, <2>2, <2>3 DEF FirstFrame
  <2>5. Len(framing) = SIZE
    <3> SUFFICES ASSUME Len(framing) # SIZE
                 PROVE  FALSE
      OBVIOUS
    <3>1. SIZE \in Len(framing) + 1 .. SIZE /\ SIZE \in 0 .. SIZE /\ SIZE # 0
      BY <1>12, <2>4, LinkAssumption
    <3>2. <<g, SIZE>> # Stream[1]
      BY <1>4, <3>1
    <3>3. Precedes(Stream[1], <<g, SIZE>>)
      BY <1>7, <2>4, <3>1, <3>2
    <3>4. Place(Stream[1]) = SIZE + 1 /\ Place(<<g, SIZE>>) = SIZE /\ <<g, SIZE>>[1] = g
      BY <1>4, <3>1, PlaceOf DEF Place
    <3>5. g \in Nat /\ Stream[1][1] = g
      BY <1>4
    <3> HIDE DEF g
    <3> QED BY <3>3, <3>4, <3>5, LinkAssumption DEF Precedes
  <2>6. ~TooShort /\ framing # <<>>
    <3>1. ~(Len(framing) <= 1) /\ Len(framing) # 0
      BY <2>5, LinkAssumption
    <3> QED BY <3>1, EmptySeq DEF TooShort
  <2>7. g \in DOMAIN framed /\ StartsWith(framing, g)
    <3>1. g \in DOMAIN framed
      BY <1>2, <1>3, <1>f
    <3>2. \A i \in 1 .. SIZE : framing[i] = Encode(g)[i]
      BY <1>4, <2>4, <2>5, EncodeType
    <3> QED BY <2>5, <3>1, <3>2, LinkAssumption DEF StartsWith
  <2>8. \A f \in DOMAIN framed : StartsWith(framing, f) => f = g
    BY <1>2, <1>13, <2>3
  <2>9. Decoded(framing) = {framed[g]}
    BY <2>5, <2>6, <2>7, <2>8 DEF Decoded
  <2>10. got' = framed[g]
    <3>1. framed[g] # Error
      <4>1. framed[g] \in 1 .. MaxSent
        BY <1>f, <2>7, ElementOfSeq
      <4> QED BY <4>1 DEF Error
    <3> QED BY <1>11, <2>6, <2>9, <3>1
  <2>11. InFlight[n].value = framed[g]
    BY <1>2, <1>5 DEF Frame
  <2>12. FrameLevel!Deliver(n)
    BY <1>10, <1>14, <2>10, <2>11 DEF FrameLevel!Deliver
  <2> QED BY <1>5, <2>12 DEF FrameLevel!Arrive
<1>15. CASE InFlight[n].state # "whole" /\ v = Error
  <2>1. InFlight[n].state = "damaged"
    BY <1>5, <1>8, <1>10, <1>15 DEF State, FrameLevel!Ends
  <2>2. got' = got
    BY <1>11, <1>15
  <2>3. FrameLevel!Reject(n)
    BY <1>10, <2>1, <2>2 DEF FrameLevel!Reject
  <2> QED BY <1>5, <2>3 DEF FrameLevel!Arrive
<1>16. CASE InFlight[n].state # "whole" /\ v # Error
  <2>1. got' = v /\ v \in Decoded(framing)
    BY <1>11, <1>16
  <2>2. v = Garbage \/ \E f \in DOMAIN framed : StartsWith(framing, f) /\ v = framed[f]
    BY <1>16, <2>1 DEF Decoded
  <2>3. v \in {InFlight[i].value : i \in 1 .. n} \cup {Garbage}
    <3>1. ASSUME NEW f \in DOMAIN framed, StartsWith(framing, f), v = framed[f]
          PROVE  v \in {InFlight[i].value : i \in 1 .. n}
      <4>1. f \in ended + 1 .. g
        BY <1>13, <3>1
      <4>2. f - ended \in 1 .. n /\ f - ended \in 1 .. N /\ ended + (f - ended) = f
        BY <1>2, <1>4, <1>5, <4>1
      <4>3. InFlight[f - ended].value = framed[f]
        BY <1>2, <4>2 DEF Frame
      <4> QED BY <3>1, <4>2, <4>3
    <3> QED BY <2>2, <3>1
  <2>4. FrameLevel!Deliver(n)
    BY <1>10, <1>16, <2>1, <2>3 DEF FrameLevel!Deliver
  <2> QED BY <1>5, <2>4 DEF FrameLevel!Arrive
<1> QED BY <1>14, <1>15, <1>16

\* Moving and collecting bytes changes nothing in the link of frames.
LEMMA MovesAreHidden ==
    ASSUME Write \/ Transmit \/ Receive \/ Collect \/ UNCHANGED vars
    PROVE  UNCHANGED FrameLevel!linkVars
<1>1. UNCHANGED <<sent, sent_new, framed, ended, lost, got>>
  BY DEF Write, Transmit, Receive, Collect, vars, sender, receiver
<1>2. UNCHANGED InFlight
  BY <1>1 DEF InFlight, StateOf, Undamaged
<1> QED BY <1>1, <1>2 DEF FrameLevel!linkVars

\* A new value is posted.
LEMMA SendPosts ==
    ASSUME TypeOK, Send
    PROVE  \E v \in 1 .. MaxSent : FrameLevel!Post(v)
<1>1. /\ sent' = sent + 1 /\ sent_new' = TRUE
      /\ UNCHANGED <<framed, ended, lost, got>>
  BY DEF Send, receiver
<1>2. UNCHANGED InFlight
  BY <1>1 DEF InFlight, StateOf, Undamaged
<1>3. sent + 1 \in 1 .. MaxSent
  BY LinkAssumption DEF Send, TypeOK
<1>4. FrameLevel!Post(sent + 1)
  BY <1>1, <1>2 DEF FrameLevel!Post
<1> QED BY <1>3, <1>4

\* Pipes, UARTs and the framing buffer implement the link of frames that
\* Exchange is built on, for every size of frames, pipes and buffer: no frame
\* is reordered, repeated or lost without a lost byte, and resynchronising on
\* the next delimiter confines a loss to its frame and the one behind it.
THEOREM ImplementsFrames ==
    Spec => LinksFrames
<1>1. Init => FrameLevel!LinkInit
  <2> SUFFICES ASSUME Init
               PROVE  FrameLevel!LinkInit
    OBVIOUS
  <2>1. TypeOK
    BY TypeInit
  <2>2. FlightType
    BY <2>1, FlightOf
  <2>3. Len(InFlight) = 0
    <3>1. Len(<<>>) = 0 /\ 0 - 0 = 0
      BY EmptySeq
    <3>2. framed = <<>> /\ ended = 0
      BY DEF Init
    <3> QED BY <2>2, <3>1, <3>2 DEF FlightType
  <2>4. InFlight = <<>>
    BY <2>2, <2>3, EmptySeq DEF FlightType
  <2> QED BY <2>4 DEF Init, FrameLevel!LinkInit
<1>2. IndInv /\ IndInv' /\ [Next]_vars => [FrameLevel!LinkNext]_(FrameLevel!linkVars)
  <2> SUFFICES ASSUME IndInv, TypeOK', [Next]_vars
               PROVE  FrameLevel!LinkNext \/ UNCHANGED FrameLevel!linkVars
    BY DEF IndInv, TypeInv
  <2>1. CASE Send
    <3>1. TypeOK
      BY DEF IndInv, TypeInv
    <3> QED BY <2>1, <3>1, SendPosts DEF FrameLevel!LinkNext
  <2>2. CASE Serialise
    BY <2>2, SerialiseTakes DEF FrameLevel!LinkNext
  <2>3. CASE Lose
    BY <2>3, LossHarmsFrame DEF FrameLevel!LinkNext
  <2>4. CASE Deliver
    BY <2>4, DeliverArrives DEF FrameLevel!LinkNext
  <2>5. CASE Write \/ Transmit \/ Receive \/ Collect \/ UNCHANGED vars
    BY <2>5, MovesAreHidden
  <2> QED BY <2>1, <2>2, <2>3, <2>4, <2>5 DEF Next
<1> QED BY Invariance, <1>1, <1>2, PTL DEF Spec, LinksFrames, FrameLevel!LinkSpec
=============================================================================
