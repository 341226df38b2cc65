--------------------------- MODULE WsStreamProofs ---------------------------
(***************************************************************************)
(* WsEndpoint refines MessageStreams: for all messages that do not end     *)
(* with a full frame, any number of them, every frame size, with closes,   *)
(* failures, stops and foreign control frames, each message reaches the    *)
(* user of the other side at most once, whole and in the order of sending. *)
(*                                                                         *)
(* The hypothesis NoFullFrames is needed: of a message whose size is a     *)
(* multiple of max_frame_size no frame has the fin bit (message_sender.hpp,*)
(* max_frame_size > length), and the next message is appended to it.       *)
(*                                                                         *)
(* The argument follows the bytes.  A cursor is a byte of a message in the *)
(* order of sending.  The invariant StreamInv says that what the reader    *)
(* has, the read that is due, the frames under way and the frame that is   *)
(* being written lead from one cursor to the next without a gap, and that  *)
(* the queue goes on where the frame ends.  Once the connection is lost    *)
(* the sender may start a message again, but nothing it sends arrives.     *)
(***************************************************************************)
EXTENDS WsEndpointProofs

\* The size of a message that does not end with a full frame.
Uneven(n) == \A k \in Nat \ {0} : n # k * MaxFrame

\* No user sends a message whose size is a positive multiple of max_frame_size.
NoFullFrames == \A n \in Sizes : Uneven(n)

-----------------------------------------------------------------------------
(* Positions in a stream of messages *)

\* A byte of a message in the order of sending.
Cursors == [message : Nat, bytes : Nat]
At(m, b) == [message |-> m, bytes |-> b]

\* f carries the bytes of S that follow the cursor c, and After(f, c) is where
\* they end.  Control frames carry none.
Cuts(f, S, c) == IsData(f) =>
  /\ c.message \in DOMAIN S
  /\ c.bytes + Len(f.data) <= Len(S[c.message])
  /\ f.data = SubSeq(S[c.message], c.bytes + 1, c.bytes + Len(f.data))
  /\ f.fin <=> c.bytes + Len(f.data) = Len(S[c.message])

After(f, c) ==
  IF ~IsData(f) THEN c
  ELSE IF f.fin THEN At(c.message + 1, 0) ELSE At(c.message, c.bytes + Len(f.data))

\* The frames n carry the bytes of S from the cursor c to the cursor d, in order
\* and without a gap.
Chain(n, S, c, d) == \E cur \in [1..(Len(n) + 1) -> Cursors] :
  /\ cur[1] = c /\ cur[Len(n) + 1] = d
  /\ \A i \in 1..Len(n) : Cuts(n[i], S, cur[i]) /\ cur[i + 1] = After(n[i], cur[i])

\* A frame ends at a cursor.
LEMMA AfterType ==
  ASSUME NEW f \in Frames, NEW c \in Cursors
  PROVE  After(f, c) \in Cursors
<1>1. Len(f.data) \in Nat
  BY DEF Frames, Payloads
<1> QED
  BY <1>1 DEF After, Cursors, At

\* No frames, no bytes.
LEMMA ChainEmpty ==
  ASSUME NEW S, NEW c \in Cursors, NEW d
  PROVE  Chain(<<>>, S, c, d) <=> c = d
<1>1. Len(<<>>) = 0 /\ 1..0 = {}
  OBVIOUS
<1>2. ASSUME c = d
      PROVE  Chain(<<>>, S, c, d)
  <2> DEFINE cur == [i \in 1..1 |-> c]
  <2>1. cur \in [1..(Len(<<>>) + 1) -> Cursors] /\ cur[1] = c
    OBVIOUS
  <2> HIDE DEF cur
  <2> QED
    BY <1>1, <1>2, <2>1 DEF Chain
<1> QED
  BY <1>1, <1>2 DEF Chain

\* The first frame of a chain carries the first bytes, the others what follows.
LEMMA ChainHead ==
  ASSUME NEW n \in Seq(Frames), n # <<>>, NEW S, NEW c \in Cursors, NEW d,
         Chain(n, S, c, d)
  PROVE  Cuts(Head(n), S, c) /\ Chain(Tail(n), S, After(Head(n), c), d)
<1>1. /\ Len(n) \in Nat /\ Len(n) >= 1 /\ Head(n) = n[1]
      /\ Len(Tail(n)) = Len(n) - 1
      /\ \A i \in 1..(Len(n) - 1) : Tail(n)[i] = n[i + 1]
  OBVIOUS
<1>2. PICK cur \in [1..(Len(n) + 1) -> Cursors] :
        /\ cur[1] = c /\ cur[Len(n) + 1] = d
        /\ \A i \in 1..Len(n) : Cuts(n[i], S, cur[i]) /\ cur[i + 1] = After(n[i], cur[i])
  BY DEF Chain
<1> DEFINE rest == [i \in 1..Len(n) |-> cur[i + 1]]
<1>3. rest \in [1..(Len(Tail(n)) + 1) -> Cursors]
  BY <1>1, <1>2
<1>4. 1 \in 1..Len(n) /\ 1 + 1 = 2 /\ (Len(n) - 1) + 1 = Len(n)
  BY <1>1
<1>5. rest[1] = After(Head(n), c) /\ rest[Len(Tail(n)) + 1] = d
  BY <1>1, <1>2, <1>4
<1>6. ASSUME NEW i \in 1..Len(Tail(n))
      PROVE  Cuts(Tail(n)[i], S, rest[i]) /\ rest[i + 1] = After(Tail(n)[i], rest[i])
  <2>1. /\ i \in 1..Len(n) /\ i + 1 \in 1..Len(n) /\ Tail(n)[i] = n[i + 1]
    BY <1>1, <1>6
  <2>2. /\ Cuts(n[i + 1], S, cur[i + 1])
        /\ cur[(i + 1) + 1] = After(n[i + 1], cur[i + 1])
    BY <1>2, <2>1
  <2> QED
    BY <2>1, <2>2
<1> HIDE DEF rest
<1>7. Chain(Tail(n), S, After(Head(n), c), d)
  BY <1>3, <1>5, <1>6 DEF Chain
<1> QED
  BY <1>1, <1>2, <1>4, <1>7

\* A frame that carries what comes next goes behind the others.
LEMMA ChainAppend ==
  ASSUME NEW n \in Seq(Frames), NEW f \in Frames, NEW S, NEW c, NEW d \in Cursors,
         Chain(n, S, c, d), Cuts(f, S, d)
  PROVE  Chain(Append(n, f), S, c, After(f, d))
<1> DEFINE m == Append(n, f)
<1>1. /\ Len(n) \in Nat /\ Len(m) = Len(n) + 1 /\ m[Len(n) + 1] = f
      /\ \A i \in 1..Len(n) : m[i] = n[i]
  OBVIOUS
<1> HIDE DEF m
<1>2. PICK cur \in [1..(Len(n) + 1) -> Cursors] :
        /\ cur[1] = c /\ cur[Len(n) + 1] = d
        /\ \A i \in 1..Len(n) : Cuts(n[i], S, cur[i]) /\ cur[i + 1] = After(n[i], cur[i])
  BY DEF Chain
<1> DEFINE more == [i \in 1..(Len(n) + 2) |-> IF i = Len(n) + 2 THEN After(f, d) ELSE cur[i]]
<1>3. more \in [1..(Len(m) + 1) -> Cursors]
  BY <1>1, <1>2, AfterType
<1>4. /\ \A i \in 1..(Len(n) + 1) : more[i] = cur[i]
      /\ more[Len(n) + 2] = After(f, d)
  BY <1>1
<1> HIDE DEF more
<1>5. more[1] = c /\ more[Len(m) + 1] = After(f, d)
  BY <1>1, <1>2, <1>4
<1>6. ASSUME NEW i \in 1..Len(m)
      PROVE  Cuts(m[i], S, more[i]) /\ more[i + 1] = After(m[i], more[i])
  <2>1. CASE i \in 1..Len(n)
    <3>1. i + 1 \in 1..(Len(n) + 1) /\ i \in 1..(Len(n) + 1)
      BY <1>1, <2>1
    <3> QED
      BY <1>1, <1>2, <1>4, <2>1, <3>1
  <2>2. CASE i = Len(n) + 1
    BY <1>1, <1>2, <1>4, <2>2
  <2> QED
    BY <1>1, <2>1, <2>2
<1> QED
  BY <1>3, <1>5, <1>6 DEF Chain, m

\* Messages that are sent later change nothing.
LEMMA CutsMore ==
  ASSUME NEW S \in Seq(Payloads), NEW p \in Payloads, NEW f, NEW c, Cuts(f, S, c)
  PROVE  Cuts(f, Append(S, p), c)
<1>1. \A i \in DOMAIN S : i \in DOMAIN Append(S, p) /\ Append(S, p)[i] = S[i]
  OBVIOUS
<1> QED
  BY <1>1 DEF Cuts

\* Messages that are sent later do not change what the frames carry either.
LEMMA ChainMore ==
  ASSUME NEW S \in Seq(Payloads), NEW p \in Payloads, NEW n, NEW c, NEW d,
         Chain(n, S, c, d)
  PROVE  Chain(n, Append(S, p), c, d)
BY CutsMore DEF Chain

-----------------------------------------------------------------------------
(* The frames of a message *)

\* w is the write of a fragment of the message M: what is left is the rest of M.
Begun(w, M) == Len(M) - Len(w.rest) - Len(w.frame.data)

Part(w, M) ==
  LET a == Begun(w, M)
      b == a + Len(w.frame.data)
  IN /\ a \in Nat
     /\ w.frame.data = SubSeq(M, a + 1, b) /\ w.rest = SubSeq(M, b + 1, Len(M))
     /\ w.frame.fin <=> w.rest = <<>>
     /\ Uneven(Len(w.rest))

\* Slices of a message: a slice of its rest is a slice of the message, and two that
\* meet are one.
LEMMA Slices ==
  ASSUME NEW M \in Payloads, NEW a \in 0..Len(M), NEW b \in a..Len(M)
  PROVE  /\ SubSeq(M, a + 1, b) \in Payloads /\ Len(SubSeq(M, a + 1, b)) = b - a
         /\ SubSeq(SubSeq(M, a + 1, Len(M)), 1, b - a) = SubSeq(M, a + 1, b)
         /\ SubSeq(SubSeq(M, a + 1, Len(M)), b - a + 1, Len(M) - a) =
              SubSeq(M, b + 1, Len(M))
         /\ SubSeq(M, 1, a) \o SubSeq(M, a + 1, b) = SubSeq(M, 1, b)
<1>1. M \in Seq(Nat) /\ Len(M) \in Nat
  BY DEF Payloads
<1>2. ASSUME NEW i \in 0..Len(M), NEW j \in i..Len(M)
      PROVE  /\ SubSeq(M, i + 1, j) \in Seq(Nat) /\ Len(SubSeq(M, i + 1, j)) = j - i
             /\ \A x \in 1..(j - i) : SubSeq(M, i + 1, j)[x] = M[i + x]
  <2>1. \A x \in (i + 1)..j : M[x] \in Nat
    BY <1>1, <1>2
  <2> QED
    BY <1>1, <1>2, <2>1, SubSeqProperties
<1> DEFINE R == SubSeq(M, a + 1, Len(M))
<1>3. /\ R \in Seq(Nat) /\ Len(R) = Len(M) - a
      /\ \A x \in 1..(Len(M) - a) : R[x] = M[a + x]
  <2>1. a \in 0..Len(M) /\ Len(M) \in a..Len(M)
    BY <1>1
  <2> DEFINE k == Len(M)
  <2>2. k \in a..Len(M)
    BY <2>1
  <2> HIDE DEF k
  <2>3. /\ SubSeq(M, a + 1, k) \in Seq(Nat) /\ Len(SubSeq(M, a + 1, k)) = k - a
        /\ \A x \in 1..(k - a) : SubSeq(M, a + 1, k)[x] = M[a + x]
    BY <1>2, <2>1, <2>2
  <2> QED
    BY <2>3 DEF k
<1> HIDE DEF R
<1>4. ASSUME NEW i \in 0..Len(R), NEW j \in i..Len(R)
      PROVE  SubSeq(R, i + 1, j) = SubSeq(M, a + i + 1, a + j)
  <2>1. /\ SubSeq(R, i + 1, j) \in Seq(Nat) /\ Len(SubSeq(R, i + 1, j)) = j - i
        /\ \A x \in 1..(j - i) : SubSeq(R, i + 1, j)[x] = R[i + x]
    <3>1. \A x \in (i + 1)..j : R[x] \in Nat
      BY <1>1, <1>3, <1>4
    <3> QED
      BY <1>1, <1>3, <1>4, <3>1, SubSeqProperties
  <2>2. a + i \in 0..Len(M) /\ a + j \in (a + i)..Len(M) /\ (a + j) - (a + i) = j - i
    BY <1>1, <1>3, <1>4
  <2>3. /\ SubSeq(M, (a + i) + 1, a + j) \in Seq(Nat)
        /\ Len(SubSeq(M, (a + i) + 1, a + j)) = j - i
        /\ \A x \in 1..(j - i) : SubSeq(M, (a + i) + 1, a + j)[x] = M[(a + i) + x]
    BY <1>2, <2>2
  <2>4. ASSUME NEW x \in 1..(j - i)
        PROVE  R[i + x] = M[(a + i) + x]
    <3>1. i + x \in 1..(Len(M) - a) /\ a + (i + x) = (a + i) + x
      BY <1>1, <1>3, <1>4
    <3> QED
      BY <1>3, <3>1
  <2>5. \A x \in 1..(j - i) : SubSeq(R, i + 1, j)[x] = SubSeq(M, (a + i) + 1, a + j)[x]
    BY <2>1, <2>3, <2>4
  <2> QED
    BY <2>1, <2>3, <2>5, SeqEqual
<1>5. SubSeq(R, 1, b - a) = SubSeq(M, a + 1, b)
  BY <1>1, <1>3, <1>4
<1>6. SubSeq(R, b - a + 1, Len(M) - a) = SubSeq(M, b + 1, Len(M))
  BY <1>1, <1>3, <1>4
<1>7. SubSeq(M, 1, a) \o SubSeq(M, a + 1, b) = SubSeq(M, 1, b)
  BY <1>1, ConcatAdjacentSubSeq
<1>8. SubSeq(M, a + 1, b) \in Payloads /\ Len(SubSeq(M, a + 1, b)) = b - a
  BY <1>2 DEF Payloads
<1> QED
  BY <1>5, <1>6, <1>7, <1>8 DEF R

\* Cutting off a full frame leaves something, and that does not end with a full
\* frame either.
LEMMA UnevenRest ==
  ASSUME NEW n \in Nat, Uneven(n), n >= MaxFrame
  PROVE  n - MaxFrame \in Nat \ {0} /\ Uneven(n - MaxFrame)
<1>1. MaxFrame \in Nat \ {0}
  BY WsAssumption
<1>2. n # 1 * MaxFrame
  BY DEF Uneven
<1>3. ASSUME NEW k \in Nat \ {0}, n - MaxFrame = k * MaxFrame
      PROVE  FALSE
  <2>1. (k + 1) * MaxFrame = k * MaxFrame + MaxFrame
    BY <1>1
  <2>2. k * MaxFrame \in Nat
    BY <1>1
  <2>3. n = (k + 1) * MaxFrame
    BY <1>1, <1>3, <2>1, <2>2
  <2> QED
    BY <2>3 DEF Uneven
<1> QED
  BY <1>1, <1>2, <1>3 DEF Uneven

\* What is left of M after a bytes.
RestOf(M, a) == SubSeq(M, a + 1, Len(M))

\* The next fragment of M, when a bytes of it have been written.
LEMMA FragmentIsPart ==
  ASSUME NEW M \in Payloads, NEW a \in 0..Len(M), Uneven(Len(M) - a),
         NEW R \in Payloads, R = RestOf(M, a),
         NEW op \in {"text", "continuation"}, NEW w, w = Fragment(op, R)
  PROVE  /\ w \in InFlight /\ IsData(w.frame)
         /\ Part(w, M) /\ Begun(w, M) = a
<1>0. /\ MaxFrame \in Nat \ {0} /\ Len(M) \in Nat /\ M \in Seq(Nat)
      /\ Len(M) - a \in Nat /\ a \in Nat /\ op \in WriteOps
  BY WsAssumption DEF Payloads, WriteOps
<1>1. Len(R) = Len(M) - a
  <2>1. Len(M) \in a..Len(M)
    BY <1>0
  <2> QED
    BY <2>1, Slices DEF RestOf
<1>2. /\ w \in InFlight /\ w.frame.op = op
      /\ (w.frame.fin <=> MaxFrame > Len(R))
      /\ MaxFrame > Len(R) => w.frame.data = R /\ w.rest = <<>>
      /\ MaxFrame <= Len(R) => /\ w.frame.data = SubSeq(R, 1, MaxFrame)
                               /\ w.rest = SubSeq(R, MaxFrame + 1, Len(R))
  BY <1>0, FragmentOf
<1>3. IsData(w.frame)
  BY <1>2 DEF IsData
<1>4. CASE MaxFrame > Len(R)
  <2>0. w.frame.data = R /\ w.rest = <<>> /\ w.frame.fin /\ Len(<<>>) = 0
    BY <1>2, <1>4
  <2>1. Len(w.rest) = 0 /\ Begun(w, M) = a /\ a + Len(w.frame.data) = Len(M)
    <3>1. Len(w.rest) = 0 /\ Len(w.frame.data) = Len(M) - a
      BY <1>1, <2>0
    <3>2. Len(M) - 0 - (Len(M) - a) = a /\ a + (Len(M) - a) = Len(M)
      BY <1>0
    <3> QED
      BY <3>1, <3>2 DEF Begun
  <2>2. SubSeq(M, Len(M) + 1, Len(M)) = <<>>
    BY <1>0, <1>1, SubSeqEmpty
  <2>3. Uneven(0)
    BY <1>0, <1>1 DEF Uneven
  <2>4. Part(w, M)
    BY <1>0, <2>0, <2>1, <2>2, <2>3 DEF Part, RestOf
  <2> QED
    BY <1>2, <1>3, <2>1, <2>4
<1>5. CASE MaxFrame <= Len(R)
  <2> DEFINE b == a + MaxFrame
  <2>1. b \in a..Len(M) /\ b - a = MaxFrame /\ b \in 0..Len(M)
    BY <1>0, <1>1, <1>5
  <2> HIDE DEF b
  <2>2. /\ w.frame.data = SubSeq(M, a + 1, b) /\ Len(w.frame.data) = MaxFrame
        /\ w.rest = SubSeq(M, b + 1, Len(M))
    <3>1. /\ w.frame.data = SubSeq(R, 1, b - a)
          /\ w.rest = SubSeq(R, b - a + 1, Len(M) - a)
      BY <1>1, <1>2, <1>5, <2>1
    <3>2. /\ SubSeq(SubSeq(M, a + 1, Len(M)), 1, b - a) = SubSeq(M, a + 1, b)
          /\ SubSeq(SubSeq(M, a + 1, Len(M)), b - a + 1, Len(M) - a) =
               SubSeq(M, b + 1, Len(M))
          /\ Len(SubSeq(M, a + 1, b)) = b - a
      BY <2>1, Slices
    <3> QED
      BY <2>1, <3>1, <3>2 DEF RestOf
  <2>3. Len(w.rest) = Len(M) - b
    <3>1. Len(M) \in b..Len(M)
      BY <1>0, <2>1
    <3> QED
      BY <2>1, <2>2, <3>1, Slices
  <2>4. Begun(w, M) = a /\ a + Len(w.frame.data) = b
    <3>1. /\ Len(M) - (Len(M) - b) - MaxFrame = a /\ a + MaxFrame = b
      BY <1>0, <2>1
    <3> QED
      BY <2>2, <2>3, <3>1 DEF Begun
  <2>5. Len(M) - b \in Nat \ {0} /\ Uneven(Len(M) - b)
    <3> DEFINE n == Len(M) - a
    <3>1. n \in Nat /\ n >= MaxFrame /\ n - MaxFrame = Len(M) - b /\ Uneven(n)
      BY <1>0, <1>1, <1>5, <2>1
    <3> HIDE DEF n
    <3>2. n - MaxFrame \in Nat \ {0} /\ Uneven(n - MaxFrame)
      BY <3>1, UnevenRest
    <3> QED
      BY <3>1, <3>2
  <2>6. w.rest # <<>> /\ ~w.frame.fin
    <3>1. Len(w.rest) # 0 /\ ~(MaxFrame > Len(R))
      BY <1>0, <1>1, <1>5, <2>3, <2>5
    <3> QED
      BY <1>2, <3>1
  <2>7. Part(w, M)
    BY <1>0, <1>1, <2>2, <2>3, <2>4, <2>5, <2>6 DEF Part
  <2> QED
    BY <1>2, <1>3, <2>4, <2>7
<1> QED
  BY <1>0, <1>1, <1>4, <1>5

-----------------------------------------------------------------------------
(* The sender *)

\* The queue holds the last messages the user handed over.
Queued(s, S) ==
  /\ Len(s.queue) <= Len(S)
  /\ \A i \in DOMAIN s.queue : s.queue[i] = S[Len(S) - Len(s.queue) + i]
  /\ \A i \in DOMAIN s.queue : Uneven(Len(s.queue[i]))

DataWrite(s) == s.writes # <<>> /\ IsData(Head(s.writes).frame)
NextUp(s, S) == Len(S) - Len(s.queue) + 1

\* The cursor of the next frame that the socket takes.
Offered(s, q, S) ==
  IF ~DataWrite(s) THEN At(NextUp(s, S), 0)
  ELSE LET w == Head(s.writes)
           c == At(NextUp(s, S), Begun(w, Head(s.queue)))
       IN IF Has(q, {"wrote"}) THEN After(w.frame, c) ELSE c

\* The write in flight is of the message at the head of the queue.
WriteOK(s) == DataWrite(s) => Part(Head(s.writes), Head(s.queue))

\* What a step of the sender, which puts nothing on the network, preserves.
SenderKept(s, q, S, t, r, T) ==
  /\ Queued(t, T) /\ WriteOK(t)
  /\ Offered(t, r, T) = Offered(s, q, S)

\* The message at the head of the queue is the next in the order of sending.
LEMMA QueueFacts ==
  ASSUME NEW s \in Endpoints, NEW S \in Seq(Payloads), Queued(s, S)
  PROVE  /\ Len(s.queue) \in Nat /\ Len(S) \in Nat /\ NextUp(s, S) \in Nat
         /\ s.queue \in Seq(Payloads)
         /\ s.queue # <<>> =>
              /\ Head(s.queue) \in Payloads /\ Uneven(Len(Head(s.queue)))
              /\ NextUp(s, S) \in DOMAIN S /\ S[NextUp(s, S)] = Head(s.queue)
<1>1. s.queue \in Seq(Payloads)
  BY DEF Endpoints
<1>2. Len(s.queue) \in Nat /\ Len(S) \in Nat
  BY <1>1
<1>3. NextUp(s, S) \in Nat
  BY <1>2 DEF NextUp, Queued
<1>4. ASSUME s.queue # <<>>
      PROVE  /\ Head(s.queue) \in Payloads /\ Uneven(Len(Head(s.queue)))
             /\ NextUp(s, S) \in DOMAIN S /\ S[NextUp(s, S)] = Head(s.queue)
  <2>1. 1 \in DOMAIN s.queue /\ Head(s.queue) = s.queue[1] /\ Len(s.queue) >= 1
    BY <1>1, <1>4
  <2>2. /\ s.queue[1] = S[Len(S) - Len(s.queue) + 1] /\ Uneven(Len(s.queue[1]))
        /\ Len(s.queue) <= Len(S)
    BY <2>1 DEF Queued
  <2>3. Len(S) - Len(s.queue) + 1 \in 1..Len(S)
    BY <1>2, <2>1, <2>2
  <2>4. DOMAIN S = 1..Len(S)
    OBVIOUS
  <2>5. s.queue[1] \in Payloads
    BY <1>1, <2>1
  <2> QED
    BY <2>1, <2>2, <2>3, <2>4, <2>5 DEF NextUp
<1> QED
  BY <1>1, <1>2, <1>3, <1>4

\* What the sender offers is at a cursor.
LEMMA OfferedType ==
  ASSUME NEW s \in Endpoints, NEW S \in Seq(Payloads), NEW q,
         Queued(s, S), WriteOK(s)
  PROVE  Offered(s, q, S) \in Cursors
<1>1. NextUp(s, S) \in Nat
  BY QueueFacts
<1>2. CASE ~DataWrite(s)
  BY <1>1, <1>2 DEF Offered, Cursors, At
<1>3. CASE DataWrite(s)
  <2> DEFINE w == Head(s.writes)
             c == At(NextUp(s, S), Begun(w, Head(s.queue)))
  <2>1. s.writes \in Seq(InFlight) /\ s.writes # <<>>
    BY <1>3 DEF Endpoints, InFlight, DataWrite
  <2>2. w.frame \in Frames
    <3>1. w \in InFlight
      BY <2>1
    <3> QED
      BY <3>1 DEF InFlight
  <2>3. c \in Cursors
    BY <1>1, <1>3 DEF WriteOK, Part, Cursors, At
  <2>4. Offered(s, q, S) = IF Has(q, {"wrote"}) THEN After(w.frame, c) ELSE c
    BY <1>3 DEF Offered
  <2> HIDE DEF w, c
  <2> QED
    BY <2>2, <2>3, <2>4, AfterType
<1> QED
  BY <1>2, <1>3

\* A step that leaves the queue and the writes alone.
LEMMA LoopAlone ==
  ASSUME NEW s, NEW t, NEW q, NEW r, NEW S, Queued(s, S), WriteOK(s),
         t.queue = s.queue, t.writes = s.writes,
         Has(r, {"wrote"}) <=> Has(q, {"wrote"})
  PROVE  SenderKept(s, q, S, t, r, S)
<1>1. Queued(t, S)
  BY DEF Queued
<1>2. DataWrite(t) <=> DataWrite(s)
  BY DEF DataWrite
<1>3. WriteOK(t)
  BY <1>2 DEF WriteOK
<1>4. NextUp(t, S) = NextUp(s, S)
  BY DEF NextUp
<1>5. Offered(t, r, S) = Offered(s, q, S)
  BY <1>2, <1>4 DEF Offered
<1> QED
  BY <1>1, <1>3, <1>5 DEF SenderKept

\* A turn of the loop starts the message at the head of the queue from its
\* first byte.
LEMMA LoopTurned ==
  ASSUME NEW s \in Endpoints, NEW t, NEW q, NEW S \in Seq(Payloads), Queued(s, S),
         s.writes = <<>>, Turned(s, t), ~Has(q, WriteKinds)
  PROVE  SenderKept(s, q, S, t, q, S)
<1>1. t.queue = s.queue
  BY DEF Turned, Kept
<1>2. Queued(t, S) /\ NextUp(t, S) = NextUp(s, S)
  BY <1>1 DEF Queued, NextUp
<1>3. Offered(s, q, S) = At(NextUp(s, S), 0) /\ ~Has(q, {"wrote"})
  BY DEF Offered, DataWrite, Has, WriteKinds
<1>4. CASE ~DataWrite(t)
  BY <1>2, <1>3, <1>4 DEF Offered, SenderKept, WriteOK
<1>5. CASE DataWrite(t)
  <2> DEFINE M == Head(s.queue)
             w == Fragment("text", M)
  <2>1. t.writes = <<NextWrite(s)>> /\ (IsSendingClose(s) \/ s.queue # <<>>)
    BY <1>5 DEF DataWrite, Turned
  <2>2. Head(t.writes) = NextWrite(s)
    BY <2>1
  <2>3. ~IsSendingClose(s)
    <3>1. <<>> \in Payloads
      BY DEF Payloads
    <3>2. Fragment("close", <<>>).frame.op = "close"
      BY <3>1, FragmentOf DEF WriteOps
    <3> QED
      BY <1>5, <2>2, <3>2 DEF DataWrite, IsData, NextWrite
  <2>4. Head(t.writes) = w /\ s.queue # <<>>
    BY <2>1, <2>2, <2>3 DEF NextWrite
  <2>5. M \in Payloads /\ Uneven(Len(M))
    BY <2>4, QueueFacts
  <2> HIDE DEF M
  <2>6. Len(M) \in Nat /\ Len(M) - 0 = Len(M) /\ 0 \in 0..Len(M)
    BY <2>5 DEF Payloads
  <2>7. M = RestOf(M, 0)
    <3>1. SubSeq(M, 1, Len(M)) = M
      BY <2>5, SubSeqFull DEF Payloads
    <3>2. 0 + 1 = 1
      OBVIOUS
    <3> QED
      BY <3>1, <3>2 DEF RestOf
  <2>8. Part(w, M) /\ Begun(w, M) = 0
    BY <2>5, <2>6, <2>7, FragmentIsPart
  <2> HIDE DEF w
  <2>9. WriteOK(t)
    BY <1>1, <2>4, <2>8 DEF WriteOK, M
  <2>10. Offered(t, q, S) = At(NextUp(s, S), 0)
    BY <1>1, <1>2, <1>3, <1>5, <2>4, <2>8 DEF Offered, M
  <2> QED
    BY <1>2, <1>3, <2>9, <2>10 DEF SenderKept
<1> QED
  BY <1>4, <1>5

\* Starting the loop changes nothing of what comes next.
LEMMA LoopStarted ==
  ASSUME NEW s \in Endpoints, NEW q, NEW S \in Seq(Payloads),
         Queued(s, S), WriteOK(s), SideInv(s, q)
  PROVE  SenderKept(s, q, S, StartSendQueue(s), q, S)
<1> DEFINE t == StartSendQueue(s)
<1>1. ~s.running => s.writes = <<>> /\ ~Has(q, WriteKinds)
  BY DEF SideInv
<1>2. \/ t = s
      \/ ~s.running /\ Turned(s, t)
  BY <1>1, LoopStarts
<1> HIDE DEF t
<1>3. SenderKept(s, q, S, s, q, S)
  BY DEF SenderKept
<1>4. ~s.running /\ Turned(s, t) => SenderKept(s, q, S, t, q, S)
  BY <1>1, LoopTurned
<1>5. SenderKept(s, q, S, t, q, S)
  BY <1>2, <1>3, <1>4
<1> QED
  BY <1>5 DEF t

\* A message that is put in the queue (send_message) comes after all the others.
LEMMA Enqueued ==
  ASSUME NEW s \in Endpoints, NEW q, NEW S \in Seq(Payloads), NEW p \in Payloads,
         Queued(s, S), WriteOK(s), SideInv(s, q), Uneven(Len(p))
  PROVE  SenderKept(s, q, S, Enqueue(s, p), q, Append(S, p))
<1> DEFINE t == Enqueue(s, p)
           T == Append(S, p)
<1>1. /\ s.queue \in Seq(Payloads) /\ t.queue = Append(s.queue, p)
      /\ t.writes = s.writes
  BY DEF Enqueue, Endpoints
<1>2. /\ Len(s.queue) \in Nat /\ Len(S) \in Nat
      /\ Len(t.queue) = Len(s.queue) + 1 /\ Len(T) = Len(S) + 1
      /\ Len(T) - Len(t.queue) = Len(S) - Len(s.queue)
  <2>1. Len(s.queue) \in Nat /\ Len(S) \in Nat
    BY <1>1
  <2>2. Len(t.queue) = Len(s.queue) + 1
    BY <1>1
  <2>3. Len(T) = Len(S) + 1
    OBVIOUS
  <2> HIDE DEF t, T
  <2> QED
    BY <2>1, <2>2, <2>3
<1>3. /\ DOMAIN s.queue = 1..Len(s.queue) /\ DOMAIN t.queue = 1..(Len(s.queue) + 1)
      /\ \A i \in 1..Len(s.queue) : t.queue[i] = s.queue[i]
      /\ t.queue[Len(s.queue) + 1] = p
      /\ \A i \in 1..Len(S) : T[i] = S[i]
      /\ T[Len(S) + 1] = p
  BY <1>1
<1>4. s.queue # <<>> => Head(t.queue) = Head(s.queue)
  BY <1>1
<1> HIDE DEF t, T
<1>5. ASSUME NEW i \in DOMAIN t.queue
      PROVE  t.queue[i] = T[Len(T) - Len(t.queue) + i] /\ Uneven(Len(t.queue[i]))
  <2>1. CASE i \in DOMAIN s.queue
    <3>1. s.queue[i] = S[Len(S) - Len(s.queue) + i] /\ Uneven(Len(s.queue[i]))
      BY <2>1 DEF Queued
    <3>2. Len(S) - Len(s.queue) + i \in 1..Len(S)
      BY <1>2, <1>3, <2>1 DEF Queued
    <3> QED
      BY <1>2, <1>3, <2>1, <3>1, <3>2
  <2>2. CASE i = Len(s.queue) + 1
    <3>1. \A x, y \in Nat : x - y + (y + 1) = x + 1
      OBVIOUS
    <3>2. Len(S) - Len(s.queue) + (Len(s.queue) + 1) = Len(S) + 1
      BY <1>2, <3>1
    <3>3. Len(T) - Len(t.queue) + i = Len(S) + 1
      BY <1>2, <2>2, <3>2
    <3> QED
      BY <1>3, <2>2, <3>3
  <2>3. i \in DOMAIN s.queue \/ i = Len(s.queue) + 1
    <3>1. i \in 1..(Len(s.queue) + 1)
      BY <1>3
    <3> QED
      BY <1>2, <1>3, <3>1
  <2> QED
    BY <2>1, <2>2, <2>3
<1>6. Queued(t, T)
  <2>1. Len(t.queue) <= Len(T)
    BY <1>2 DEF Queued
  <2> QED
    BY <1>5, <2>1 DEF Queued
<1>7. NextUp(t, T) = NextUp(s, S)
  BY <1>2 DEF NextUp
<1>8. DataWrite(t) <=> DataWrite(s)
  BY <1>1 DEF DataWrite
<1>9. DataWrite(s) => s.queue # <<>>
  BY DEF DataWrite, SideInv, IsWriteOf, IsData
<1>10. WriteOK(t)
  BY <1>1, <1>4, <1>8, <1>9 DEF WriteOK
<1>11. Offered(t, q, T) = Offered(s, q, S)
  BY <1>1, <1>4, <1>7, <1>8, <1>9 DEF Offered
<1> QED
  BY <1>6, <1>10, <1>11 DEF SenderKept, t, T

\* Keeping is transitive.
LEMMA KeptTwice ==
  ASSUME NEW s, NEW q, NEW S, NEW t, NEW r, NEW T, NEW u, NEW v, NEW U,
         SenderKept(s, q, S, t, r, T), SenderKept(t, r, T, u, v, U)
  PROVE  SenderKept(s, q, S, u, v, U)
BY DEF SenderKept

\* The rest of a message follows what was written of it.
LEMMA FragmentFollows ==
  ASSUME NEW s \in Endpoints, NEW q \in Seq(Completions), NEW S \in Seq(Payloads),
         Queued(s, S), WriteOK(s), DataWrite(s), Has(q, {"wrote"}), s.queue # <<>>,
         NEW w, w = Head(s.writes), w.rest # <<>>,
         NEW t, t.queue = s.queue,
         t.writes = <<Fragment("continuation", w.rest)>>,
         NEW r, ~Has(r, {"wrote"})
  PROVE  SenderKept(s, q, S, t, r, S)
<1> DEFINE M == Head(s.queue)
           a == Begun(w, M)
           b == a + Len(w.frame.data)
           x == Fragment("continuation", w.rest)
<1>1. M \in Payloads /\ M \in Seq(Nat) /\ Len(M) \in Nat
  BY QueueFacts DEF Payloads
<1>2. /\ a \in Nat /\ ~w.frame.fin /\ Uneven(Len(w.rest)) /\ IsData(w.frame)
  BY DEF WriteOK, Part, DataWrite
<1>3. w \in InFlight
  <2>1. s.writes \in Seq(InFlight) /\ s.writes # <<>>
    BY DEF Endpoints, InFlight, DataWrite
  <2>2. Head(s.writes) \in InFlight
    BY <2>1
  <2> QED
    BY <2>2
<1>4. Len(w.frame.data) \in Nat /\ Len(w.rest) \in Nat /\ w.rest \in Payloads
  BY <1>3 DEF InFlight, Frames, Payloads
<1>5. b \in 0..Len(M) /\ Len(M) - b = Len(w.rest)
  <2>1. a = Len(M) - Len(w.rest) - Len(w.frame.data)
    BY DEF Begun
  <2> DEFINE L == Len(M)
             left == Len(w.rest)
             size == Len(w.frame.data)
  <2>2. L \in Nat /\ left \in Nat /\ size \in Nat /\ a \in Nat /\ a = L - left - size
    BY <1>1, <1>2, <1>4, <2>1
  <2> HIDE DEF L, left, size, a
  <2>3. a + size \in 0..L /\ L - (a + size) = left
    BY <2>2
  <2> QED
    BY <2>3 DEF L, left, size
<1>6. w.rest = RestOf(M, b)
  BY DEF RestOf, WriteOK, Part
<1>7. Head(t.writes) = x /\ t.writes # <<>>
  OBVIOUS
<1>8. Offered(s, q, S) = At(NextUp(s, S), b)
  BY <1>2 DEF Offered, After, At
<1> HIDE DEF b, x
<1>9. IsData(x.frame) /\ Part(x, M) /\ Begun(x, M) = b
  BY <1>1, <1>2, <1>4, <1>5, <1>6, FragmentIsPart DEF x
<1>10. DataWrite(t) /\ WriteOK(t)
  BY <1>7, <1>9 DEF DataWrite, WriteOK
<1>11. NextUp(t, S) = NextUp(s, S) /\ Queued(t, S)
  BY DEF NextUp, Queued
<1>12. Offered(t, r, S) = At(NextUp(s, S), b)
  BY <1>7, <1>9, <1>10, <1>11 DEF Offered
<1> QED
  BY <1>8, <1>10, <1>11, <1>12 DEF SenderKept

\* A message that was written whole leaves the queue.
LEMMA MessageLeaves ==
  ASSUME NEW s \in Endpoints, NEW q \in Seq(Completions), NEW S \in Seq(Payloads),
         Queued(s, S), WriteOK(s), DataWrite(s), Has(q, {"wrote"}), s.queue # <<>>,
         Head(s.writes).rest = <<>>,
         NEW t, t.queue = Tail(s.queue), t.writes = <<>>, NEW r
  PROVE  SenderKept(s, q, S, t, r, S)
<1> DEFINE w == Head(s.writes)
<1>1. /\ s.queue \in Seq(Payloads) /\ Len(s.queue) \in Nat /\ Len(s.queue) >= 1
      /\ Len(t.queue) = Len(s.queue) - 1 /\ Len(S) \in Nat
      /\ DOMAIN s.queue = 1..Len(s.queue)
      /\ DOMAIN t.queue = 1..(Len(s.queue) - 1)
      /\ \A i \in 1..(Len(s.queue) - 1) : t.queue[i] = s.queue[i + 1]
  <2>1. s.queue \in Seq(Payloads)
    BY DEF Endpoints
  <2> QED
    BY <2>1
<1>2. ASSUME NEW i \in DOMAIN t.queue
      PROVE  t.queue[i] = S[Len(S) - Len(t.queue) + i] /\ Uneven(Len(t.queue[i]))
  <2>1. i + 1 \in DOMAIN s.queue /\ t.queue[i] = s.queue[i + 1]
    BY <1>1
  <2>2. Len(S) - Len(s.queue) + (i + 1) = Len(S) - Len(t.queue) + i
    BY <1>1
  <2>3. /\ s.queue[i + 1] = S[Len(S) - Len(s.queue) + (i + 1)]
        /\ Uneven(Len(s.queue[i + 1]))
    BY <2>1 DEF Queued
  <2> QED
    BY <2>1, <2>2, <2>3
<1>3. Queued(t, S)
  BY <1>1, <1>2 DEF Queued
<1>4. NextUp(t, S) = NextUp(s, S) + 1
  <2>1. Len(S) - (Len(s.queue) - 1) + 1 = (Len(S) - Len(s.queue) + 1) + 1
    BY <1>1
  <2> QED
    BY <1>1, <2>1 DEF NextUp
<1>5. w.frame.fin /\ IsData(w.frame)
  BY DEF WriteOK, Part, DataWrite
<1>6. Offered(s, q, S) = At(NextUp(s, S) + 1, 0)
  BY <1>5 DEF Offered, After, At
<1>7. ~DataWrite(t)
  BY DEF DataWrite
<1>8. Offered(t, r, S) = At(NextUp(t, S), 0)
  BY <1>7 DEF Offered
<1> QED
  BY <1>3, <1>4, <1>6, <1>7, <1>8 DEF SenderKept, WriteOK

\* The frame the socket takes carries what comes next.
LEMMA Transmitted ==
  ASSUME NEW s \in Endpoints, NEW q \in Seq(Completions), NEW S \in Seq(Payloads),
         Queued(s, S), WriteOK(s), SideInv(s, q), s.writes # <<>>,
         ~Has(q, {"wrote"}), NEW c \in Completions, c.kind = "wrote",
         NEW f, f = Head(s.writes).frame
  PROVE  /\ f \in Frames /\ Cuts(f, S, Offered(s, q, S))
         /\ Offered(s, Append(q, c), S) = After(f, Offered(s, q, S))
<1> DEFINE w == Head(s.writes)
<1>1. w \in InFlight
  <2>1. s.writes \in Seq(InFlight)
    BY DEF Endpoints, InFlight
  <2> QED
    BY <2>1
<1>2. f \in Frames
  BY <1>1 DEF InFlight
<1>3. Has(Append(q, c), {"wrote"})
  BY PushDone
<1>4. CASE ~IsData(f)
  <2>1. ~DataWrite(s)
    BY <1>4 DEF DataWrite
  <2> QED
    BY <1>2, <1>4, <2>1 DEF Cuts, After, Offered
<1>5. CASE IsData(f)
  <2> DEFINE M == Head(s.queue)
             a == Begun(w, M)
             m == NextUp(s, S)
  <2>1. DataWrite(s) /\ s.queue # <<>>
    BY <1>5 DEF DataWrite, SideInv, IsWriteOf, IsData
  <2>2. m \in DOMAIN S /\ S[m] = M /\ M \in Payloads
    BY <2>1, QueueFacts
  <2>3. /\ a \in Nat /\ (f.fin <=> w.rest = <<>>)
        /\ f.data = SubSeq(M, a + 1, a + Len(f.data))
    BY <2>1 DEF WriteOK, Part
  <2>4. /\ Len(f.data) \in Nat /\ Len(w.rest) \in Nat /\ Len(M) \in Nat
        /\ w.rest = <<>> <=> Len(w.rest) = 0
    <3>1. w.rest \in Payloads /\ f.data \in Payloads
      BY <1>1 DEF InFlight, Frames
    <3>2. \A p \in Payloads : Len(p) \in Nat /\ (p = <<>> <=> Len(p) = 0)
      BY EmptySeq DEF Payloads
    <3> QED
      BY <2>2, <3>1, <3>2
  <2>5. a = Len(M) - Len(w.rest) - Len(f.data)
    BY DEF Begun
  <2>6. /\ a + Len(f.data) <= Len(M)
        /\ a + Len(f.data) = Len(M) <=> Len(w.rest) = 0
    <3> DEFINE L == Len(M)
               left == Len(w.rest)
               size == Len(f.data)
    <3>1. L \in Nat /\ left \in Nat /\ size \in Nat /\ a = L - left - size
      BY <2>4, <2>5
    <3> HIDE DEF L, left, size, a
    <3>2. a + size <= L /\ (a + size = L <=> left = 0)
      BY <3>1
    <3> QED
      BY <3>2 DEF L, left, size
  <2>7. Offered(s, q, S) = At(m, a)
    BY <2>1 DEF Offered
  <2>8. Offered(s, Append(q, c), S) = After(f, At(m, a))
    BY <1>3, <2>1 DEF Offered
  <2>9. At(m, a).message = m /\ At(m, a).bytes = a
    BY DEF At
  <2> HIDE DEF a, m, M
  <2>10. Cuts(f, S, At(m, a))
    BY <2>2, <2>3, <2>4, <2>6, <2>9 DEF Cuts
  <2> QED
    BY <1>2, <2>7, <2>8, <2>10
<1> QED
  BY <1>4, <1>5

\* What the handlers and the calls of the user do with the sender.
LEMMA WriteSends ==
  ASSUME TypeOK, NEW e \in Sides, SideInv(ep[e], done[e]),
         Queued(ep[e], sent[e]), WriteOK(ep[e]), WriteStep(e)
  PROVE  \/ SenderKept(ep[e], done[e], sent[e], ep'[e], done'[e], sent'[e])
         \/ /\ Head(done[e]).kind = "writeFailed"
            /\ Queued(ep'[e], sent'[e]) /\ WriteOK(ep'[e])
<1> DEFINE s == ep[e]
           q == done[e]
           S == sent[e]
           w == Writing(e)
           a == AfterWrite(e)
           r == Tail(done[e])
<1>1. /\ s \in Endpoints /\ q \in Seq(Completions) /\ S \in Seq(Payloads)
      /\ ep \in [Sides -> Endpoints] /\ done \in [Sides -> Seq(Completions)]
  BY HandlerTypes DEF TypeOK
<1>2. done[e] # <<>> /\ Head(done[e]).kind \in WriteKinds
  BY DEF WriteStep, WroteFragment, WroteMessage, WroteClose, WriteFailed,
         CloseWriteFailed, Due, WriteKinds
<1>3. /\ s.writes # <<>> /\ w = Head(s.writes) /\ IsWriteOf(s, w) /\ w \in InFlight
      /\ a \in Endpoints /\ Kept(s, a) /\ a.writes = <<>> /\ a.running
      /\ ~Has(r, WriteKinds)
  BY <1>2, TheWrite
<1>4. Due(e, "wrote") => Has(q, {"wrote"})
  <2>1. done[e] # <<>> => 1 \in DOMAIN done[e] /\ done[e][1] = Head(done[e])
    BY <1>1
  <2> QED
    BY <2>1 DEF Has, Due
<1>5. ~Has(r, {"wrote"})
  BY <1>3 DEF Has, WriteKinds
<1>6. ASSUME NEW t, Handle(e, t)
      PROVE  ep'[e] = t /\ done'[e] = r /\ sent'[e] = S
  BY <1>1, <1>6 DEF Handle
<1> HIDE DEF s, q, S, w, a, r
<1>7. CASE WroteFragment(e)
  <2> DEFINE t == StartWrite(a, "continuation", w.rest)
  <2>1. Handle(e, t) /\ w.rest # <<>> /\ Has(q, {"wrote"})
    BY <1>4, <1>7 DEF WroteFragment, a, w
  <2>2. IsData(w.frame) /\ s.queue # <<>>
    BY <1>3, <2>1 DEF IsWriteOf
  <2>3. t.queue = s.queue /\ t.writes = <<Fragment("continuation", w.rest)>>
    <3>1. Append(a.writes, Fragment("continuation", w.rest)) =
            <<Fragment("continuation", w.rest)>>
      BY <1>3
    <3> QED
      BY <1>3, <3>1 DEF StartWrite, Endpoints, Kept
  <2> HIDE DEF t
  <2>4. DataWrite(s)
    BY <1>3, <2>2 DEF DataWrite
  <2>5. SenderKept(s, q, S, t, r, S)
    BY <1>1, <1>3, <1>5, <2>1, <2>2, <2>3, <2>4, FragmentFollows DEF s, S
  <2> QED
    BY <1>6, <2>1, <2>5 DEF s, q, S
<1>8. CASE WroteMessage(e)
  <2> DEFINE b == PopQueue(a)
             t == RunQueue(b)
  <2>1. /\ Handle(e, t) /\ w.frame.op # "close" /\ w.rest = <<>>
        /\ Has(q, {"wrote"})
    BY <1>4, <1>8 DEF WroteMessage, a, w
  <2>2. IsData(w.frame) /\ s.queue # <<>> /\ DataWrite(s)
    BY <1>3, <2>1 DEF IsWriteOf, DataWrite
  <2>3. /\ b \in Endpoints /\ b.running /\ b.writes = <<>>
        /\ b.queue = Tail(s.queue)
    BY <1>3, <2>2, PopQueueType DEF PopQueue, Endpoints, Kept
  <2> HIDE DEF b
  <2>4. SenderKept(s, q, S, b, r, S)
    BY <1>1, <1>3, <2>1, <2>2, <2>3, MessageLeaves DEF s, S
  <2>5. Turned(b, t)
    BY <2>3, LoopTurns
  <2>6. Queued(b, S)
    BY <2>4 DEF SenderKept
  <2> HIDE DEF t
  <2>7. SenderKept(b, r, S, t, r, S)
    BY <1>1, <1>3, <2>3, <2>5, <2>6, LoopTurned
  <2>8. SenderKept(s, q, S, t, r, S)
    BY <2>4, <2>7, KeptTwice
  <2> QED
    BY <1>6, <2>1, <2>8 DEF s, q, S
<1>9. CASE WroteClose(e)
  <2> DEFINE t == IF a.closeReceived THEN Notify(a, "close") ELSE a
  <2>1. Handle(e, t) /\ w.frame.op = "close"
    BY <1>9 DEF WroteClose, a, w
  <2>2. t.queue = s.queue /\ t.writes = <<>>
    BY <1>3 DEF Notify, Endpoints, Kept
  <2> HIDE DEF t
  <2>3. ~DataWrite(s) /\ ~DataWrite(t)
    BY <1>3, <2>1, <2>2 DEF DataWrite, IsData
  <2>4. Queued(t, S) /\ NextUp(t, S) = NextUp(s, S)
    BY <2>2 DEF Queued, NextUp, s, S
  <2>5. SenderKept(s, q, S, t, r, S)
    BY <2>3, <2>4 DEF SenderKept, WriteOK, Offered
  <2> QED
    BY <1>6, <2>1, <2>5 DEF s, q, S
<1>10. CASE WriteFailed(e) \/ CloseWriteFailed(e)
  <2>1. PICK t : /\ Handle(e, t) /\ Head(done[e]).kind = "writeFailed"
                 /\ t = a \/ \E expected \in BOOLEAN : t = SendFailed(a, expected)
    BY <1>10 DEF WriteFailed, CloseWriteFailed, Due, a
  <2>2. t.queue = s.queue /\ t.writes = <<>>
    <3>1. ASSUME NEW expected \in BOOLEAN
          PROVE  /\ SendFailed(a, expected).queue = a.queue
                 /\ SendFailed(a, expected).writes = a.writes
      <4> DEFINE b == [a EXCEPT !.running = FALSE]
      <4>1. b \in Endpoints /\ b.queue = a.queue /\ b.writes = a.writes
        BY <1>3 DEF Endpoints
      <4>2. \E event : SendFailed(a, expected) = Notify(b, event)
        BY DEF SendFailed
      <4> HIDE DEF b
      <4> QED
        BY <4>1, <4>2 DEF Notify, Endpoints
    <3> QED
      BY <1>3, <2>1, <3>1 DEF Kept
  <2>3. Queued(t, S) /\ WriteOK(t)
    BY <2>2 DEF Queued, WriteOK, DataWrite, s, S
  <2> QED
    BY <1>6, <2>1, <2>3 DEF S
<1> QED
  BY <1>7, <1>8, <1>9, <1>10 DEF WriteStep

\* The handlers of the reader, of which ReadClose may start the loop, lose nothing
\* of what is to be sent.
LEMMA ReadSends ==
  ASSUME TypeOK, NEW e \in Sides, SideInv(ep[e], done[e]),
         Queued(ep[e], sent[e]), WriteOK(ep[e]), ReadStep(e)
  PROVE  SenderKept(ep[e], done[e], sent[e], ep'[e], done'[e], sent'[e])
<1> DEFINE s == ep[e]
           q == done[e]
           S == sent[e]
           r == Tail(done[e])
<1>1. /\ s \in Endpoints /\ q \in Seq(Completions) /\ S \in Seq(Payloads)
      /\ ep \in [Sides -> Endpoints] /\ done \in [Sides -> Seq(Completions)]
  BY HandlerTypes DEF TypeOK
<1>2. done[e] # <<>> /\ Head(done[e]).kind \in ReadKinds
  BY DEF ReadStep, ReadData, ReadClose, ReadPing, ReadPong, ReadBadInput,
         ReadFailed, Due, ReadKinds
<1>3. SideInv(s, r) /\ r \in Seq(Completions)
  BY <1>1, <1>2, ReadTaken
<1>4. Has(r, {"wrote"}) <=> Has(q, {"wrote"})
  BY <1>1, <1>2, PopDone DEF ReadKinds
<1>5. ASSUME NEW t, Handle(e, t)
      PROVE  ep'[e] = t /\ done'[e] = r /\ sent'[e] = S
  BY <1>1, <1>5 DEF Handle
<1>6. Queued(s, S) /\ WriteOK(s)
  OBVIOUS
<1> SUFFICES \E t : Handle(e, t) /\ SenderKept(s, q, S, t, r, S)
  BY <1>5
<1> HIDE DEF s, q, S, r
<1>7. ASSUME NEW t, Handle(e, t), t.queue = s.queue, t.writes = s.writes
      PROVE  \E u : Handle(e, u) /\ SenderKept(s, q, S, u, r, S)
  BY <1>4, <1>6, <1>7, LoopAlone
<1>8. CASE ReadData(e)
  <2> DEFINE k == [s EXCEPT !.payload = @ \o Read(e).data]
             t == IF Read(e).fin THEN [Deliver(k, k.payload) EXCEPT !.payload = <<>>] ELSE k
  <2>1. Handle(e, t)
    BY <1>8 DEF ReadData, s
  <2>2. t.queue = s.queue /\ t.writes = s.writes
    <3>1. k.queue = s.queue /\ k.writes = s.writes
      BY <1>1 DEF Endpoints
    <3>2. k \in Endpoints
      <4>1. Read(e).data \in Payloads /\ s.payload \in Payloads
        BY <1>1, <1>8, HandlerTypes DEF ReadData, Frames, Endpoints
      <4>2. s.payload \o Read(e).data \in Payloads
        BY <4>1 DEF Payloads
      <4> QED
        BY <1>1, <4>2 DEF Endpoints
    <3> HIDE DEF k
    <3>3. Deliver(k, k.payload).queue = k.queue /\ Deliver(k, k.payload).writes = k.writes
      BY <3>2 DEF Deliver, Endpoints
    <3>4. Deliver(k, k.payload) \in Endpoints
      BY <3>2, NotifyType DEF Events, Endpoints
    <3>5. /\ [Deliver(k, k.payload) EXCEPT !.payload = <<>>].queue = k.queue
          /\ [Deliver(k, k.payload) EXCEPT !.payload = <<>>].writes = k.writes
      BY <3>3, <3>4 DEF Endpoints
    <3> QED
      BY <3>1, <3>5
  <2> HIDE DEF t
  <2> QED
    BY <1>7, <2>1, <2>2
<1>9. CASE ReadPing(e)
  <2> DEFINE t == IF IsSendingClose(s) THEN s ELSE [s EXCEPT !.control = "pong"]
  <2>1. Handle(e, t)
    BY <1>9 DEF ReadPing, s
  <2>2. t.queue = s.queue /\ t.writes = s.writes
    BY <1>1 DEF Endpoints
  <2> HIDE DEF t
  <2> QED
    BY <1>7, <2>1, <2>2
<1>10. CASE ReadPong(e)
  BY <1>7, <1>10 DEF ReadPong, s
<1>11. CASE ReadBadInput(e) \/ ReadFailed(e)
  <2>1. PICK event \in {"badRequest", "error"} :
          Handle(e, [Notify(s, event) EXCEPT !.reading = FALSE])
    BY <1>11 DEF ReadBadInput, ReadFailed, s
  <2> DEFINE t == [Notify(s, event) EXCEPT !.reading = FALSE]
  <2>2. t.queue = s.queue /\ t.writes = s.writes
    <3>0. <<>> \in Payloads /\ event \in Events
      BY DEF Payloads, Events
    <3>1. Notify(s, event) \in Endpoints
      BY <1>1, <3>0, NotifyType
    <3>2. Notify(s, event).queue = s.queue /\ Notify(s, event).writes = s.writes
      BY <1>1 DEF Notify, Endpoints
    <3> QED
      BY <3>1, <3>2 DEF Endpoints
  <2>3. Handle(e, t)
    BY <2>1
  <2> HIDE DEF t
  <2> QED
    BY <1>7, <2>2, <2>3
<1>12. CASE ReadClose(e)
  <2> DEFINE b == [s EXCEPT !.payload = <<>>, !.closeReceived = TRUE, !.reading = FALSE]
             k == [b EXCEPT !.control = "close"]
  <2>1. /\ Handle(e, IF IsSendingClose(b) THEN Notify(b, "close") ELSE SendClose(b))
        /\ SendClose(b) = StartSendQueue(k)
    BY <1>12 DEF ReadClose, SendClose, s
  <2>2. /\ b \in Endpoints /\ b.queue = s.queue /\ b.writes = s.writes
        /\ k \in Endpoints /\ k.queue = s.queue /\ k.writes = s.writes
        /\ LoopUntouched(s, k)
    <3>1. <<>> \in Payloads
      BY DEF Payloads
    <3> QED
      BY <1>1, <3>1 DEF Endpoints, LoopUntouched, IsSendingClose
  <2> HIDE DEF b, k
  <2>3. CASE IsSendingClose(b)
    <3>1. Notify(b, "close").queue = s.queue /\ Notify(b, "close").writes = s.writes
      BY <2>2 DEF Notify, Endpoints
    <3> QED
      BY <1>7, <2>1, <2>3, <3>1
  <2>4. CASE ~IsSendingClose(b)
    <3>1. SideInv(k, r)
      BY <1>1, <1>3, <2>2, UntouchedSide
    <3>2. SenderKept(s, q, S, k, r, S)
      BY <1>4, <1>6, <2>2, LoopAlone
    <3>3. SenderKept(k, r, S, StartSendQueue(k), r, S)
      BY <1>1, <2>2, <3>1, <3>2, LoopStarted DEF SenderKept
    <3>4. SenderKept(s, q, S, StartSendQueue(k), r, S)
      BY <3>2, <3>3, KeptTwice
    <3> QED
      BY <2>1, <2>4, <3>4
  <2> QED
    BY <2>3, <2>4
<1> QED
  BY <1>8, <1>9, <1>10, <1>11, <1>12 DEF ReadStep

\* The calls of the user lose nothing either; send_message adds a message, which by
\* NoFullFrames does not end with a full frame.
LEMMA UserSends ==
  ASSUME NoFullFrames, TypeOK, NEW e \in Sides, SideInv(ep[e], done[e]),
         Queued(ep[e], sent[e]), WriteOK(ep[e]), UserStep(e)
  PROVE  /\ SenderKept(ep[e], done[e], sent[e], ep'[e], done'[e], sent'[e])
         /\ \/ sent' = sent
            \/ \E p \in Payloads : sent' = [sent EXCEPT ![e] = Append(@, p)]
<1> DEFINE s == ep[e]
           q == done[e]
           S == sent[e]
<1>1. /\ s \in Endpoints /\ q \in Seq(Completions) /\ S \in Seq(Payloads)
      /\ ep \in [Sides -> Endpoints] /\ sent \in [Sides -> Seq(Payloads)]
      /\ SideInv(s, q) /\ Queued(s, S) /\ WriteOK(s)
  BY HandlerTypes DEF TypeOK
<1>2. done'[e] = q
  BY DEF UserStep, SendMessage, Send, CallClose, StartMessaging, Stop
<1> SUFFICES /\ SenderKept(s, q, S, ep'[e], q, sent'[e])
             /\ \/ sent' = sent
                \/ \E p \in Payloads : sent' = [sent EXCEPT ![e] = Append(@, p)]
  BY <1>2
<1>3. ASSUME NEW t, ep' = [ep EXCEPT ![e] = t]
      PROVE  ep'[e] = t
  BY <1>1, <1>3
<1>4. ASSUME sent' = sent
      PROVE  sent'[e] = S
  BY <1>4
<1>5. ASSUME NEW r \in Endpoints, SideInv(r, q), r.queue = s.queue, r.writes = s.writes
      PROVE  /\ SenderKept(s, q, S, r, q, S)
             /\ SenderKept(s, q, S, StartSendQueue(r), q, S)
  <2>1. SenderKept(s, q, S, r, q, S)
    BY <1>1, <1>5, LoopAlone
  <2>2. SenderKept(r, q, S, StartSendQueue(r), q, S)
    BY <1>1, <1>5, <2>1, LoopStarted DEF SenderKept
  <2> QED
    BY <2>1, <2>2, KeptTwice
<1>6. CASE SendMessage(e)
  <2>1. PICK n \in Sizes : Send(e, [i \in 1..n |-> Len(sent[e]) + 1])
    BY <1>6 DEF SendMessage
  <2> DEFINE p == [i \in 1..n |-> Len(sent[e]) + 1]
             r == Enqueue(s, p)
  <2>2. p \in Payloads /\ Len(p) = n
    <3>1. n \in Nat /\ Len(sent[e]) + 1 \in Nat
      BY <1>1, WsAssumption
    <3> QED
      BY <3>1, MessagePayload
  <2>3. Send(e, p)
    BY <2>1
  <2>4. Uneven(Len(p))
    BY <2>2 DEF NoFullFrames
  <2> HIDE DEF p
  <2>5. SenderKept(s, q, S, r, q, Append(S, p))
    BY <1>1, <2>2, <2>4, Enqueued
  <2>6. r \in Endpoints /\ SideInv(r, q)
    <3>1. s.queue \in Seq(Payloads)
      BY <1>1 DEF Endpoints
    <3>2. Append(s.queue, p) \in Seq(Payloads) /\ Append(s.queue, p) # <<>>
      BY <2>2, <3>1
    <3>3. /\ r \in Endpoints /\ r.running = s.running /\ r.writes = s.writes
          /\ r.queue # <<>> /\ r.control = s.control
      BY <1>1, <3>2 DEF Enqueue, Endpoints
    <3> HIDE DEF r
    <3>4. \A w : IsWriteOf(s, w) => IsWriteOf(r, w)
      BY <3>3 DEF IsWriteOf, IsSendingClose
    <3> QED
      BY <1>1, <3>3, <3>4 DEF SideInv, IsSendingClose
  <2>7. ep'[e] = StartSendQueue(r) /\ sent' = [sent EXCEPT ![e] = Append(@, p)]
    BY <1>1, <2>3 DEF Send
  <2>8. sent'[e] = Append(S, p) /\ Append(S, p) \in Seq(Payloads)
    BY <1>1, <2>2, <2>7
  <2> HIDE DEF r
  <2>9. SenderKept(r, q, Append(S, p), StartSendQueue(r), q, Append(S, p))
    BY <2>5, <2>6, <2>8, LoopStarted DEF SenderKept
  <2>10. SenderKept(s, q, S, StartSendQueue(r), q, Append(S, p))
    BY <2>5, <2>9, KeptTwice
  <2> QED
    BY <2>2, <2>7, <2>8, <2>10
<1>7. CASE CallClose(e)
  <2> DEFINE r == [s EXCEPT !.control = "close"]
  <2>1. ep'[e] = StartSendQueue(r) /\ sent' = sent
    BY <1>1, <1>7 DEF CallClose, SendClose
  <2>2. /\ r \in Endpoints /\ LoopUntouched(s, r)
        /\ r.queue = s.queue /\ r.writes = s.writes
    BY <1>1 DEF Endpoints, LoopUntouched, IsSendingClose
  <2> HIDE DEF r
  <2>3. SideInv(r, q)
    BY <1>1, <2>2, UntouchedSide
  <2> QED
    BY <1>4, <1>5, <2>1, <2>2, <2>3
<1>8. CASE StartMessaging(e)
  <2> DEFINE r == [s EXCEPT !.started = TRUE, !.reading = TRUE]
  <2>1. /\ sent' = sent
        /\ ep'[e] = StartSendQueue(r) \/ ep'[e] = r
    BY <1>1, <1>8 DEF StartMessaging
  <2>2. /\ r \in Endpoints /\ r.running = s.running /\ r.writes = s.writes
        /\ r.queue = s.queue /\ r.control = s.control
    BY <1>1 DEF Endpoints
  <2> HIDE DEF r
  <2>3. \A w : IsWriteOf(s, w) => IsWriteOf(r, w)
    BY <2>2 DEF IsWriteOf, IsSendingClose
  <2>4. SideInv(r, q)
    BY <1>1, <2>2, <2>3 DEF SideInv, IsSendingClose
  <2> QED
    BY <1>4, <1>5, <2>1, <2>2, <2>4
<1>9. CASE Stop(e)
  <2> DEFINE r == [s EXCEPT !.stopped = TRUE]
  <2>1. sent' = sent /\ ep'[e] = r
    BY <1>1, <1>9 DEF Stop
  <2>2. r.queue = s.queue /\ r.writes = s.writes
    BY <1>1 DEF Endpoints
  <2> HIDE DEF r
  <2> QED
    BY <1>1, <1>4, <2>1, <2>2, LoopAlone
<1> QED
  BY <1>6, <1>7, <1>8, <1>9 DEF UserStep

-----------------------------------------------------------------------------
(* The receiver *)

\* The cursor of the next byte the reader of s takes.
Here(s) == At(Len(s.got) + 1, Len(s.payload))

\* What the reader has of a message is the beginning of that message.
Held(s, S) == s.payload # <<>> =>
  /\ Len(s.got) + 1 \in DOMAIN S
  /\ Len(s.payload) <= Len(S[Len(s.got) + 1])
  /\ s.payload = SubSeq(S[Len(s.got) + 1], 1, Len(s.payload))

\* The read that is due, if any, takes the reader from the cursor h to c.
Handing(q, S, h, c) ==
  \/ ~Has(q, {"read"}) /\ c = h
  \/ \E i \in DOMAIN q : /\ q[i].kind = "read"
                         /\ Cuts(q[i].frame, S, h) /\ c = After(q[i].frame, h)

\* From what the reader r has, through the reads that are due (q) and the frames
\* under way (n), to what the sender offers next (o): the messages S, in order
\* and without a gap.  Once the connection is lost (b) the end is open.
Flow(r, q, n, S, b, o) ==
  ~r.stopped /\ ~r.closeReceived =>
    /\ Held(r, S)
    /\ \E c, d \in Cursors : /\ Handing(q, S, Here(r), c) /\ Chain(n, S, c, d)
                             /\ ~b => d = o

\* The reader is at a cursor.
LEMMA HereType ==
  ASSUME NEW s \in Endpoints
  PROVE  /\ Here(s) \in Cursors
         /\ Here(s).message = Len(s.got) + 1 /\ Here(s).bytes = Len(s.payload)
         /\ Len(s.got) \in Nat /\ Len(s.payload) \in Nat
<1>1. s.got \in Seq(Payloads) /\ s.payload \in Seq(Nat)
  BY DEF Endpoints, Payloads
<1>2. Len(s.got) \in Nat /\ Len(s.payload) \in Nat
  BY <1>1
<1> QED
  BY <1>2 DEF Here, Cursors, At

\* The read that is due is taken, or another completion is.
LEMMA HandingPop ==
  ASSUME NEW q \in Seq(Completions), q # <<>>, NEW S, NEW h, NEW c,
         Handing(q, S, h, c)
  PROVE  /\ Head(q).kind = "read" /\ OneOfEach(q) =>
              /\ Cuts(Head(q).frame, S, h) /\ c = After(Head(q).frame, h)
              /\ ~Has(Tail(q), {"read"})
         /\ Head(q).kind # "read" => Handing(Tail(q), S, h, c)
<1>1. /\ 1 \in DOMAIN q /\ Head(q) = q[1]
      /\ \A i \in DOMAIN q : i = 1 \/ (i - 1 \in DOMAIN Tail(q) /\ Tail(q)[i - 1] = q[i])
  OBVIOUS
<1>2. \A K : Has(q, K) <=> Head(q).kind \in K \/ Has(Tail(q), K)
  BY PopDone
<1>3. ASSUME Head(q).kind = "read", OneOfEach(q)
      PROVE  /\ Cuts(Head(q).frame, S, h) /\ c = After(Head(q).frame, h)
             /\ ~Has(Tail(q), {"read"})
  <2>1. Has(q, {"read"})
    BY <1>2, <1>3
  <2>2. PICK i \in DOMAIN q : /\ q[i].kind = "read"
                              /\ Cuts(q[i].frame, S, h) /\ c = After(q[i].frame, h)
    BY <2>1 DEF Handing
  <2>3. i = 1
    BY <1>1, <1>3, <2>2 DEF OneOfEach, WriteKinds
  <2>4. ~Has(Tail(q), ReadKinds)
    BY <1>3, PopDone DEF ReadKinds
  <2> QED
    BY <1>1, <2>2, <2>3, <2>4 DEF Has, ReadKinds
<1>4. ASSUME Head(q).kind # "read"
      PROVE  Handing(Tail(q), S, h, c)
  <2>1. CASE ~Has(q, {"read"}) /\ c = h
    BY <1>2, <2>1 DEF Handing
  <2>2. CASE \E i \in DOMAIN q : /\ q[i].kind = "read"
                                 /\ Cuts(q[i].frame, S, h) /\ c = After(q[i].frame, h)
    <3>1. PICK i \in DOMAIN q : /\ q[i].kind = "read"
                                /\ Cuts(q[i].frame, S, h) /\ c = After(q[i].frame, h)
      BY <2>2
    <3>2. i - 1 \in DOMAIN Tail(q) /\ Tail(q)[i - 1] = q[i]
      BY <1>1, <1>4, <3>1
    <3> QED
      BY <3>1, <3>2 DEF Handing
  <2> QED
    BY <2>1, <2>2 DEF Handing
<1> QED
  BY <1>3, <1>4

\* A completion is put behind those that are due.
LEMMA HandingPush ==
  ASSUME NEW q \in Seq(Completions), NEW p \in Completions, NEW S, NEW h, NEW c,
         Handing(q, S, h, c)
  PROVE  /\ p.kind # "read" => Handing(Append(q, p), S, h, c)
         /\ p.kind = "read" /\ ~Has(q, {"read"}) /\ Cuts(p.frame, S, c) =>
              Handing(Append(q, p), S, h, After(p.frame, c))
<1> DEFINE r == Append(q, p)
<1>1. /\ \A i \in DOMAIN q : i \in DOMAIN r /\ r[i] = q[i]
      /\ Len(q) + 1 \in DOMAIN r /\ r[Len(q) + 1] = p
  OBVIOUS
<1>2. Has(r, {"read"}) <=> Has(q, {"read"}) \/ p.kind = "read"
  BY PushDone
<1> HIDE DEF r
<1>3. p.kind # "read" => Handing(r, S, h, c)
  BY <1>1, <1>2 DEF Handing
<1>4. ASSUME p.kind = "read", ~Has(q, {"read"}), Cuts(p.frame, S, c)
      PROVE  Handing(r, S, h, After(p.frame, c))
  <2>1. c = h
    BY <1>4 DEF Handing, Has
  <2> QED
    BY <1>1, <1>4, <2>1 DEF Handing
<1> QED
  BY <1>3, <1>4 DEF r

\* What the reader has after the data of the next frame.
LEMMA Taken ==
  ASSUME NEW s \in Endpoints, NEW S \in Seq(Payloads), Held(s, S),
         NEW f \in Frames, IsData(f), Cuts(f, S, Here(s)),
         NEW p, p = s.payload \o f.data
  PROVE  /\ p \in Payloads /\ Len(p) = Len(s.payload) + Len(f.data)
         /\ Len(s.got) + 1 \in DOMAIN S
         /\ Len(p) <= Len(S[Len(s.got) + 1])
         /\ p = SubSeq(S[Len(s.got) + 1], 1, Len(p))
         /\ f.fin => p = S[Len(s.got) + 1]
<1> DEFINE m == Len(s.got) + 1
           M == S[m]
           a == Len(s.payload)
           b == a + Len(f.data)
<1>1. /\ s.payload \in Payloads /\ f.data \in Payloads
      /\ a \in Nat /\ Len(f.data) \in Nat
  <2>1. s.payload \in Payloads /\ f.data \in Payloads
    BY DEF Endpoints, Frames
  <2> QED
    BY <2>1 DEF Payloads
<1>2. /\ m \in DOMAIN S /\ b <= Len(M) /\ f.data = SubSeq(M, a + 1, b)
      /\ f.fin <=> b = Len(M)
  BY HereType DEF Cuts
<1>3. M \in Payloads /\ Len(M) \in Nat
  BY <1>2 DEF Payloads
<1>4. s.payload = SubSeq(M, 1, a)
  <2>1. CASE s.payload # <<>>
    BY <2>1 DEF Held
  <2>2. CASE s.payload = <<>>
    <3>1. a = 0 /\ SubSeq(M, 1, 0) = <<>>
      BY <1>3, <2>2, SubSeqEmpty
    <3> QED
      BY <2>2, <3>1
  <2> QED
    BY <2>1, <2>2
<1>5. p \in Payloads /\ Len(p) = b
  BY <1>1 DEF Payloads
<1>6. a \in 0..Len(M) /\ b \in a..Len(M)
  <2> DEFINE size == Len(f.data)
  <2>1. a \in Nat /\ size \in Nat /\ Len(M) \in Nat /\ a + size <= Len(M)
    BY <1>1, <1>2, <1>3
  <2> HIDE DEF a, size, M
  <2>2. a \in 0..Len(M) /\ a + size \in a..Len(M)
    BY <2>1
  <2> QED
    BY <2>2 DEF size
<1> HIDE DEF m, M
<1> HIDE DEF a, b
<1>7. p = SubSeq(M, 1, b)
  <2>1. SubSeq(M, 1, a) \o SubSeq(M, a + 1, b) = SubSeq(M, 1, b)
    BY <1>3, <1>6, Slices
  <2> QED
    BY <1>2, <1>4, <2>1
<1>8. f.fin => p = M
  <2>1. SubSeq(M, 1, Len(M)) = M
    BY <1>3, SubSeqFull DEF Payloads
  <2> QED
    BY <1>2, <1>7, <2>1
<1>9. m \in DOMAIN S /\ b <= Len(M)
  BY <1>2
<1> QED
  BY <1>5, <1>7, <1>8, <1>9 DEF m, M, a, b

\* A step that neither takes a frame to the reader nor one from the sender.
LEMMA FlowKept ==
  ASSUME NEW r, NEW u, NEW p, NEW q, NEW n, NEW S, NEW b, NEW k, NEW o, NEW x,
         Flow(r, p, n, S, b, o),
         u.got = r.got, u.payload = r.payload,
         r.closeReceived => u.closeReceived, r.stopped => u.stopped,
         \A h, c : Handing(p, S, h, c) => Handing(q, S, h, c),
         ~k => ~b /\ x = o
  PROVE  Flow(u, q, n, S, k, x)
<1>1. Here(u) = Here(r) /\ (Held(r, S) => Held(u, S))
  BY DEF Here, Held
<1> QED
  BY <1>1 DEF Flow

\* Messages that are sent later change nothing.
LEMMA FlowMore ==
  ASSUME NEW r, NEW q, NEW n, NEW S \in Seq(Payloads), NEW p \in Payloads, NEW b, NEW o,
         Flow(r, q, n, S, b, o)
  PROVE  Flow(r, q, n, Append(S, p), b, o)
<1>1. \A i \in DOMAIN S : i \in DOMAIN Append(S, p) /\ Append(S, p)[i] = S[i]
  OBVIOUS
<1>2. Held(r, S) => Held(r, Append(S, p))
  BY <1>1 DEF Held
<1>3. \A h, c : Handing(q, S, h, c) => Handing(q, Append(S, p), h, c)
  BY CutsMore DEF Handing
<1>4. \A c, d : Chain(n, S, c, d) => Chain(n, Append(S, p), c, d)
  BY ChainMore
<1> QED
  BY <1>2, <1>3, <1>4 DEF Flow

\* The reader takes the frame it was handed.
LEMMA FrameRead ==
  ASSUME NEW s \in Endpoints, NEW t, NEW q \in Seq(Completions), q # <<>>,
         OneOfEach(q), Head(q).kind = "read", NEW n, NEW S, NEW b, NEW o,
         Flow(s, q, n, S, b, o), ~s.stopped, ~s.closeReceived,
         Held(t, S), Here(t) = After(Head(q).frame, Here(s))
  PROVE  Flow(t, Tail(q), n, S, b, o)
<1>1. PICK x \in Cursors, y \in Cursors : /\ Handing(q, S, Here(s), x)
                                          /\ Chain(n, S, x, y) /\ (~b => y = o)
  BY DEF Flow
<1>2. Here(t) = x /\ ~Has(Tail(q), {"read"})
  BY <1>1, HandingPop
<1>3. Handing(Tail(q), S, Here(t), x)
  BY <1>2 DEF Handing
<1> QED
  BY <1>1, <1>3 DEF Flow

\* What the reader does with a frame: a message goes to the user when its last
\* fragment is read.
LEMMA ReadFlows ==
  ASSUME TypeOK, NEW e \in Sides, SideInv(ep[e], done[e]), ReadStep(e),
         NEW n, NEW S \in Seq(Payloads), NEW b, NEW o,
         CloseLast(ep[e].closeReceived, done[e], n),
         Flow(ep[e], done[e], n, S, b, o)
  PROVE  /\ Flow(ep'[e], done'[e], n, S, b, o)
         /\ \/ ep'[e].got = ep[e].got
            \/ /\ Len(ep[e].got) + 1 \in DOMAIN S
               /\ ep'[e].got = Append(ep[e].got, S[Len(ep[e].got) + 1])
<1> DEFINE s == ep[e]
           q == done[e]
           r == Tail(done[e])
           c == Head(done[e])
           More(t) == \/ t.got = s.got
                      \/ /\ Len(s.got) + 1 \in DOMAIN S
                         /\ t.got = Append(s.got, S[Len(s.got) + 1])
<1>1. /\ s \in Endpoints /\ q \in Seq(Completions) /\ r \in Seq(Completions)
      /\ ep \in [Sides -> Endpoints] /\ done \in [Sides -> Seq(Completions)]
      /\ OneOfEach(q) /\ q # <<>> /\ c.kind \in ReadKinds
  <2>1. q # <<>> /\ c.kind \in ReadKinds
    BY DEF ReadStep, ReadData, ReadClose, ReadPing, ReadPong, ReadBadInput,
           ReadFailed, Due, ReadKinds
  <2> QED
    BY <2>1, HandlerTypes DEF TypeOK, SideInv
<1>2. ASSUME NEW t, Handle(e, t)
      PROVE  ep'[e] = t /\ done'[e] = r
  BY <1>1, <1>2 DEF Handle
<1>3. Flow(s, q, n, S, b, o)
  OBVIOUS
<1>4. c.kind = "read" => ~s.closeReceived /\ Read(e) = c.frame /\ c.frame \in Frames
  <2>1. 1 \in DOMAIN q /\ q[1] = c /\ c \in Completions
    BY <1>1
  <2> QED
    BY <2>1 DEF CloseLast, Has, Read, Completions
<1> SUFFICES \E t : Handle(e, t) /\ Flow(t, r, n, S, b, o) /\ More(t)
  BY <1>2
<1> HIDE DEF s, q, r, c
<1>5. ASSUME NEW t, Handle(e, t), t.got = s.got, t.payload = s.payload,
             s.stopped => t.stopped, s.closeReceived => t.closeReceived,
             c.kind = "read" => ~IsData(c.frame)
      PROVE  \E u : Handle(e, u) /\ Flow(u, r, n, S, b, o) /\ More(u)
  <2>1. Flow(t, r, n, S, b, o)
    <3>1. CASE c.kind # "read"
      <4>1. \A h, x : Handing(q, S, h, x) => Handing(r, S, h, x)
        BY <1>1, <3>1, HandingPop DEF q, r, c
      <4> QED
        BY <1>3, <1>5, <4>1, FlowKept
    <3>2. CASE c.kind = "read" /\ (s.stopped \/ s.closeReceived)
      BY <1>5, <3>2 DEF Flow
    <3>3. CASE c.kind = "read" /\ ~s.stopped /\ ~s.closeReceived
      <4>1. Here(t) = Here(s) /\ (Held(s, S) => Held(t, S))
        BY <1>5 DEF Here, Held
      <4>2. After(c.frame, Here(s)) = Here(s)
        BY <1>5, <3>3 DEF After
      <4>3. Held(t, S)
        BY <1>3, <3>3, <4>1 DEF Flow
      <4> QED
        BY <1>1, <1>3, <3>3, <4>1, <4>2, <4>3, FrameRead DEF q, r, c
    <3> QED
      BY <3>1, <3>2, <3>3
  <2> QED
    BY <1>5, <2>1
<1>6. CASE ReadData(e)
  <2> DEFINE f == c.frame
             p == s.payload \o f.data
             k == [s EXCEPT !.payload = p]
             t == IF f.fin THEN [Deliver(k, k.payload) EXCEPT !.payload = <<>>] ELSE k
  <2>1. c.kind = "read" /\ f \in Frames /\ IsData(f) /\ ~s.closeReceived
    BY <1>4, <1>6 DEF ReadData, Due, c
  <2>2. Handle(e, t)
    BY <1>4, <1>6, <2>1 DEF ReadData, s
  <2>3. p \in Payloads /\ <<>> \in Payloads
    <3>1. s.payload \in Payloads /\ f.data \in Payloads
      BY <1>1, <2>1 DEF Endpoints, Frames
    <3> QED
      BY <3>1 DEF Payloads
  <2> HIDE DEF p
  <2>4. /\ k \in Endpoints /\ k.payload = p /\ k.got = s.got
        /\ k.stopped = s.stopped /\ k.closeReceived = s.closeReceived
    BY <1>1, <2>3 DEF Endpoints
  <2> HIDE DEF k
  <2>5. /\ t.stopped = s.stopped /\ t.closeReceived = s.closeReceived
        /\ f.fin => /\ t.payload = <<>>
                    /\ s.stopped => t.got = s.got
                    /\ ~s.stopped => t.got = Append(s.got, p)
        /\ ~f.fin => t.payload = p /\ t.got = s.got
    <3> DEFINE g == Deliver(k, p)
    <3>1. /\ g \in Endpoints /\ g.stopped = s.stopped
          /\ g.closeReceived = s.closeReceived
          /\ s.stopped => g.got = s.got
          /\ ~s.stopped => g.got = Append(s.got, p)
      <4>1. g \in Endpoints
        BY <2>3, <2>4, NotifyType DEF Events
      <4> QED
        BY <2>3, <2>4, <4>1, DeliverKeeps
    <3> HIDE DEF g
    <3>2. t = IF f.fin THEN [g EXCEPT !.payload = <<>>] ELSE k
      BY <2>4 DEF g
    <3> HIDE DEF t
    <3>3. CASE f.fin
      <4>1. t = [g EXCEPT !.payload = <<>>]
        BY <3>2, <3>3
      <4> QED
        BY <3>1, <3>3, <4>1 DEF Endpoints
    <3>4. CASE ~f.fin
      BY <2>4, <3>2, <3>4
    <3> QED
      BY <3>3, <3>4
  <2> HIDE DEF t, f
  <2>6. CASE s.stopped
    BY <2>2, <2>5, <2>6 DEF Flow
  <2>7. CASE ~s.stopped
    <3>1. Held(s, S) /\ Cuts(f, S, Here(s))
      <4>1. PICK x \in Cursors : Handing(q, S, Here(s), x)
        BY <1>3, <2>1, <2>7 DEF Flow
      <4>2. Cuts(f, S, Here(s))
        BY <1>1, <2>1, <4>1, HandingPop DEF q, c, f
      <4> QED
        BY <1>3, <2>1, <2>7, <4>2 DEF Flow
    <3>2. /\ p \in Payloads /\ Len(p) = Len(s.payload) + Len(f.data)
          /\ Len(s.got) + 1 \in DOMAIN S
          /\ Len(p) <= Len(S[Len(s.got) + 1])
          /\ p = SubSeq(S[Len(s.got) + 1], 1, Len(p))
          /\ f.fin => p = S[Len(s.got) + 1]
      BY <1>1, <2>1, <3>1, Taken DEF p
    <3>3. More(t)
      BY <2>5, <2>7, <3>2
    <3>4. Held(t, S)
      BY <2>5, <3>2 DEF Held
    <3>5. Here(t) = After(f, Here(s))
      <4>1. /\ Here(s).message = Len(s.got) + 1 /\ Here(s).bytes = Len(s.payload)
            /\ s.got \in Seq(Payloads)
        BY <1>1, HereType DEF Endpoints
      <4>2. Len(Append(s.got, p)) = Len(s.got) + 1 /\ Len(<<>>) = 0
        BY <2>3, <4>1
      <4>3. CASE f.fin
        <5>1. Here(t) = At((Len(s.got) + 1) + 1, 0)
          BY <2>5, <2>7, <4>2, <4>3 DEF Here
        <5> QED
          BY <2>1, <4>1, <4>3, <5>1 DEF After
      <4>4. CASE ~f.fin
        <5>1. Here(t) = At(Len(s.got) + 1, Len(p))
          BY <2>5, <4>4 DEF Here
        <5>2. Len(p) = Len(s.payload) + Len(f.data)
          BY <3>2
        <5> QED
          BY <2>1, <4>1, <4>4, <5>1, <5>2 DEF After
      <4> QED
        BY <4>3, <4>4
    <3>6. Flow(t, r, n, S, b, o)
      BY <1>1, <1>3, <2>1, <2>7, <3>4, <3>5, FrameRead DEF q, r, c, f
    <3> QED
      BY <2>2, <3>3, <3>6
  <2> QED
    BY <2>6, <2>7
<1>7. CASE ReadClose(e)
  <2> DEFINE k == [s EXCEPT !.payload = <<>>, !.closeReceived = TRUE, !.reading = FALSE]
             t == IF IsSendingClose(k) THEN Notify(k, "close") ELSE SendClose(k)
  <2>1. Handle(e, t)
    BY <1>7 DEF ReadClose, s
  <2>2. k \in Endpoints /\ k.closeReceived /\ k.got = s.got
    <3>1. <<>> \in Payloads
      BY DEF Payloads
    <3> QED
      BY <1>1, <3>1 DEF Endpoints
  <2> HIDE DEF k
  <2>3. t.closeReceived /\ t.got = s.got
    <3>1. Notify(k, "close").closeReceived /\ Notify(k, "close").got = s.got
      BY <2>2 DEF Notify, Endpoints
    <3>2. SendClose(k).closeReceived /\ SendClose(k).got = s.got
      <4> DEFINE a == [k EXCEPT !.control = "close"]
      <4>1. a \in Endpoints /\ a.closeReceived /\ a.got = s.got
        BY <2>2 DEF Endpoints
      <4>2. SendClose(k) = StartSendQueue(a)
        BY DEF SendClose
      <4> HIDE DEF a
      <4>3. StartSendQueue(a).closeReceived = a.closeReceived
            /\ StartSendQueue(a).got = a.got
        BY <4>1 DEF StartSendQueue, RunQueue, StartWrite, Endpoints
      <4> QED
        BY <4>1, <4>2, <4>3
    <3> QED
      BY <3>1, <3>2
  <2> HIDE DEF t
  <2>4. Flow(t, r, n, S, b, o)
    BY <2>3 DEF Flow
  <2> QED
    BY <2>1, <2>3, <2>4
<1>8. CASE ReadPing(e)
  <2> DEFINE t == IF IsSendingClose(s) THEN s ELSE [s EXCEPT !.control = "pong"]
  <2>1. Handle(e, t) /\ (c.kind = "read" => ~IsData(c.frame))
    BY <1>4, <1>8 DEF ReadPing, IsData, s
  <2>2. /\ t.got = s.got /\ t.payload = s.payload /\ t.stopped = s.stopped
        /\ t.closeReceived = s.closeReceived
    BY <1>1 DEF Endpoints
  <2> HIDE DEF t
  <2> QED
    BY <1>5, <2>1, <2>2
<1>9. CASE ReadPong(e)
  <2>1. Handle(e, s) /\ (c.kind = "read" => ~IsData(c.frame))
    BY <1>4, <1>9 DEF ReadPong, IsData, s
  <2> QED
    BY <1>5, <2>1
<1>10. CASE ReadBadInput(e) \/ ReadFailed(e)
  <2>1. PICK event \in {"badRequest", "error"} :
          Handle(e, [Notify(s, event) EXCEPT !.reading = FALSE])
    BY <1>10 DEF ReadBadInput, ReadFailed, s
  <2>2. c.kind = "read" => ~IsData(c.frame)
    BY <1>4, <1>10 DEF ReadBadInput, ReadFailed, Due, IsData, c
  <2> DEFINE t == [Notify(s, event) EXCEPT !.reading = FALSE]
  <2>3. /\ t.got = s.got /\ t.payload = s.payload /\ t.stopped = s.stopped
        /\ t.closeReceived = s.closeReceived
    <3>1. <<>> \in Payloads /\ event \in Events
      BY DEF Payloads, Events
    <3>2. Notify(s, event) \in Endpoints
      BY <1>1, <3>1, NotifyType
    <3>3. /\ Notify(s, event).got = s.got /\ Notify(s, event).payload = s.payload
          /\ Notify(s, event).stopped = s.stopped
          /\ Notify(s, event).closeReceived = s.closeReceived
      BY <1>1, <3>1, NotifyKeeps
    <3> QED
      BY <3>2, <3>3 DEF Endpoints
  <2>4. Handle(e, t)
    BY <2>1
  <2> HIDE DEF t
  <2> QED
    BY <1>5, <2>2, <2>3, <2>4
<1> QED
  BY <1>6, <1>7, <1>8, <1>9, <1>10 DEF ReadStep

-----------------------------------------------------------------------------
(* The steps *)

\* What the sender e has for its peer.
Sending(e) == Queued(ep[e], sent[e]) /\ WriteOK(ep[e])
Coming(e) == Offered(ep[e], done[e], sent[e])

\* What is on its way to the user of e.
Receiving(e) == Flow(ep[e], done[e], net[Peer(e)], sent[Peer(e)], broken, Coming(Peer(e)))

\* The inductive invariant of the streams, besides that of the queue.
StreamInv == \A e \in Sides : Sending(e) /\ Receiving(e)

\* What the invariants say of a side and its peer.
LEMMA StreamInvOf ==
  ASSUME QueueInv, StreamInv, NEW e \in Sides
  PROVE  LET d == Peer(e)
         IN /\ TypeOK /\ d \in Sides /\ d # e /\ Peer(d) = e
            /\ SideInv(ep[e], done[e]) /\ Moves(ep[e])
            /\ CloseLast(ep[e].closeReceived, done[e], net[d])
            /\ Has(done[e], {"writeFailed"}) => broken
            /\ ep[e] \in Endpoints /\ done[e] \in Seq(Completions)
            /\ sent[e] \in Seq(Payloads) /\ sent[d] \in Seq(Payloads)
            /\ net[e] \in Seq(Frames) /\ net[d] \in Seq(Frames)
            /\ Queued(ep[e], sent[e]) /\ WriteOK(ep[e])
            /\ Queued(ep[d], sent[d]) /\ WriteOK(ep[d])
            /\ Flow(ep[e], done[e], net[d], sent[d], broken, Coming(d))
            /\ Flow(ep[d], done[d], net[e], sent[e], broken, Coming(e))
<1>1. TypeOK /\ Peer(e) \in Sides /\ Peer(e) # e /\ Peer(Peer(e)) = e
  BY HandlerTypes DEF QueueInv
<1>2. /\ SideInv(ep[e], done[e]) /\ Moves(ep[e])
      /\ CloseLast(ep[e].closeReceived, done[e], net[Peer(e)])
      /\ Has(done[e], {"writeFailed"}) => broken
  BY QueueInvOf
<1>3. /\ ep[e] \in Endpoints /\ done[e] \in Seq(Completions)
      /\ sent[e] \in Seq(Payloads) /\ sent[Peer(e)] \in Seq(Payloads)
      /\ net[e] \in Seq(Frames) /\ net[Peer(e)] \in Seq(Frames)
  BY <1>1, HandlerTypes
<1>4. /\ Sending(e) /\ Sending(Peer(e)) /\ Receiving(e) /\ Receiving(Peer(e))
  BY <1>1 DEF StreamInv
<1> QED
  BY <1>1, <1>2, <1>3, <1>4 DEF Sending, Receiving

\* What holds of e and of its peer afterwards is enough.
LEMMA StreamSides ==
  ASSUME NEW e \in Sides,
         \A x \in {e, Peer(e)} :
           /\ Queued(ep'[x], sent'[x]) /\ WriteOK(ep'[x])
           /\ Flow(ep'[x], done'[x], net'[Peer(x)], sent'[Peer(x)], broken',
                   Offered(ep'[Peer(x)], done'[Peer(x)], sent'[Peer(x)]))
  PROVE  StreamInv'
<1>1. \A x \in Sides : x \in {e, Peer(e)}
  BY DEF Sides, Peer
<1> QED
  BY <1>1 DEF StreamInv, Sending, Receiving, Coming

\* What the users of both sides have been given.
Got == [e \in Sides |-> ep[e].got]

\* A call of the user preserves the invariant of the streams; as a step of
\* MessageStreams it is a Send or nothing.
LEMMA UserStreams ==
  ASSUME NoFullFrames, QueueInv, StreamInv, NEW e \in Sides, UserStep(e)
  PROVE  StreamInv' /\ Got' = Got /\ (sent' = sent \/ Streams!Send(e))
<1> DEFINE d == Peer(e)
<1>1. /\ TypeOK /\ d \in Sides /\ d # e /\ Peer(d) = e
      /\ SideInv(ep[e], done[e]) /\ Moves(ep[e])
      /\ sent[e] \in Seq(Payloads) /\ sent[d] \in Seq(Payloads)
      /\ Queued(ep[e], sent[e]) /\ WriteOK(ep[e])
      /\ Queued(ep[d], sent[d]) /\ WriteOK(ep[d])
      /\ Flow(ep[e], done[e], net[d], sent[d], broken, Coming(d))
      /\ Flow(ep[d], done[d], net[e], sent[e], broken, Coming(e))
  BY StreamInvOf
<1>2. PICK t : ep' = [ep EXCEPT ![e] = t] /\ UserEffect(e, ep[e], t)
  BY <1>1, UserHandled
<1>3. UNCHANGED <<net, done, broken>>
  BY <1>1, UserHandled
<1>4. ep'[e] = t /\ ep'[d] = ep[d]
  BY <1>1, <1>2 DEF TypeOK
<1>5. /\ SenderKept(ep[e], done[e], sent[e], ep'[e], done'[e], sent'[e])
      /\ \/ sent' = sent
         \/ \E p \in Payloads : sent' = [sent EXCEPT ![e] = Append(@, p)]
  BY <1>1, UserSends
<1>6. /\ sent'[d] = sent[d]
      /\ \/ sent'[e] = sent[e]
         \/ \E p \in Payloads : sent'[e] = Append(sent[e], p)
  BY <1>1, <1>5 DEF TypeOK
<1>7. Queued(ep'[e], sent'[e]) /\ WriteOK(ep'[e])
  BY <1>5 DEF SenderKept
<1>8. Offered(ep'[e], done'[e], sent'[e]) = Coming(e)
  BY <1>5 DEF SenderKept, Coming
<1>9. Flow(ep[d], done[d], net[e], sent'[e], broken, Coming(e))
  BY <1>1, <1>6, FlowMore
<1>10. Flow(ep'[e], done[e], net[d], sent[d], broken, Coming(d))
  <2>1. /\ t.got = ep[e].got /\ t.payload = ep[e].payload
        /\ t.closeReceived = ep[e].closeReceived
        /\ ep[e].stopped => t.stopped
    BY <1>2 DEF UserEffect
  <2> QED
    BY <1>1, <1>4, <2>1, FlowKept
<1>11. Offered(ep'[d], done'[d], sent'[d]) = Coming(d)
  BY <1>3, <1>4, <1>6 DEF Coming
<1>12. StreamInv'
  BY <1>1, <1>3, <1>4, <1>6, <1>7, <1>8, <1>9, <1>10, <1>11, StreamSides
<1>13. Got' = Got
  <2>1. \A x \in Sides : x = e \/ x = d
    BY DEF Sides, Peer
  <2>2. t.got = ep[e].got
    BY <1>2 DEF UserEffect
  <2> QED
    BY <1>4, <2>1, <2>2 DEF Got
<1>14. sent' = sent \/ Streams!Send(e)
  <2> SUFFICES ASSUME NEW p \in Payloads, sent' = [sent EXCEPT ![e] = Append(@, p)]
               PROVE  Streams!Send(e)
    BY <1>5
  <2>1. /\ sent \in [Sides -> Seq(Payloads)] /\ sent'[e] = Append(sent[e], p)
    BY <1>1 DEF TypeOK
  <2>2. /\ Len(sent'[e]) = Len(sent[e]) + 1 /\ sent'[e][Len(sent[e]) + 1] = p
    BY <1>1, <2>1
  <2> QED
    BY <1>13, <2>2 DEF Streams!Send, Got
<1> QED
  BY <1>12, <1>13, <1>14

\* A handler takes the first completion of its side and nothing else.
LEMMA WriteStreams ==
  ASSUME QueueInv, StreamInv, NEW e \in Sides, WriteStep(e)
  PROVE  StreamInv' /\ Got' = Got /\ sent' = sent
<1> DEFINE d == Peer(e)
<1>1. /\ TypeOK /\ d \in Sides /\ d # e /\ Peer(d) = e
      /\ SideInv(ep[e], done[e]) /\ Moves(ep[e])
      /\ Has(done[e], {"writeFailed"}) => broken
      /\ done[e] \in Seq(Completions)
      /\ Queued(ep[e], sent[e]) /\ WriteOK(ep[e])
      /\ Queued(ep[d], sent[d]) /\ WriteOK(ep[d])
      /\ Flow(ep[e], done[e], net[d], sent[d], broken, Coming(d))
      /\ Flow(ep[d], done[d], net[e], sent[e], broken, Coming(e))
  BY StreamInvOf
<1>2. done[e] # <<>> /\ Head(done[e]).kind \in WriteKinds
  BY <1>1, WriteHandled
<1>3. PICK t : Handle(e, t) /\ WriteEffect(ep[e], t, Head(done[e]))
  BY <1>1, WriteHandled DEF HandledWell
<1>4. /\ ep'[e] = t /\ ep'[d] = ep[d]
      /\ done'[e] = Tail(done[e]) /\ done'[d] = done[d]
      /\ UNCHANGED <<net, broken, sent>>
  BY <1>1, <1>3, HandleFrame
<1>5. /\ t.got = ep[e].got /\ t.payload = ep[e].payload
      /\ t.closeReceived = ep[e].closeReceived /\ t.stopped = ep[e].stopped
  BY <1>3 DEF WriteEffect
<1>6. /\ Queued(ep'[e], sent[e]) /\ WriteOK(ep'[e])
      /\ ~broken => Offered(ep'[e], done'[e], sent[e]) = Coming(e)
  <2>1. Head(done[e]).kind = "writeFailed" => broken
    <3>1. 1 \in DOMAIN done[e] /\ done[e][1] = Head(done[e])
      BY <1>1, <1>2
    <3> QED
      BY <1>1, <3>1 DEF Has
  <2>2. \/ SenderKept(ep[e], done[e], sent[e], ep'[e], done'[e], sent[e])
        \/ /\ Head(done[e]).kind = "writeFailed"
           /\ Queued(ep'[e], sent[e]) /\ WriteOK(ep'[e])
    BY <1>1, <1>4, WriteSends
  <2> QED
    BY <2>1, <2>2 DEF SenderKept, Coming
<1>7. Flow(ep'[e], done'[e], net[d], sent[d], broken, Coming(d))
  <2>1. Head(done[e]).kind # "read"
    BY <1>2 DEF WriteKinds
  <2>2. \A h, c : Handing(done[e], sent[d], h, c) => Handing(done'[e], sent[d], h, c)
    BY <1>1, <1>2, <1>4, <2>1, HandingPop
  <2> QED
    BY <1>1, <1>4, <1>5, <2>2, FlowKept
<1>8. Flow(ep[d], done[d], net[e], sent[e], broken,
           Offered(ep'[e], done'[e], sent[e]))
  BY <1>1, <1>6, FlowKept
<1>9. Offered(ep'[d], done'[d], sent'[d]) = Coming(d)
  BY <1>4 DEF Coming
<1>10. StreamInv'
  BY <1>1, <1>4, <1>6, <1>7, <1>8, <1>9, StreamSides
<1>11. Got' = Got
  <2>1. \A x \in Sides : x = e \/ x = d
    BY DEF Sides, Peer
  <2> QED
    BY <1>4, <1>5, <2>1 DEF Got
<1> QED
  BY <1>4, <1>10, <1>11

\* The handler of a read preserves the invariant; as a step of MessageStreams it is
\* a Receive or nothing.
LEMMA ReadStreams ==
  ASSUME QueueInv, StreamInv, NEW e \in Sides, ReadStep(e)
  PROVE  StreamInv' /\ sent' = sent /\ (Got' = Got \/ Streams!Receive(e))
<1> DEFINE d == Peer(e)
<1>1. /\ TypeOK /\ d \in Sides /\ d # e /\ Peer(d) = e
      /\ SideInv(ep[e], done[e]) /\ Moves(ep[e])
      /\ CloseLast(ep[e].closeReceived, done[e], net[d])
      /\ ep[e] \in Endpoints /\ sent[d] \in Seq(Payloads)
      /\ Queued(ep[e], sent[e]) /\ WriteOK(ep[e])
      /\ Queued(ep[d], sent[d]) /\ WriteOK(ep[d])
      /\ Flow(ep[e], done[e], net[d], sent[d], broken, Coming(d))
      /\ Flow(ep[d], done[d], net[e], sent[e], broken, Coming(e))
  BY StreamInvOf
<1>2. PICK t : Handle(e, t)
  BY <1>1, ReadHandled DEF HandledWell
<1>3. /\ ep'[e] = t /\ ep'[d] = ep[d]
      /\ done'[e] = Tail(done[e]) /\ done'[d] = done[d]
      /\ UNCHANGED <<net, broken, sent>>
  BY <1>1, <1>2, HandleFrame
<1>4. SenderKept(ep[e], done[e], sent[e], ep'[e], done'[e], sent[e])
  BY <1>1, <1>3, ReadSends
<1>5. /\ Queued(ep'[e], sent[e]) /\ WriteOK(ep'[e])
      /\ Offered(ep'[e], done'[e], sent[e]) = Coming(e)
  BY <1>4 DEF SenderKept, Coming
<1>6. /\ Flow(ep'[e], done'[e], net[d], sent[d], broken, Coming(d))
      /\ \/ ep'[e].got = ep[e].got
         \/ /\ Len(ep[e].got) + 1 \in DOMAIN sent[d]
            /\ ep'[e].got = Append(ep[e].got, sent[d][Len(ep[e].got) + 1])
  BY <1>1, ReadFlows
<1>7. Offered(ep'[d], done'[d], sent'[d]) = Coming(d)
  BY <1>3 DEF Coming
<1>8. StreamInv'
  BY <1>1, <1>3, <1>5, <1>6, <1>7, StreamSides
<1>9. \A x \in Sides : x = e \/ x = d
  BY DEF Sides, Peer
<1>10. CASE ep'[e].got = ep[e].got
  BY <1>3, <1>8, <1>9, <1>10 DEF Got
<1>11. CASE /\ Len(ep[e].got) + 1 \in DOMAIN sent[d]
            /\ ep'[e].got = Append(ep[e].got, sent[d][Len(ep[e].got) + 1])
  <2>1. Len(ep[e].got) \in Nat
    BY <1>1, HereType
  <2>2. Len(ep[e].got) < Len(sent[d])
    BY <1>1, <1>11, <2>1
  <2>3. Got[e] = ep[e].got
    BY DEF Got
  <2>4. Got' = [Got EXCEPT ![e] = Append(@, sent[d][Len(@) + 1])]
    BY <1>3, <1>9, <1>11 DEF Got
  <2>5. Streams!Receive(e)
    BY <1>3, <2>2, <2>3, <2>4 DEF Streams!Receive, Got
  <2> QED
    BY <1>3, <1>8, <2>5
<1> QED
  BY <1>6, <1>10, <1>11

\* The socket takes a frame that carries the bytes that come next, or a control
\* frame, which carries none.
LEMMA FlowAppend ==
  ASSUME NEW r, NEW q, NEW n \in Seq(Frames), NEW S, NEW o, NEW f \in Frames,
         Flow(r, q, n, S, FALSE, o), Cuts(f, S, o)
  PROVE  Flow(r, q, Append(n, f), S, FALSE, After(f, o))
<1> SUFFICES ASSUME ~r.stopped, ~r.closeReceived
             PROVE  /\ Held(r, S)
                    /\ \E c, d \in Cursors : /\ Handing(q, S, Here(r), c)
                                             /\ Chain(Append(n, f), S, c, d)
                                             /\ ~FALSE => d = After(f, o)
  BY DEF Flow
<1>1. Held(r, S)
  BY DEF Flow
<1>2. PICK c \in Cursors : /\ o \in Cursors /\ Handing(q, S, Here(r), c)
                           /\ Chain(n, S, c, o)
  BY DEF Flow
<1>3. Chain(Append(n, f), S, c, After(f, o)) /\ After(f, o) \in Cursors
  BY <1>2, ChainAppend, AfterType
<1> QED
  BY <1>1, <1>2, <1>3

\* The frame that arrives is the next the reader takes.
LEMMA FlowArrive ==
  ASSUME NEW r, NEW q \in Seq(Completions), NEW n \in Seq(Frames), n # <<>>,
         NEW S, NEW b, NEW o, Flow(r, q, n, S, b, o), ~Has(q, {"read"})
  PROVE  Flow(r, Append(q, [kind |-> "read", frame |-> Head(n)]), Tail(n), S, b, o)
<1> DEFINE p == [kind |-> "read", frame |-> Head(n)]
<1>1. p \in Completions /\ p.kind = "read" /\ p.frame = Head(n) /\ Head(n) \in Frames
  BY DEF Completions
<1> HIDE DEF p
<1> SUFFICES ASSUME ~r.stopped, ~r.closeReceived
             PROVE  /\ Held(r, S)
                    /\ \E c, d \in Cursors : /\ Handing(Append(q, p), S, Here(r), c)
                                             /\ Chain(Tail(n), S, c, d)
                                             /\ ~b => d = o
  BY DEF Flow, p
<1>2. Held(r, S)
  BY DEF Flow
<1>3. PICK x \in Cursors, y \in Cursors : /\ Handing(q, S, Here(r), x)
                                          /\ Chain(n, S, x, y) /\ (~b => y = o)
  BY DEF Flow
<1>4. Cuts(Head(n), S, x) /\ Chain(Tail(n), S, After(Head(n), x), y)
  BY <1>3, ChainHead
<1>5. Handing(Append(q, p), S, Here(r), After(Head(n), x))
  BY <1>1, <1>3, <1>4, HandingPush
<1>6. After(Head(n), x) \in Cursors
  BY <1>1, AfterType
<1> QED
  BY <1>2, <1>3, <1>4, <1>5, <1>6

\* The network and the io_service preserve the invariant and are no steps of
\* MessageStreams.
LEMMA IoStreams ==
  ASSUME QueueInv, StreamInv, NEW e \in Sides, IoStep(e) \/ ForeignFrame(e)
  PROVE  StreamInv' /\ Got' = Got /\ sent' = sent
<1> DEFINE d == Peer(e)
<1>1. /\ TypeOK /\ d \in Sides /\ d # e /\ Peer(d) = e
      /\ SideInv(ep[e], done[e])
      /\ ep[e] \in Endpoints /\ done[e] \in Seq(Completions)
      /\ sent[e] \in Seq(Payloads)
      /\ net[e] \in Seq(Frames) /\ net[d] \in Seq(Frames)
      /\ Queued(ep[e], sent[e]) /\ WriteOK(ep[e])
      /\ Queued(ep[d], sent[d]) /\ WriteOK(ep[d])
      /\ Flow(ep[e], done[e], net[d], sent[d], broken, Coming(d))
      /\ Flow(ep[d], done[d], net[e], sent[e], broken, Coming(e))
  BY StreamInvOf
<1>2. ep' = ep /\ sent' = sent /\ Got' = Got
  BY DEF IoStep, Transmit, FailWrite, Arrive, FailRead, ForeignFrame, Got
<1>3. broken \in BOOLEAN
  BY <1>1 DEF TypeOK
\* What is left is the way to e and the way to its peer.
<1>4. ASSUME done'[d] = done[d],
             Flow(ep[e], done'[e], net'[d], sent[d], broken', Coming(d)),
             Flow(ep[d], done[d], net'[e], sent[e], broken',
                  Offered(ep[e], done'[e], sent[e]))
      PROVE  StreamInv'
  BY <1>1, <1>2, <1>4, StreamSides DEF Coming
<1>5. ASSUME NEW c \in Completions, Complete(e, c)
      PROVE  /\ done'[e] = Append(done[e], c) /\ done'[d] = done[d]
             /\ Has(done'[e], {"wrote"}) <=> Has(done[e], {"wrote"}) \/ c.kind = "wrote"
  <2>1. done'[e] = Append(done[e], c) /\ done'[d] = done[d]
    BY <1>1, <1>5 DEF Complete, TypeOK
  <2> QED
    BY <1>1, <2>1, PushDone
<1>6. \A c \in Completions : c.kind # "read" =>
        \A h, x : Handing(done[e], sent[d], h, x) =>
                    Handing(Append(done[e], c), sent[d], h, x)
  BY <1>1, HandingPush
<1>7. CASE Transmit(e)
  <2> DEFINE c == [kind |-> "wrote"]
             f == Writing(e).frame
  <2>1. /\ WriteInFlight(e) /\ Complete(e, c) /\ ~broken
        /\ net' = [net EXCEPT ![e] = Append(@, f)] /\ broken' = broken
    BY <1>7 DEF Transmit
  <2>2. c \in Completions /\ c.kind = "wrote"
    BY DEF Completions
  <2> HIDE DEF c
  <2>3. done'[e] = Append(done[e], c) /\ done'[d] = done[d]
    BY <1>5, <2>1, <2>2
  <2>4. net'[e] = Append(net[e], f) /\ net'[d] = net[d]
    BY <1>1, <2>1 DEF TypeOK
  <2>5. ep[e].writes # <<>> /\ ~Has(done[e], {"wrote"}) /\ f = Head(ep[e].writes).frame
    BY <2>1 DEF WriteInFlight, Completed, Has, Writing
  <2>6. /\ f \in Frames /\ Cuts(f, sent[e], Coming(e))
        /\ Offered(ep[e], Append(done[e], c), sent[e]) = After(f, Coming(e))
    BY <1>1, <2>2, <2>5, Transmitted DEF Coming
  <2> HIDE DEF f
  <2>7. broken = FALSE /\ broken' = FALSE
    BY <1>3, <2>1
  <2>8. Flow(ep[d], done[d], net'[e], sent[e], broken',
             Offered(ep[e], done'[e], sent[e]))
    BY <1>1, <2>3, <2>4, <2>6, <2>7, FlowAppend
  <2>9. Flow(ep[e], done'[e], net'[d], sent[d], broken', Coming(d))
    BY <1>1, <1>6, <2>1, <2>2, <2>3, <2>4, FlowKept
  <2> QED
    BY <1>2, <1>4, <2>3, <2>8, <2>9
<1>8. CASE FailWrite(e) \/ FailRead(e)
  <2>1. PICK kind \in {"writeFailed", "readFailed"} : Complete(e, [kind |-> kind])
    BY <1>8 DEF FailWrite, FailRead
  <2> DEFINE c == [kind |-> kind]
  <2>2. c \in Completions /\ c.kind # "read" /\ c.kind # "wrote" /\ Complete(e, c)
    BY <2>1 DEF Completions
  <2> HIDE DEF c
  <2>3. done'[e] = Append(done[e], c) /\ done'[d] = done[d]
    BY <1>5, <2>2
  <2>4. Offered(ep[e], done'[e], sent[e]) = Coming(e)
    BY <1>5, <2>2 DEF Offered, Coming
  <2>5. net' = net /\ (broken => broken')
    BY <1>8 DEF FailWrite, FailRead
  <2>6. Flow(ep[e], done'[e], net'[d], sent[d], broken', Coming(d))
    BY <1>1, <1>6, <2>2, <2>3, <2>5, FlowKept
  <2>7. Flow(ep[d], done[d], net'[e], sent[e], broken',
             Offered(ep[e], done'[e], sent[e]))
    BY <1>1, <2>4, <2>5, FlowKept
  <2> QED
    BY <1>2, <1>4, <2>3, <2>6, <2>7
<1>9. CASE Arrive(e)
  <2> DEFINE c == [kind |-> "read", frame |-> Head(net[d])]
  <2>1. /\ ReadInFlight(e) /\ net[d] # <<>> /\ Complete(e, c)
        /\ net' = [net EXCEPT ![d] = Tail(@)] /\ broken' = broken
    BY <1>9 DEF Arrive
  <2>2. c \in Completions /\ c.kind = "read"
    BY <1>1, <2>1 DEF Completions
  <2>3. ~Has(done[e], {"read"})
    BY <2>1 DEF ReadInFlight, Completed, Has
  <2>4. Flow(ep[e], Append(done[e], c), Tail(net[d]), sent[d], broken, Coming(d))
    BY <1>1, <2>1, <2>3, FlowArrive
  <2> HIDE DEF c
  <2>5. done'[e] = Append(done[e], c) /\ done'[d] = done[d]
    BY <1>5, <2>1, <2>2
  <2>6. net'[e] = net[e] /\ net'[d] = Tail(net[d])
    BY <1>1, <2>1 DEF TypeOK
  <2>7. Offered(ep[e], done'[e], sent[e]) = Coming(e)
    BY <1>5, <2>1, <2>2 DEF Offered, Coming
  <2> QED
    BY <1>1, <1>2, <1>4, <2>1, <2>4, <2>5, <2>6, <2>7
<1>10. CASE ForeignFrame(e)
  <2>1. PICK op \in {"ping", "pong", "unknown"} :
          net' = [net EXCEPT ![e] = Append(@, [op |-> op, fin |-> TRUE, data |-> <<>>])]
    BY <1>10 DEF ForeignFrame
  <2> DEFINE f == [op |-> op, fin |-> TRUE, data |-> <<>>]
  <2>2. <<>> \in {p \in Payloads : Len(p) <= MaxFrame}
    BY WsAssumption DEF Payloads
  <2>3. f \in Frames /\ ~IsData(f)
    BY <2>2 DEF Frames, IsData
  <2>4. /\ net'[e] = Append(net[e], f) /\ net'[d] = net[d]
        /\ done' = done /\ broken' = broken /\ ~broken
    BY <1>1, <1>10, <2>1 DEF ForeignFrame, TypeOK
  <2> HIDE DEF f
  <2>5. Cuts(f, sent[e], Coming(e)) /\ After(f, Coming(e)) = Coming(e)
    BY <2>3 DEF Cuts, After
  <2>6. broken = FALSE /\ broken' = FALSE
    BY <1>3, <2>4
  <2>7. Flow(ep[d], done[d], net'[e], sent[e], broken', Coming(e))
    BY <1>1, <2>3, <2>4, <2>5, <2>6, FlowAppend
  <2> QED
    BY <1>1, <1>2, <1>4, <2>4, <2>7 DEF Coming
<1> QED
  BY <1>2, <1>7, <1>8, <1>9, <1>10 DEF IoStep


\* The connection starts in the invariant of the streams, MessageStreams in its
\* Init.
LEMMA StreamInit == Init => StreamInv /\ Streams!Init
<1> SUFFICES ASSUME Init
             PROVE  StreamInv /\ Streams!Init
  OBVIOUS
<1>1. ASSUME NEW e \in Sides
      PROVE  Sending(e) /\ Receiving(e)
  <2> DEFINE d == Peer(e)
  <2>1. d \in Sides
    BY DEF Sides, Peer
  <2>2. /\ ep[e] = New /\ done[e] = <<>> /\ sent[e] = <<>>
        /\ ep[d] = New /\ done[d] = <<>> /\ sent[d] = <<>> /\ net[d] = <<>>
    BY <2>1 DEF Init
  <2>3. /\ New.queue = <<>> /\ New.writes = <<>> /\ New.payload = <<>>
        /\ New.got = <<>> /\ Len(<<>>) = 0 /\ DOMAIN <<>> = {}
    BY DEF New
  <2>4. Queued(New, <<>>) /\ ~DataWrite(New) /\ WriteOK(New)
    BY <2>3 DEF Queued, DataWrite, WriteOK
  <2>5. At(1, 0) \in Cursors
    BY DEF At, Cursors
  <2>6. Offered(New, <<>>, <<>>) = At(1, 0) /\ Here(New) = At(1, 0)
    BY <2>3, <2>4 DEF Offered, NextUp, Here
  <2>7. Handing(<<>>, <<>>, At(1, 0), At(1, 0)) /\ Chain(<<>>, <<>>, At(1, 0), At(1, 0))
    BY <2>3, <2>5, ChainEmpty DEF Handing, Has
  <2>8. Flow(New, <<>>, <<>>, <<>>, broken, At(1, 0))
    BY <2>3, <2>5, <2>6, <2>7 DEF Flow, Held
  <2> QED
    BY <2>2, <2>4, <2>6, <2>8 DEF Sending, Receiving, Coming
<1>2. [e \in Sides |-> ep[e].got] = [e \in Sides |-> <<>>]
  BY DEF Init, New
<1>3. Streams!Init
  BY <1>2 DEF Init, Streams!Init
<1> QED
  BY <1>1, <1>3 DEF StreamInv

\* Every step preserves the invariant of the streams and is a step of
\* MessageStreams or a stutter.
LEMMA StreamStep ==
  ASSUME NoFullFrames
  PROVE  QueueInv /\ StreamInv /\ [Next]_vars =>
           StreamInv' /\ [Streams!Next]_(Streams!vars)
<1> SUFFICES ASSUME QueueInv, StreamInv, [Next]_vars
             PROVE  StreamInv' /\ [Streams!Next]_(Streams!vars)
  OBVIOUS
<1>1. ASSUME sent' = sent, Got' = Got
      PROVE  [Streams!Next]_(Streams!vars)
  BY <1>1 DEF Streams!vars, Got
<1>2. ASSUME NEW e \in Sides, Streams!Send(e) \/ Streams!Receive(e)
      PROVE  [Streams!Next]_(Streams!vars)
  BY <1>2 DEF Streams!Next
<1>3. CASE UNCHANGED vars \/ Break
  <2>1. UNCHANGED <<ep, net, done, sent>> /\ (broken => broken') /\ Got' = Got
    BY <1>3 DEF vars, Break, Got
  <2>2. ASSUME NEW e \in Sides
        PROVE  Sending(e)' /\ Receiving(e)'
    <3> DEFINE d == Peer(e)
    <3>1. /\ Queued(ep[e], sent[e]) /\ WriteOK(ep[e])
          /\ Flow(ep[e], done[e], net[d], sent[d], broken, Coming(d))
      BY DEF StreamInv, Sending, Receiving
    <3>2. Coming(d)' = Coming(d)
      BY <2>1 DEF Coming
    <3>3. Flow(ep[e], done[e], net[d], sent[d], broken', Coming(d))
      BY <2>1, <3>1, FlowKept
    <3> QED
      BY <2>1, <3>1, <3>2, <3>3 DEF Sending, Receiving
  <2>3. StreamInv'
    BY <2>2 DEF StreamInv
  <2> QED
    BY <1>1, <2>1, <2>3
<1>4. ASSUME NEW e \in Sides, UserStep(e)
      PROVE  StreamInv' /\ [Streams!Next]_(Streams!vars)
  BY <1>1, <1>2, <1>4, UserStreams
<1>5. ASSUME NEW e \in Sides, WriteStep(e) \/ IoStep(e) \/ ForeignFrame(e)
      PROVE  StreamInv' /\ [Streams!Next]_(Streams!vars)
  BY <1>1, <1>5, WriteStreams, IoStreams
<1>6. ASSUME NEW e \in Sides, ReadStep(e)
      PROVE  StreamInv' /\ [Streams!Next]_(Streams!vars)
  BY <1>1, <1>2, <1>6, ReadStreams
<1> QED
  BY <1>3, <1>4, <1>5, <1>6 DEF Next

-----------------------------------------------------------------------------
(* The theorems *)

\* The inductive invariant of the streams holds, when no message ends with a
\* full frame.
LEMMA StreamInvariant ==
  ASSUME NoFullFrames
  PROVE  Spec => []StreamInv
<1>1. QueueInv /\ StreamInv /\ [Next]_vars => StreamInv'
  BY StreamStep
<1>2. Init => StreamInv
  BY StreamInit
<1> QED
  BY <1>1, <1>2, QueueInvariant, PTL DEF Spec

\* Each message reaches the user of the other side at most once, whole and in
\* the order of sending, when no message ends with a full frame.
THEOREM MessagesAreStreams ==
  ASSUME NoFullFrames
  PROVE  Spec => RefinesStreams
<1>1. Init => Streams!Init
  BY StreamInit
<1>2. QueueInv /\ StreamInv /\ [Next]_vars => [Streams!Next]_(Streams!vars)
  BY StreamStep
<1> QED
  BY <1>1, <1>2, QueueInvariant, StreamInvariant, PTL DEF Spec, RefinesStreams, Streams!Spec
=============================================================================
