-------------------------- MODULE WsEndpointProofs --------------------------
(***************************************************************************)
(* The send queue and the close frame of WsEndpoint, for all messages and  *)
(* any number of them, of every size, with both users closing at any time, *)
(* with failures, stops and foreign control frames.                        *)
(*                                                                         *)
(* The inductive invariant QueueInv says of a side that a write in flight  *)
(* belongs to the loop that runs, is the only one and is of the message at *)
(* the head of the queue or of the close frame; that a side without a loop *)
(* has an empty queue or was told why; and of what is on its way from a    *)
(* side that nothing follows a close frame, because a loop that has given  *)
(* it to the socket stays marked as running.                               *)
(***************************************************************************)
EXTENDS WsEndpointProps, SequenceTheorems, TLAPS

-----------------------------------------------------------------------------
(* Types *)

WriteOps == {"text", "continuation", "close"}
InFlight == [frame : Frames, rest : Payloads]

\* What message_sender puts in a frame, and what it leaves for the next.
LEMMA FragmentOf ==
  ASSUME NEW op \in WriteOps, NEW rest \in Payloads
  PROVE  /\ Fragment(op, rest) \in InFlight
         /\ Fragment(op, rest).frame.op = op
         /\ (Fragment(op, rest).frame.fin <=> MaxFrame > Len(rest))
         /\ MaxFrame > Len(rest) =>
              Fragment(op, rest).frame.data = rest /\ Fragment(op, rest).rest = <<>>
         /\ MaxFrame <= Len(rest) =>
              /\ Fragment(op, rest).frame.data = SubSeq(rest, 1, MaxFrame)
              /\ Fragment(op, rest).rest = SubSeq(rest, MaxFrame + 1, Len(rest))
<1>1. MaxFrame \in Nat \ {0} /\ Len(rest) \in Nat
  BY WsAssumption DEF Payloads
<1>2. CASE MaxFrame > Len(rest)
  <2>1. Fragment(op, rest) =
          [frame |-> [op |-> op, fin |-> TRUE, data |-> rest], rest |-> <<>>]
    BY <1>2 DEF Fragment
  <2>2. [op |-> op, fin |-> TRUE, data |-> rest] \in Frames
    BY <1>1, <1>2 DEF Frames, WriteOps
  <2>3. <<>> \in Payloads
    BY DEF Payloads
  <2> QED
    BY <1>1, <1>2, <2>1, <2>2, <2>3 DEF InFlight
<1>3. CASE MaxFrame <= Len(rest)
  <2>1. /\ SubSeq(rest, 1, MaxFrame) \in Payloads
        /\ Len(SubSeq(rest, 1, MaxFrame)) = MaxFrame
    BY <1>1, <1>3 DEF Payloads
  <2>2. SubSeq(rest, MaxFrame + 1, Len(rest)) \in Payloads
    BY <1>1, <1>3 DEF Payloads
  <2>3. ~(MaxFrame > Len(rest))
    BY <1>1, <1>3
  <2>4. Fragment(op, rest) =
          [frame |-> [op |-> op, fin |-> FALSE, data |-> SubSeq(rest, 1, MaxFrame)],
           rest |-> SubSeq(rest, MaxFrame + 1, Len(rest))]
    BY <2>3 DEF Fragment
  <2>5. [op |-> op, fin |-> FALSE, data |-> SubSeq(rest, 1, MaxFrame)] \in Frames
    BY <1>1, <2>1 DEF Frames, WriteOps
  <2> QED
    BY <1>1, <1>3, <2>2, <2>4, <2>5 DEF InFlight
<1> QED
  BY <1>1, <1>2, <1>3

\* Starting a write, a turn of the loop, the loop and a close give an endpoint.
LEMMA StartWriteType ==
  ASSUME NEW s \in Endpoints, NEW op \in WriteOps, NEW rest \in Payloads
  PROVE  StartWrite(s, op, rest) \in Endpoints
<1>1. s.writes \in Seq(InFlight) /\ Fragment(op, rest) \in InFlight
  BY FragmentOf DEF Endpoints, InFlight
<1>2. Append(s.writes, Fragment(op, rest)) \in Seq(InFlight)
  BY <1>1
<1> QED
  BY <1>2 DEF StartWrite, Endpoints, InFlight

\* A turn of the loop leaves an endpoint.
LEMMA RunQueueType ==
  ASSUME NEW s \in Endpoints
  PROVE  RunQueue(s) \in Endpoints
<1>1. <<>> \in Payloads
  BY DEF Payloads
<1>2. s.queue # <<>> => Head(s.queue) \in Payloads
  BY DEF Endpoints
<1>3. [s EXCEPT !.running = FALSE] \in Endpoints
  BY DEF Endpoints
<1> QED
  BY <1>1, <1>2, <1>3, StartWriteType DEF RunQueue, WriteOps

\* So do the start of the loop and a close.
LEMMA StartSendQueueType ==
  ASSUME NEW s \in Endpoints
  PROVE  StartSendQueue(s) \in Endpoints /\ SendClose(s) \in Endpoints
<1>1. ASSUME NEW t \in Endpoints
      PROVE  StartSendQueue(t) \in Endpoints
  <2>1. [t EXCEPT !.running = TRUE] \in Endpoints
    BY DEF Endpoints
  <2> QED
    BY <2>1, RunQueueType DEF StartSendQueue
<1>2. [s EXCEPT !.control = "close"] \in Endpoints
  BY DEF Endpoints
<1> QED
  BY <1>1, <1>2 DEF SendClose

\* So does taking the message that was sent from the queue.
LEMMA PopQueueType ==
  ASSUME NEW s \in Endpoints
  PROVE  PopQueue(s) \in Endpoints
<1>1. s.queue \in Seq(Payloads)
  BY DEF Endpoints
<1>2. CASE s.queue # <<>>
  <2>1. Tail(s.queue) \in Seq(Payloads)
    BY <1>1, <1>2
  <2> QED
    BY <1>2, <2>1 DEF PopQueue, Endpoints
<1> QED
  BY <1>2 DEF PopQueue

\* So does telling the user of something (call_handler).
LEMMA NotifyType ==
  ASSUME NEW s \in Endpoints, NEW event \in Events, NEW p \in Payloads
  PROVE  Notify(s, event) \in Endpoints /\ Deliver(s, p) \in Endpoints
<1>1. /\ s.events \in Seq(Events) /\ s.got \in Seq(Payloads)
      /\ "message" \in Events
  BY DEF Endpoints, Events
<1>2. /\ Append(s.events, event) \in Seq(Events)
      /\ Append(s.events, "message") \in Seq(Events)
      /\ Append(s.got, p) \in Seq(Payloads)
  BY <1>1
<1>3. [s EXCEPT !.events = Append(@, event)] \in Endpoints
  BY <1>2 DEF Endpoints
<1>4. [s EXCEPT !.got = Append(@, p), !.events = Append(@, "message")] \in Endpoints
  BY <1>2 DEF Endpoints
<1> QED
  BY <1>3, <1>4 DEF Notify, Deliver

\* A frame that is read is a frame, and the types of what a handler finds.
LEMMA HandlerTypes ==
  ASSUME TypeOK, NEW e \in Sides
  PROVE  /\ ep[e] \in Endpoints /\ done[e] \in Seq(Completions)
         /\ Peer(e) \in Sides /\ Peer(e) # e /\ Peer(Peer(e)) = e
         /\ net[e] \in Seq(Frames) /\ sent[e] \in Seq(Payloads)
         /\ done[e] # <<>> =>
              Head(done[e]) \in Completions /\ Tail(done[e]) \in Seq(Completions)
         /\ Due(e, "read") => Read(e) \in Frames
         /\ ep[e].writes # <<>> =>
              Writing(e) \in InFlight /\ AfterWrite(e) \in Endpoints
<1>1. ep[e] \in Endpoints /\ done[e] \in Seq(Completions)
  BY DEF TypeOK
<1>2. Peer(e) \in Sides /\ Peer(e) # e /\ Peer(Peer(e)) = e
  BY DEF Sides, Peer
<1>3. net[e] \in Seq(Frames) /\ sent[e] \in Seq(Payloads)
  BY DEF TypeOK
<1>4. done[e] # <<>> =>
        Head(done[e]) \in Completions /\ Tail(done[e]) \in Seq(Completions)
  BY <1>1
<1>5. Due(e, "read") => Read(e) \in Frames
  BY <1>4 DEF Due, Read, Completions
<1>6. ASSUME ep[e].writes # <<>>
      PROVE  Writing(e) \in InFlight /\ AfterWrite(e) \in Endpoints
  <2>1. ep[e].writes \in Seq(InFlight)
    BY <1>1 DEF Endpoints, InFlight
  <2>2. Head(ep[e].writes) \in InFlight /\ Tail(ep[e].writes) \in Seq(InFlight)
    BY <1>6, <2>1
  <2> QED
    BY <1>1, <2>2 DEF Writing, AfterWrite, Endpoints, InFlight
<1> QED
  BY <1>1, <1>2, <1>3, <1>4, <1>5, <1>6

\* The message send_message is called with.
LEMMA MessagePayload ==
  ASSUME NEW n \in Nat, NEW v \in Nat
  PROVE  /\ [i \in 1..n |-> v] \in Payloads
         /\ Len([i \in 1..n |-> v]) = n
<1>1. [i \in 1..n |-> v] \in [1..n -> Nat]
  OBVIOUS
<1>2. [i \in 1..n |-> v] \in Seq(Nat)
  BY <1>1, SeqDef
<1> QED
  BY <1>2 DEF Payloads

\* A handler leaves an endpoint, so its step keeps the types.
LEMMA HandleType ==
  ASSUME TypeOK, NEW e \in Sides, NEW s \in Endpoints,
         done[e] # <<>>, Handle(e, s)
  PROVE  TypeOK'
<1>1. Tail(done[e]) \in Seq(Completions)
  BY HandlerTypes
<1>2. done' \in [Sides -> Seq(Completions)]
  BY <1>1 DEF TypeOK, Handle
<1>3. ep' \in [Sides -> Endpoints]
  BY DEF TypeOK, Handle
<1> QED
  BY <1>2, <1>3 DEF TypeOK, Handle

\* The types survive the calls of the user: send_message, send_close,
\* start_messaging and stop.
LEMMA UserType ==
  ASSUME TypeOK, NEW e \in Sides, UserStep(e)
  PROVE  TypeOK'
<1>0. ep[e] \in Endpoints /\ sent[e] \in Seq(Payloads)
  BY HandlerTypes
<1>1. CASE SendMessage(e)
  <2>1. PICK n \in Sizes : Send(e, [i \in 1..n |-> Len(sent[e]) + 1])
    BY <1>1 DEF SendMessage
  <2> DEFINE p == [i \in 1..n |-> Len(sent[e]) + 1]
  <2>2. n \in Nat /\ Len(sent[e]) + 1 \in Nat
    BY WsAssumption, <1>0
  <2>3. p \in Payloads /\ Send(e, p)
    BY <2>1, <2>2, MessagePayload
  <2> HIDE DEF p
  <2>4. Append(ep[e].queue, p) \in Seq(Payloads)
    BY <2>3, <1>0 DEF Endpoints
  <2>5. Enqueue(ep[e], p) \in Endpoints
    BY <2>4, <1>0 DEF Enqueue, Endpoints
  <2>6. ep' \in [Sides -> Endpoints]
    <3>1. StartSendQueue(Enqueue(ep[e], p)) \in Endpoints
      BY <2>5, StartSendQueueType
    <3> QED
      BY <2>3, <3>1 DEF Send, TypeOK
  <2>7. sent' \in [Sides -> Seq(Payloads)]
    <3>1. Append(sent[e], p) \in Seq(Payloads)
      BY <2>3, <1>0
    <3> QED
      BY <2>3, <3>1 DEF Send, TypeOK
  <2> QED
    BY <2>3, <2>6, <2>7 DEF Send, TypeOK
<1>2. CASE CallClose(e)
  <2>1. SendClose(ep[e]) \in Endpoints
    BY <1>0, StartSendQueueType
  <2> QED
    BY <1>2, <2>1 DEF CallClose, TypeOK
<1>3. CASE StartMessaging(e)
  <2> DEFINE s == [ep[e] EXCEPT !.started = TRUE, !.reading = TRUE]
  <2>1. s \in Endpoints
    BY <1>0 DEF Endpoints
  <2>2. ep' = [ep EXCEPT ![e] = IF s.queue # <<>> THEN StartSendQueue(s) ELSE s]
    BY <1>3 DEF StartMessaging
  <2> HIDE DEF s
  <2>3. (IF s.queue # <<>> THEN StartSendQueue(s) ELSE s) \in Endpoints
    BY <2>1, StartSendQueueType
  <2>4. ep' \in [Sides -> Endpoints]
    BY <2>2, <2>3 DEF TypeOK
  <2> QED
    BY <1>3, <2>4 DEF StartMessaging, TypeOK
<1>4. CASE Stop(e)
  <2>1. [ep[e] EXCEPT !.stopped = TRUE] \in Endpoints
    BY <1>0 DEF Endpoints
  <2>2. ep' = [ep EXCEPT ![e] = [ep[e] EXCEPT !.stopped = TRUE]]
    BY <1>4 DEF Stop
  <2> QED
    BY <1>4, <2>1, <2>2 DEF Stop, TypeOK
<1> QED
  BY <1>1, <1>2, <1>3, <1>4 DEF UserStep

\* The types survive the handlers of writes.
LEMMA WriteType ==
  ASSUME TypeOK, NEW e \in Sides, WriteStep(e), ep[e].writes # <<>>
  PROVE  TypeOK'
<1>1. AfterWrite(e) \in Endpoints /\ Writing(e).rest \in Payloads
  BY HandlerTypes DEF InFlight
<1>2. done[e] # <<>>
  BY DEF WriteStep, WroteFragment, WroteMessage, WroteClose, WriteFailed,
         CloseWriteFailed, Due
<1>3. <<>> \in Payloads
  BY DEF Payloads
<1>4. CASE WroteFragment(e)
  <2>1. StartWrite(AfterWrite(e), "continuation", Writing(e).rest) \in Endpoints
    BY <1>1, StartWriteType DEF WriteOps
  <2> QED
    BY <1>2, <1>4, <2>1, HandleType DEF WroteFragment
<1>5. CASE WroteMessage(e)
  <2>1. RunQueue(PopQueue(AfterWrite(e))) \in Endpoints
    BY <1>1, PopQueueType, RunQueueType
  <2> QED
    BY <1>2, <1>5, <2>1, HandleType DEF WroteMessage
<1>6. CASE WroteClose(e)
  BY <1>1, <1>2, <1>3, <1>6, HandleType, NotifyType DEF WroteClose, Events
<1>7. \A expected \in BOOLEAN : SendFailed(AfterWrite(e), expected) \in Endpoints
  <2>1. [AfterWrite(e) EXCEPT !.running = FALSE] \in Endpoints
    BY <1>1 DEF Endpoints
  <2> QED
    BY <1>3, <2>1, NotifyType DEF SendFailed, Events
<1>8. CASE WriteFailed(e) \/ CloseWriteFailed(e)
  BY <1>1, <1>2, <1>7, <1>8, HandleType DEF WriteFailed, CloseWriteFailed
<1> QED
  BY <1>4, <1>5, <1>6, <1>8 DEF WriteStep

\* The types survive the handlers of the reader.
LEMMA ReadType ==
  ASSUME TypeOK, NEW e \in Sides, ReadStep(e)
  PROVE  TypeOK'
<1>1. ep[e] \in Endpoints
  BY HandlerTypes
<1>2. done[e] # <<>>
  BY DEF ReadStep, ReadData, ReadClose, ReadPing, ReadPong, ReadBadInput,
         ReadFailed, Due
<1>3. <<>> \in Payloads
  BY DEF Payloads
<1>4. ASSUME Due(e, "read")
      PROVE  Read(e).data \in Payloads
  <2>1. Read(e) \in Frames
    BY <1>4, HandlerTypes
  <2> QED
    BY <2>1 DEF Frames
<1>5. CASE ReadData(e)
  <2> DEFINE s == [ep[e] EXCEPT !.payload = @ \o Read(e).data]
  <2>1. Read(e).data \in Payloads /\ ep[e].payload \in Payloads
    BY <1>1, <1>4, <1>5 DEF ReadData, Endpoints
  <2>2. ep[e].payload \o Read(e).data \in Payloads
    BY <2>1 DEF Payloads
  <2>3. s \in Endpoints /\ s.payload \in Payloads
    BY <1>1, <2>2 DEF Endpoints
  <2>4. Handle(e, IF Read(e).fin
                  THEN [Deliver(s, s.payload) EXCEPT !.payload = <<>>] ELSE s)
    BY <1>5 DEF ReadData
  <2> HIDE DEF s
  <2>5. Deliver(s, s.payload) \in Endpoints
    BY <2>3, NotifyType DEF Events
  <2>6. [Deliver(s, s.payload) EXCEPT !.payload = <<>>] \in Endpoints
    BY <1>3, <2>5 DEF Endpoints
  <2> QED
    BY <1>2, <2>3, <2>4, <2>6, HandleType
<1>6. CASE ReadClose(e)
  <2> DEFINE s == [ep[e] EXCEPT !.payload = <<>>, !.closeReceived = TRUE,
                                !.reading = FALSE]
  <2>1. s \in Endpoints
    BY <1>1, <1>3 DEF Endpoints
  <2>2. Handle(e, IF IsSendingClose(s) THEN Notify(s, "close") ELSE SendClose(s))
    BY <1>6 DEF ReadClose
  <2> HIDE DEF s
  <2>3. /\ Notify(s, "close") \in Endpoints
        /\ SendClose(s) \in Endpoints
    BY <1>3, <2>1, NotifyType, StartSendQueueType DEF Events
  <2> QED
    BY <1>2, <2>2, <2>3, HandleType
<1>7. CASE ReadPing(e)
  <2>1. [ep[e] EXCEPT !.control = "pong"] \in Endpoints
    BY <1>1 DEF Endpoints
  <2> QED
    BY <1>1, <1>2, <1>7, <2>1, HandleType DEF ReadPing
<1>8. CASE ReadPong(e)
  BY <1>1, <1>2, <1>8, HandleType DEF ReadPong
<1>9. \A event \in Events : [Notify(ep[e], event) EXCEPT !.reading = FALSE] \in Endpoints
  <2>1. \A event \in Events : Notify(ep[e], event) \in Endpoints
    BY <1>1, <1>3, NotifyType
  <2> QED
    BY <2>1 DEF Endpoints
<1>10. CASE ReadBadInput(e) \/ ReadFailed(e)
  BY <1>2, <1>9, <1>10, HandleType DEF ReadBadInput, ReadFailed, Events
<1> QED
  BY <1>5, <1>6, <1>7, <1>8, <1>10 DEF ReadStep

\* A completion is put behind those that are due.
LEMMA CompleteType ==
  ASSUME TypeOK, NEW e \in Sides, NEW c \in Completions, Complete(e, c)
  PROVE  done' \in [Sides -> Seq(Completions)]
<1>1. Append(done[e], c) \in Seq(Completions)
  BY HandlerTypes
<1> QED
  BY <1>1 DEF Complete, TypeOK

\* The types survive the steps of the network and the io_service.
LEMMA IoType ==
  ASSUME TypeOK, NEW e \in Sides, IoStep(e) \/ ForeignFrame(e)
  PROVE  TypeOK'
<1>0. Peer(e) \in Sides /\ net[e] \in Seq(Frames) /\ net[Peer(e)] \in Seq(Frames)
  BY HandlerTypes
<1>1. CASE Transmit(e)
  <2>1. Writing(e).frame \in Frames
    BY <1>1, HandlerTypes DEF Transmit, WriteInFlight, InFlight
  <2>2. Append(net[e], Writing(e).frame) \in Seq(Frames)
    BY <1>0, <2>1
  <2>3. [kind |-> "wrote"] \in Completions
    BY DEF Completions
  <2> QED
    BY <1>1, <2>2, <2>3, CompleteType DEF Transmit, TypeOK
<1>2. CASE FailWrite(e)
  <2>1. [kind |-> "writeFailed"] \in Completions
    BY DEF Completions
  <2> QED
    BY <1>2, <2>1, CompleteType DEF FailWrite, TypeOK
<1>3. CASE Arrive(e)
  <2>1. Head(net[Peer(e)]) \in Frames /\ Tail(net[Peer(e)]) \in Seq(Frames)
    BY <1>0, <1>3 DEF Arrive
  <2>2. [kind |-> "read", frame |-> Head(net[Peer(e)])] \in Completions
    BY <2>1 DEF Completions
  <2> QED
    BY <1>3, <2>1, <2>2, CompleteType DEF Arrive, TypeOK
<1>4. CASE FailRead(e)
  <2>1. [kind |-> "readFailed"] \in Completions
    BY DEF Completions
  <2> QED
    BY <1>4, <2>1, CompleteType DEF FailRead, TypeOK
<1>5. CASE ForeignFrame(e)
  <2>1. PICK op \in {"ping", "pong", "unknown"} :
          net' = [net EXCEPT ![e] = Append(@, [op |-> op, fin |-> TRUE, data |-> <<>>])]
    BY <1>5 DEF ForeignFrame
  <2>2. <<>> \in {q \in Payloads : Len(q) <= MaxFrame}
    BY WsAssumption DEF Payloads
  <2>3. [op |-> op, fin |-> TRUE, data |-> <<>>] \in Frames
    BY <2>2 DEF Frames
  <2>4. Append(net[e], [op |-> op, fin |-> TRUE, data |-> <<>>]) \in Seq(Frames)
    BY <1>0, <2>3
  <2>5. foreign' \in 0..MaxForeign
    BY <1>5, WsAssumption DEF ForeignFrame, TypeOK
  <2> QED
    BY <1>5, <2>1, <2>4, <2>5 DEF ForeignFrame, TypeOK
<1> QED
  BY <1>1, <1>2, <1>3, <1>4, <1>5 DEF IoStep

-----------------------------------------------------------------------------
(* The inductive invariant: one side *)

WriteKinds == {"wrote", "writeFailed"}
ReadKinds == {"read", "readFailed"}

Has(q, kinds) == \E i \in DOMAIN q : q[i].kind \in kinds

DueClose(q) == \E i \in DOMAIN q : q[i].kind = "read" /\ q[i].frame.op = "close"

\* A side waits for one write and for one read at a time.
OneOfEach(q) == \A i, j \in DOMAIN q :
  (q[i].kind \in WriteKinds <=> q[j].kind \in WriteKinds) => i = j

\* A close frame is written whole and for good, a fragment is of the message at
\* the head of the queue.
IsWriteOf(s, w) ==
  IF w.frame.op = "close" THEN IsSendingClose(s) /\ w.rest = <<>>
  ELSE IsData(w.frame) /\ s.queue # <<>>

SideInv(s, q) ==
  /\ Len(s.writes) <= 1
  /\ s.writes # <<>> => s.running /\ IsWriteOf(s, Head(s.writes))
  /\ s.running /\ s.writes = <<>> => IsSendingClose(s)
  /\ Has(q, WriteKinds) => s.writes # <<>>
  /\ OneOfEach(q)

\* What QueueMoves says of a side.
Moves(s) ==
  s.started /\ ~s.stopped /\ ~s.running /\ s.queue # <<>> =>
    \E i \in DOMAIN s.events : s.events[i] \in {"error", "close"}

\* A completion is of a write or of a read.
LEMMA CompletionKinds ==
  \A c \in Completions : c.kind \in WriteKinds \cup ReadKinds
BY DEF Completions, WriteKinds, ReadKinds

\* The handler that is due first is taken away.
LEMMA PopDone ==
  ASSUME NEW q \in Seq(Completions), q # <<>>
  PROVE  /\ \A K : Has(q, K) <=> Head(q).kind \in K \/ Has(Tail(q), K)
         /\ DueClose(q) <=> \/ Head(q).kind = "read" /\ Head(q).frame.op = "close"
                            \/ DueClose(Tail(q))
         /\ OneOfEach(q) =>
              /\ OneOfEach(Tail(q))
              /\ Head(q).kind \in WriteKinds => ~Has(Tail(q), WriteKinds)
              /\ Head(q).kind \in ReadKinds => ~Has(Tail(q), ReadKinds)
<1>1. /\ DOMAIN q = 1..Len(q) /\ Len(q) \in Nat /\ Len(q) > 0
      /\ DOMAIN Tail(q) = 1..(Len(q) - 1) /\ Head(q) = q[1]
      /\ \A i \in 1..(Len(q) - 1) : Tail(q)[i] = q[i + 1]
  OBVIOUS
<1>2. \A i \in DOMAIN q : q[i].kind \in WriteKinds \cup ReadKinds
  BY CompletionKinds
<1>3. \A i \in DOMAIN q : i = 1 \/ (i - 1 \in DOMAIN Tail(q) /\ Tail(q)[i - 1] = q[i])
  BY <1>1
<1>4. \A i \in DOMAIN Tail(q) : i + 1 \in DOMAIN q /\ Tail(q)[i] = q[i + 1]
  BY <1>1
<1>5. ASSUME NEW K
      PROVE  Has(q, K) <=> Head(q).kind \in K \/ Has(Tail(q), K)
  <2>1. ASSUME NEW i \in DOMAIN q, q[i].kind \in K
        PROVE  Head(q).kind \in K \/ Has(Tail(q), K)
    BY <1>1, <1>3, <2>1 DEF Has
  <2>2. ASSUME NEW i \in DOMAIN Tail(q), Tail(q)[i].kind \in K
        PROVE  Has(q, K)
    BY <1>4, <2>2 DEF Has
  <2>3. Head(q).kind \in K => Has(q, K)
    BY <1>1 DEF Has
  <2> QED
    BY <2>1, <2>2, <2>3 DEF Has
<1>6. DueClose(q) <=> \/ Head(q).kind = "read" /\ Head(q).frame.op = "close"
                     \/ DueClose(Tail(q))
  <2>1. ASSUME NEW i \in DOMAIN q, q[i].kind = "read", q[i].frame.op = "close"
        PROVE  \/ Head(q).kind = "read" /\ Head(q).frame.op = "close"
               \/ DueClose(Tail(q))
    BY <1>1, <1>3, <2>1 DEF DueClose
  <2>2. ASSUME NEW i \in DOMAIN Tail(q), Tail(q)[i].kind = "read",
               Tail(q)[i].frame.op = "close"
        PROVE  DueClose(q)
    BY <1>4, <2>2 DEF DueClose
  <2>3. Head(q).kind = "read" /\ Head(q).frame.op = "close" => DueClose(q)
    BY <1>1 DEF DueClose
  <2> QED
    BY <2>1, <2>2, <2>3 DEF DueClose
<1>7. ASSUME OneOfEach(q)
      PROVE  /\ OneOfEach(Tail(q))
             /\ Head(q).kind \in WriteKinds => ~Has(Tail(q), WriteKinds)
             /\ Head(q).kind \in ReadKinds => ~Has(Tail(q), ReadKinds)
  <2>1. \A i, j \in DOMAIN Tail(q) : i + 1 = j + 1 => i = j
    BY <1>1
  <2>2. OneOfEach(Tail(q))
    BY <1>4, <1>7, <2>1 DEF OneOfEach
  <2>3. \A i \in DOMAIN Tail(q) : i + 1 # 1
    BY <1>1
  <2>4. 1 \in DOMAIN q
    BY <1>1
  <2>5. WriteKinds \cap ReadKinds = {}
    BY DEF WriteKinds, ReadKinds
  <2> QED
    BY <1>1, <1>2, <1>4, <1>7, <2>2, <2>3, <2>4, <2>5 DEF OneOfEach, Has
<1> QED
  BY <1>5, <1>6, <1>7

\* An operation completes.
LEMMA PushDone ==
  ASSUME NEW q \in Seq(Completions), NEW c \in Completions
  PROVE  /\ \A K : Has(Append(q, c), K) <=> Has(q, K) \/ c.kind \in K
         /\ DueClose(Append(q, c)) <=>
              DueClose(q) \/ (c.kind = "read" /\ c.frame.op = "close")
         /\ OneOfEach(q) =>
              /\ c.kind \in WriteKinds /\ ~Has(q, WriteKinds) => OneOfEach(Append(q, c))
              /\ c.kind \in ReadKinds /\ ~Has(q, ReadKinds) => OneOfEach(Append(q, c))
<1> DEFINE r == Append(q, c)
<1>1. /\ DOMAIN q = 1..Len(q) /\ Len(q) \in Nat
      /\ DOMAIN r = 1..(Len(q) + 1) /\ r[Len(q) + 1] = c
      /\ \A i \in 1..Len(q) : r[i] = q[i]
  OBVIOUS
<1> HIDE DEF r
<1>2. \A i \in DOMAIN r : i = Len(q) + 1 \/ i \in DOMAIN q
  BY <1>1
<1>3. /\ \A i \in DOMAIN q : i \in DOMAIN r /\ r[i] = q[i]
      /\ Len(q) + 1 \in DOMAIN r
  BY <1>1
<1>4. \A i \in DOMAIN q : q[i].kind \in WriteKinds \cup ReadKinds
  BY CompletionKinds
<1>5. ASSUME NEW K
      PROVE  Has(r, K) <=> Has(q, K) \/ c.kind \in K
  BY <1>1, <1>2, <1>3 DEF Has
<1>6. DueClose(r) <=> DueClose(q) \/ (c.kind = "read" /\ c.frame.op = "close")
  BY <1>1, <1>2, <1>3 DEF DueClose
<1>7. WriteKinds \cap ReadKinds = {}
  BY DEF WriteKinds, ReadKinds
<1>8. ASSUME OneOfEach(q), c.kind \in WriteKinds, ~Has(q, WriteKinds)
      PROVE  OneOfEach(r)
  <2> SUFFICES ASSUME NEW i \in DOMAIN r, NEW j \in DOMAIN r,
                      r[i].kind \in WriteKinds <=> r[j].kind \in WriteKinds
               PROVE  i = j
    BY DEF OneOfEach
  <2>1. \A k \in DOMAIN q : r[k].kind \notin WriteKinds
    BY <1>3, <1>8 DEF Has
  <2>2. i \in DOMAIN q <=> j \in DOMAIN q
    BY <1>1, <1>2, <1>8, <2>1
  <2>3. CASE i \in DOMAIN q
    BY <1>3, <1>8, <2>2, <2>3 DEF OneOfEach
  <2> QED
    BY <1>2, <2>2, <2>3
<1>9. ASSUME OneOfEach(q), c.kind \in ReadKinds, ~Has(q, ReadKinds)
      PROVE  OneOfEach(r)
  <2> SUFFICES ASSUME NEW i \in DOMAIN r, NEW j \in DOMAIN r,
                      r[i].kind \in WriteKinds <=> r[j].kind \in WriteKinds
               PROVE  i = j
    BY DEF OneOfEach
  <2>1. \A k \in DOMAIN q : r[k].kind \in WriteKinds
    BY <1>3, <1>4, <1>9 DEF Has
  <2>2. i \in DOMAIN q <=> j \in DOMAIN q
    BY <1>1, <1>2, <1>7, <1>9, <2>1
  <2>3. CASE i \in DOMAIN q
    BY <1>3, <1>9, <2>2, <2>3 DEF OneOfEach
  <2> QED
    BY <1>2, <2>2, <2>3
<1> QED
  BY <1>5, <1>6, <1>8, <1>9 DEF r

\* The loop changes nothing but running and the writes.
Kept(s, t) ==
  /\ t.started = s.started /\ t.stopped = s.stopped
  /\ t.closeReceived = s.closeReceived /\ t.control = s.control
  /\ t.queue = s.queue /\ t.reading = s.reading /\ t.payload = s.payload
  /\ t.got = s.got /\ t.events = s.events

\* The frame a turn of the loop starts with.
NextWrite(s) == IF IsSendingClose(s) THEN Fragment("close", <<>>)
                ELSE Fragment("text", Head(s.queue))

\* What a turn of the loop does.
Turned(s, t) ==
  /\ Kept(s, t)
  /\ t.running <=> IsSendingClose(s) \/ s.queue # <<>>
  /\ t.running => t.writes = <<NextWrite(s)>>
  /\ ~t.running => t.writes = <<>>

\* A turn of the loop starts the next write, or ends the loop.
LEMMA LoopTurns ==
  ASSUME NEW s \in Endpoints, s.running, s.writes = <<>>
  PROVE  Turned(s, RunQueue(s))
<1>1. \A w : Append(s.writes, w) = <<w>>
  OBVIOUS
<1>2. CASE IsSendingClose(s)
  <2>1. RunQueue(s) = [s EXCEPT !.writes = <<NextWrite(s)>>]
    BY <1>1, <1>2 DEF RunQueue, StartWrite, NextWrite
  <2> QED
    BY <1>2, <2>1 DEF Turned, Kept, Endpoints
<1>3. CASE ~IsSendingClose(s) /\ s.queue # <<>>
  <2>1. RunQueue(s) = [s EXCEPT !.writes = <<NextWrite(s)>>]
    BY <1>1, <1>3 DEF RunQueue, StartWrite, NextWrite
  <2> QED
    BY <1>3, <2>1 DEF Turned, Kept, Endpoints
<1>4. CASE ~IsSendingClose(s) /\ s.queue = <<>>
  <2>1. RunQueue(s) = [s EXCEPT !.running = FALSE]
    BY <1>4 DEF RunQueue
  <2> QED
    BY <1>4, <2>1 DEF Turned, Kept, Endpoints
<1> QED
  BY <1>2, <1>3, <1>4

\* Starting the loop where it runs, or cannot run, does nothing.
LEMMA LoopStarts ==
  ASSUME NEW s \in Endpoints, ~s.running => s.writes = <<>>
  PROVE  /\ Kept(s, StartSendQueue(s))
         /\ \/ /\ s.running \/ s.stopped \/ ~s.started
               /\ StartSendQueue(s) = s
            \/ /\ ~s.running /\ ~s.stopped /\ s.started
               /\ Turned(s, StartSendQueue(s))
<1>1. CASE s.running \/ s.stopped \/ ~s.started
  BY <1>1 DEF StartSendQueue, Kept
<1>2. CASE ~s.running /\ ~s.stopped /\ s.started
  <2> DEFINE r == [s EXCEPT !.running = TRUE]
  <2>1. /\ r \in Endpoints /\ r.running /\ r.writes = <<>> /\ Kept(s, r)
        /\ r.control = s.control /\ r.queue = s.queue
    BY <1>2 DEF Endpoints, Kept
  <2>2. StartSendQueue(s) = RunQueue(r)
    BY <1>2 DEF StartSendQueue
  <2> HIDE DEF r
  <2>3. Turned(r, RunQueue(r))
    BY <2>1, LoopTurns
  <2>4. NextWrite(r) = NextWrite(s) /\ (IsSendingClose(r) <=> IsSendingClose(s))
    BY <2>1 DEF NextWrite, IsSendingClose
  <2>5. Kept(s, RunQueue(r))
    BY <2>1, <2>3 DEF Turned, Kept
  <2> QED
    BY <1>2, <2>1, <2>2, <2>3, <2>4, <2>5 DEF Turned
<1> QED
  BY <1>1, <1>2

\* The loop starts one write where there is none.
LEMMA TurnedSide ==
  ASSUME NEW s \in Endpoints, NEW t \in Endpoints, NEW q \in Seq(Completions),
         ~Has(q, WriteKinds), OneOfEach(q), Turned(s, t)
  PROVE  SideInv(t, q)
<1>1. t.control = s.control /\ t.queue = s.queue
  BY DEF Turned, Kept
<1>2. CASE ~t.running
  BY <1>2 DEF SideInv, Turned
<1>3. CASE t.running
  <2>1. t.writes = <<NextWrite(s)>>
    BY <1>3 DEF Turned
  <2>2. Len(t.writes) <= 1 /\ t.writes # <<>> /\ Head(t.writes) = NextWrite(s)
    BY <2>1
  <2>3. IsWriteOf(t, NextWrite(s))
    <3>1. CASE IsSendingClose(s)
      <4>1. <<>> \in Payloads /\ Len(<<>>) = 0 /\ MaxFrame > 0
        BY WsAssumption DEF Payloads
      <4>2. /\ Fragment("close", <<>>).frame.op = "close"
            /\ Fragment("close", <<>>).rest = <<>>
        BY <4>1, FragmentOf DEF WriteOps
      <4> QED
        BY <1>1, <3>1, <4>2 DEF IsWriteOf, NextWrite, IsSendingClose
    <3>2. CASE ~IsSendingClose(s)
      <4>1. s.queue # <<>> /\ Head(s.queue) \in Payloads
        BY <1>3, <3>2 DEF Turned, Endpoints
      <4>2. Fragment("text", Head(s.queue)).frame.op = "text"
        BY <4>1, FragmentOf DEF WriteOps
      <4> QED
        BY <1>1, <3>2, <4>1, <4>2 DEF IsWriteOf, NextWrite, IsData
    <3> QED
      BY <3>1, <3>2
  <2> QED
    BY <1>3, <2>2, <2>3 DEF SideInv
<1> QED
  BY <1>2, <1>3

\* The close frame is with the socket or beyond, and nothing will follow it.
QueueOver(s, q) ==
  /\ IsSendingClose(s) /\ s.running
  /\ s.writes # <<>> => Head(s.writes).frame.op = "close" /\ Has(q, {"wrote"})

\* Telling the user of something leaves the rest of the endpoint alone.
LEMMA NotifyKeeps ==
  ASSUME NEW s \in Endpoints, NEW event \in Events, NEW t, t = Notify(s, event)
  PROVE  /\ t.started = s.started /\ t.stopped = s.stopped
         /\ t.running = s.running /\ t.writes = s.writes
         /\ t.closeReceived = s.closeReceived /\ t.control = s.control
         /\ t.queue = s.queue /\ t.reading = s.reading
         /\ t.payload = s.payload /\ t.got = s.got
         /\ s.stopped => t.events = s.events
         /\ ~s.stopped => t.events = Append(s.events, event)
BY DEF Notify, Endpoints

\* Giving the user a message leaves the rest of the endpoint alone.
LEMMA DeliverKeeps ==
  ASSUME NEW s \in Endpoints, NEW p \in Payloads, NEW t, t = Deliver(s, p)
  PROVE  /\ t.started = s.started /\ t.stopped = s.stopped
         /\ t.running = s.running /\ t.writes = s.writes
         /\ t.closeReceived = s.closeReceived /\ t.control = s.control
         /\ t.queue = s.queue /\ t.reading = s.reading
         /\ t.payload = s.payload
         /\ s.stopped => t.events = s.events /\ t.got = s.got
         /\ ~s.stopped => /\ t.events = Append(s.events, "message")
                          /\ t.got = Append(s.got, p)
BY DEF Deliver, Endpoints

\* Whatever else is told, what was told stays told.
LEMMA EventsGrow ==
  ASSUME NEW es \in Seq(Events), NEW event \in Events
  PROVE  /\ \A i \in DOMAIN es :
              i \in DOMAIN Append(es, event) /\ Append(es, event)[i] = es[i]
         /\ \A i \in DOMAIN Append(es, event) :
              i \in DOMAIN es \/ (i = Len(es) + 1 /\ Append(es, event)[i] = event)
         /\ Len(es) + 1 \in DOMAIN Append(es, event)
         /\ Append(es, event)[Len(es) + 1] = event
OBVIOUS

\* The effect of a catch of the send loop.
LEMMA SendFailedKeeps ==
  ASSUME NEW s \in Endpoints, NEW expected \in BOOLEAN, NEW t,
         t = SendFailed(s, expected)
  PROVE  /\ t \in Endpoints
         /\ t.started = s.started /\ t.stopped = s.stopped
         /\ ~t.running /\ t.writes = s.writes
         /\ t.closeReceived = s.closeReceived /\ t.control = s.control
         /\ t.queue = s.queue /\ t.reading = s.reading
         /\ t.payload = s.payload /\ t.got = s.got
         /\ s.stopped => t.events = s.events
         /\ ~s.stopped => \E event \in {"close", "error"} :
                            t.events = Append(s.events, event)
<1> DEFINE r == [s EXCEPT !.running = FALSE]
           event == IF IsSendingClose(s) /\ expected THEN "close" ELSE "error"
<1>1. /\ r \in Endpoints /\ ~r.running /\ Kept(s, r) /\ r.writes = s.writes
  BY DEF Endpoints, Kept
<1>2. t = Notify(r, event)
  BY DEF SendFailed
<1>3. event \in {"close", "error"} /\ event \in Events
  BY DEF Events
<1>4. <<>> \in Payloads
  BY DEF Payloads
<1> HIDE DEF r, event
<1>5. t \in Endpoints
  BY <1>1, <1>2, <1>3, <1>4, NotifyType
<1>6. /\ t.started = r.started /\ t.stopped = r.stopped
      /\ t.running = r.running /\ t.writes = r.writes
      /\ t.closeReceived = r.closeReceived /\ t.control = r.control
      /\ t.queue = r.queue /\ t.reading = r.reading
      /\ t.payload = r.payload /\ t.got = r.got
      /\ r.stopped => t.events = r.events
      /\ ~r.stopped => t.events = Append(r.events, event)
  BY <1>1, <1>2, <1>3, NotifyKeeps
<1>7. ~s.stopped => \E ev \in {"close", "error"} : t.events = Append(s.events, ev)
  BY <1>1, <1>3, <1>6 DEF Kept
<1> QED
  BY <1>1, <1>5, <1>6, <1>7 DEF Kept

\* What a handler owes its own side: t is what it leaves of the endpoint.
HandledWell(e, t) ==
  /\ t \in Endpoints /\ Handle(e, t)
  /\ SideInv(t, Tail(done[e])) /\ Moves(t)
  /\ QueueOver(ep[e], done[e]) => QueueOver(t, Tail(done[e]))

\* What the handler of a write, c, changes besides the queue: the user may be
\* told of the close when both close frames are through, or of an error.
WriteEffect(s, t, c) ==
  /\ t.stopped = s.stopped /\ t.closeReceived = s.closeReceived
  /\ t.control = s.control /\ t.got = s.got /\ t.payload = s.payload
  /\ \/ t.events = s.events
     \/ \E event \in {"close", "error"} :
          /\ t.events = Append(s.events, event)
          /\ event = "close" =>
               \/ c.kind = "writeFailed"
               \/ s.closeReceived /\ IsSendingClose(t) /\ t.running /\ t.writes = <<>>

\* What the handler of a read, c, changes: a close frame is answered, or the
\* user is told.
IsClose(c) == c.kind = "read" /\ c.frame.op = "close"

ReadEffect(s, t, c) ==
  /\ t.stopped = s.stopped
  /\ t.closeReceived <=> s.closeReceived \/ IsClose(c)
  /\ IsSendingClose(t) <=> IsSendingClose(s) \/ IsClose(c)
  /\ IsSendingClose(s) => t.running = s.running /\ t.writes = s.writes
  /\ \/ t.events = s.events
     \/ \E event \in Events :
          /\ t.events = Append(s.events, event)
          /\ event = "close" => IsClose(c) /\ IsSendingClose(s)
          /\ event = "message" => c.kind = "read"

\* What a call of the user changes.
UserEffect(e, s, t) ==
  /\ t.closeReceived = s.closeReceived
  /\ s.stopped => t.stopped
  /\ t.stopped => s.stopped \/ e \in Stoppers
  /\ t.got = s.got /\ t.payload = s.payload /\ t.events = s.events
  /\ IsSendingClose(s) => IsSendingClose(t)
  /\ IsSendingClose(t) => IsSendingClose(s) \/ e \in Closers
  /\ s.running => t.running = s.running /\ t.writes = s.writes

\* The write whose handler runs was the only one.
LEMMA TheWrite ==
  ASSUME TypeOK, NEW e \in Sides, SideInv(ep[e], done[e]),
         done[e] # <<>>, Head(done[e]).kind \in WriteKinds
  PROVE  /\ ep[e].writes # <<>> /\ ep[e].running
         /\ Writing(e) = Head(ep[e].writes) /\ Writing(e) \in InFlight
         /\ IsWriteOf(ep[e], Writing(e))
         /\ AfterWrite(e) \in Endpoints
         /\ Kept(ep[e], AfterWrite(e)) /\ AfterWrite(e).running = ep[e].running
         /\ AfterWrite(e).writes = <<>>
         /\ done[e] \in Seq(Completions) /\ Tail(done[e]) \in Seq(Completions)
         /\ ~Has(Tail(done[e]), WriteKinds) /\ OneOfEach(Tail(done[e]))
         /\ QueueOver(ep[e], done[e]) =>
              Head(done[e]).kind = "wrote" /\ Writing(e).frame.op = "close"
<1>1. /\ ep[e] \in Endpoints /\ done[e] \in Seq(Completions)
      /\ Tail(done[e]) \in Seq(Completions)
  BY HandlerTypes
<1>2. /\ Has(done[e], WriteKinds) /\ OneOfEach(done[e])
      /\ ~Has(Tail(done[e]), WriteKinds) /\ OneOfEach(Tail(done[e]))
      /\ Has(done[e], {"wrote"}) => \/ Head(done[e]).kind = "wrote"
                                    \/ Has(Tail(done[e]), {"wrote"})
  BY <1>1, PopDone DEF SideInv
<1>3. ep[e].writes # <<>> /\ ep[e].running /\ Len(ep[e].writes) <= 1
      /\ IsWriteOf(ep[e], Head(ep[e].writes))
  BY <1>2 DEF SideInv
<1>4. Writing(e) \in InFlight /\ AfterWrite(e) \in Endpoints
  BY <1>3, HandlerTypes
<1>5. Tail(ep[e].writes) = <<>>
  <2>1. ep[e].writes \in Seq(InFlight)
    BY <1>1 DEF Endpoints, InFlight
  <2> QED
    BY <1>3, <2>1
<1>6. /\ Kept(ep[e], AfterWrite(e)) /\ AfterWrite(e).running = ep[e].running
      /\ AfterWrite(e).writes = <<>>
  BY <1>1, <1>5 DEF AfterWrite, Kept, Endpoints
<1>7. ~Has(Tail(done[e]), {"wrote"})
  BY <1>2 DEF Has, WriteKinds
<1> QED
  BY <1>1, <1>2, <1>3, <1>4, <1>6, <1>7 DEF Writing, QueueOver

\* The handlers of writes keep what the invariant says of their side: a write that
\* completed is followed by the next one, or the loop ends with an empty queue, an
\* error or the close frame.
LEMMA WriteHandled ==
  ASSUME TypeOK, NEW e \in Sides, SideInv(ep[e], done[e]), Moves(ep[e]),
         WriteStep(e)
  PROVE  /\ done[e] # <<>> /\ Head(done[e]).kind \in WriteKinds
         /\ \E t \in Endpoints : /\ HandledWell(e, t)
                                 /\ WriteEffect(ep[e], t, Head(done[e]))
<1> DEFINE s == ep[e]
           a == AfterWrite(e)
           w == Writing(e)
           q == Tail(done[e])
<1>1. done[e] # <<>> /\ Head(done[e]).kind \in WriteKinds
  BY DEF WriteStep, WroteFragment, WroteMessage, WroteClose, WriteFailed,
         CloseWriteFailed, Due, WriteKinds
<1>2. /\ s \in Endpoints /\ q \in Seq(Completions) /\ w \in InFlight
      /\ s.writes # <<>> /\ s.running /\ IsWriteOf(s, w) /\ w = Head(s.writes)
      /\ a \in Endpoints /\ Kept(s, a) /\ a.running /\ a.writes = <<>>
      /\ ~Has(q, WriteKinds) /\ OneOfEach(q)
      /\ QueueOver(s, done[e]) => Head(done[e]).kind = "wrote" /\ w.frame.op = "close"
  BY <1>1, TheWrite, HandlerTypes
<1> SUFFICES \E t \in Endpoints :
               /\ Handle(e, t) /\ SideInv(t, q) /\ Moves(t)
               /\ QueueOver(s, done[e]) => QueueOver(t, q)
               /\ WriteEffect(s, t, Head(done[e]))
  BY <1>1 DEF HandledWell
<1> HIDE DEF s, a, w, q
<1>3. ASSUME NEW t, Kept(s, t)
      PROVE  WriteEffect(s, t, Head(done[e]))
  BY <1>3 DEF Kept, WriteEffect
<1>4. CASE WroteFragment(e)
  <2> DEFINE t == StartWrite(a, "continuation", w.rest)
  <2>1. Handle(e, t) /\ w.rest # <<>> /\ Head(done[e]).kind = "wrote"
    BY <1>4 DEF WroteFragment, Due, a, w
  <2>2. w.rest \in Payloads /\ w.frame.op # "close" /\ s.queue # <<>>
    BY <1>2, <2>1 DEF InFlight, IsWriteOf
  <2>3. /\ t \in Endpoints /\ Kept(s, t) /\ t.running
        /\ t.writes = <<Fragment("continuation", w.rest)>>
    <3>1. t \in Endpoints
      BY <1>2, <2>2, StartWriteType DEF WriteOps
    <3>2. t = [a EXCEPT !.writes = <<Fragment("continuation", w.rest)>>]
      BY <1>2 DEF StartWrite
    <3> QED
      BY <1>2, <3>1, <3>2 DEF Kept, Endpoints
  <2>4. Fragment("continuation", w.rest).frame.op = "continuation"
    BY <2>2, FragmentOf DEF WriteOps
  <2> HIDE DEF t
  <2>5. /\ t.writes # <<>> /\ Len(t.writes) = 1
        /\ Head(t.writes) = Fragment("continuation", w.rest)
    BY <2>3
  <2>6. IsWriteOf(t, Head(t.writes))
    BY <2>2, <2>3, <2>4, <2>5 DEF IsWriteOf, IsData, Kept
  <2> QED
    <3>1. SideInv(t, q) /\ Moves(t)
      BY <1>2, <2>3, <2>5, <2>6 DEF SideInv, Moves, Kept
    <3>2. WriteEffect(s, t, Head(done[e]))
      BY <1>3, <2>3
    <3> QED
      BY <1>2, <2>1, <2>2, <2>3, <3>1, <3>2
<1>5. CASE WroteMessage(e)
  <2> DEFINE r == PopQueue(a)
             t == RunQueue(r)
  <2>1. Handle(e, t) /\ w.frame.op # "close"
    BY <1>5 DEF WroteMessage, a, w
  <2>2. /\ r \in Endpoints /\ r.running /\ r.writes = <<>>
        /\ r.closeReceived = s.closeReceived /\ r.stopped = s.stopped
        /\ r.control = s.control /\ r.got = s.got /\ r.payload = s.payload
        /\ r.events = s.events
    BY <1>2, PopQueueType DEF PopQueue, Endpoints, Kept
  <2>3. t \in Endpoints /\ Turned(r, t)
    BY <2>2, RunQueueType, LoopTurns
  <2> HIDE DEF r, t
  <2>4. SideInv(t, q)
    BY <1>2, <2>2, <2>3, TurnedSide
  <2>5. Moves(t)
    BY <2>3 DEF Moves, Turned, Kept
  <2>6. WriteEffect(s, t, Head(done[e]))
    BY <2>2, <2>3 DEF Turned, Kept, WriteEffect
  <2> QED
    BY <1>2, <2>1, <2>2, <2>3, <2>4, <2>5, <2>6
<1>6. CASE WroteClose(e)
  <2> DEFINE t == IF a.closeReceived THEN Notify(a, "close") ELSE a
  <2>1. Handle(e, t) /\ w.frame.op = "close"
    BY <1>6 DEF WroteClose, a, w
  <2>2. <<>> \in Payloads /\ "close" \in Events
    BY DEF Payloads, Events
  <2>3. /\ t \in Endpoints /\ t.running /\ t.writes = <<>>
        /\ t.control = a.control /\ t.closeReceived = a.closeReceived
        /\ t.stopped = a.stopped /\ t.got = a.got /\ t.payload = a.payload
        /\ \/ t.events = a.events
           \/ a.closeReceived /\ t.events = Append(a.events, "close")
    <3>1. CASE ~a.closeReceived
      BY <1>2, <3>1
    <3>2. CASE a.closeReceived
      <4>1. t = Notify(a, "close")
        BY <3>2
      <4> HIDE DEF t
      <4>2. t \in Endpoints
        BY <1>2, <2>2, <4>1, NotifyType
      <4>3. /\ t.running = a.running /\ t.writes = a.writes
            /\ t.control = a.control /\ t.closeReceived = a.closeReceived
            /\ t.stopped = a.stopped /\ t.got = a.got /\ t.payload = a.payload
            /\ a.stopped => t.events = a.events
            /\ ~a.stopped => t.events = Append(a.events, "close")
        <5>1. a \in Endpoints
          BY <1>2
        <5> QED
          BY <5>1, <4>1 DEF Notify, Endpoints
      <4> QED
        BY <1>2, <3>2, <4>2, <4>3
    <3> QED
      BY <3>1, <3>2
  <2> HIDE DEF t
  <2>4. IsSendingClose(t)
    BY <1>2, <2>1, <2>3 DEF IsWriteOf, IsSendingClose, Kept
  <2>5. WriteEffect(s, t, Head(done[e]))
    BY <1>2, <2>3, <2>4 DEF Kept, WriteEffect
  <2>6. SideInv(t, q) /\ Moves(t) /\ QueueOver(t, q)
    BY <1>2, <2>3, <2>4 DEF SideInv, Moves, QueueOver
  <2> QED
    BY <2>1, <2>3, <2>5, <2>6
<1>7. ASSUME NEW expected \in BOOLEAN, Handle(e, SendFailed(a, expected)),
             Head(done[e]).kind = "writeFailed"
      PROVE  \E t \in Endpoints :
               /\ Handle(e, t) /\ SideInv(t, q) /\ Moves(t)
               /\ QueueOver(s, done[e]) => QueueOver(t, q)
               /\ WriteEffect(s, t, Head(done[e]))
  <2> DEFINE t == SendFailed(a, expected)
  <2>1. /\ t \in Endpoints /\ t.stopped = a.stopped /\ ~t.running
        /\ t.writes = <<>> /\ t.closeReceived = a.closeReceived
        /\ t.control = a.control /\ t.got = a.got /\ t.payload = a.payload
        /\ a.stopped => t.events = a.events
        /\ ~a.stopped => \E event \in {"close", "error"} :
                           t.events = Append(a.events, event)
    BY <1>2, SendFailedKeeps
  <2>2. Handle(e, t)
    BY <1>7
  <2> HIDE DEF t
  <2>3. SideInv(t, q)
    BY <1>2, <2>1 DEF SideInv
  <2>4. Moves(t)
    <3> SUFFICES ASSUME ~t.stopped
                 PROVE  \E i \in DOMAIN t.events : t.events[i] \in {"error", "close"}
      BY DEF Moves
    <3>1. PICK event \in {"close", "error"} : t.events = Append(a.events, event)
      BY <2>1
    <3>2. a.events \in Seq(Events) /\ event \in Events
      BY <1>2 DEF Endpoints, Events
    <3> QED
      BY <3>1, <3>2, EventsGrow
  <2>5. WriteEffect(s, t, Head(done[e]))
    BY <1>2, <1>7, <2>1 DEF Kept, WriteEffect
  <2> QED
    BY <1>2, <1>7, <2>1, <2>2, <2>3, <2>4, <2>5
<1>8. CASE WriteFailed(e)
  BY <1>7, <1>8 DEF WriteFailed, Due, a
<1>9. CASE CloseWriteFailed(e)
  <2>1. /\ Head(done[e]).kind = "writeFailed" /\ w.frame.op = "close"
        /\ \/ Handle(e, a)
           \/ \E expected \in BOOLEAN : Handle(e, SendFailed(a, expected))
    BY <1>9 DEF CloseWriteFailed, Due, a, w
  <2>2. CASE Handle(e, a)
    <3>1. IsSendingClose(a)
      BY <1>2, <2>1 DEF IsWriteOf, IsSendingClose, Kept
    <3>2. SideInv(a, q) /\ Moves(a) /\ ~QueueOver(s, done[e])
      BY <1>2, <2>1, <3>1 DEF SideInv, Moves
    <3>3. WriteEffect(s, a, Head(done[e]))
      BY <1>2, <1>3
    <3> QED
      BY <1>2, <2>2, <3>2, <3>3
  <2> QED
    BY <1>7, <2>1, <2>2
<1> QED
  BY <1>4, <1>5, <1>6, <1>8, <1>9 DEF WriteStep

\* A step that leaves the send loop alone.
LoopUntouched(s, t) ==
  /\ t.started = s.started /\ t.stopped = s.stopped
  /\ t.running = s.running /\ t.writes = s.writes /\ t.queue = s.queue
  /\ IsSendingClose(s) => IsSendingClose(t)
  /\ \A i \in DOMAIN s.events : i \in DOMAIN t.events /\ t.events[i] = s.events[i]

\* Such a step keeps what the invariant says of the side.
LEMMA UntouchedSide ==
  ASSUME NEW s \in Endpoints, NEW t \in Endpoints, NEW q, LoopUntouched(s, t)
  PROVE  /\ SideInv(s, q) => SideInv(t, q)
         /\ Moves(s) => Moves(t)
         /\ QueueOver(s, q) => QueueOver(t, q)
<1>1. \A w : IsWriteOf(s, w) => IsWriteOf(t, w)
  BY DEF LoopUntouched, IsWriteOf
<1>2. SideInv(s, q) => SideInv(t, q)
  BY <1>1 DEF LoopUntouched, SideInv
<1>3. Moves(s) => Moves(t)
  BY DEF LoopUntouched, Moves
<1>4. QueueOver(s, q) => QueueOver(t, q)
  BY DEF LoopUntouched, QueueOver
<1> QED
  BY <1>2, <1>3, <1>4

\* The loop is started where it does not run: nothing is left in the queue.
LEMMA LoopSide ==
  ASSUME NEW s \in Endpoints, NEW q \in Seq(Completions), SideInv(s, q)
  PROVE  LET t == StartSendQueue(s)
         IN /\ t \in Endpoints /\ Kept(s, t) /\ (s.running => t = s)
            /\ SideInv(t, q) /\ Moves(t)
            /\ QueueOver(s, q) => QueueOver(t, q)
<1> DEFINE t == StartSendQueue(s)
<1>1. t \in Endpoints
  BY StartSendQueueType
<1>2. /\ ~s.running => s.writes = <<>> /\ ~Has(q, WriteKinds)
      /\ OneOfEach(q)
  BY DEF SideInv
<1>3. /\ Kept(s, t)
      /\ \/ (s.running \/ s.stopped \/ ~s.started) /\ t = s
         \/ ~s.running /\ ~s.stopped /\ s.started /\ Turned(s, t)
  BY <1>2, LoopStarts
<1> HIDE DEF t
<1>4. CASE (s.running \/ s.stopped \/ ~s.started) /\ t = s
  BY <1>1, <1>3, <1>4 DEF Moves, t
<1>5. CASE ~s.running /\ ~s.stopped /\ s.started /\ Turned(s, t)
  <2>1. SideInv(t, q)
    BY <1>1, <1>2, <1>5, TurnedSide
  <2>2. Moves(t) /\ ~QueueOver(s, q)
    BY <1>5 DEF Turned, Kept, Moves, QueueOver
  <2> QED
    BY <1>1, <1>3, <2>1, <2>2 DEF t
<1> QED
  BY <1>3, <1>4, <1>5

\* Taking the completion of a read keeps it as well.
LEMMA ReadTaken ==
  ASSUME NEW s \in Endpoints, NEW q \in Seq(Completions), q # <<>>,
         Head(q).kind \in ReadKinds, SideInv(s, q)
  PROVE  /\ SideInv(s, Tail(q)) /\ ~Has(Tail(q), ReadKinds)
         /\ QueueOver(s, q) => QueueOver(s, Tail(q))
<1>1. /\ Has(q, WriteKinds) <=> Has(Tail(q), WriteKinds)
      /\ Has(q, {"wrote"}) <=> Has(Tail(q), {"wrote"})
  BY PopDone DEF ReadKinds, WriteKinds
<1>2. OneOfEach(Tail(q)) /\ ~Has(Tail(q), ReadKinds)
  BY PopDone DEF SideInv
<1> QED
  BY <1>1, <1>2 DEF SideInv, QueueOver

\* The handlers of the reader keep it: only ReadClose starts the loop, and only
\* where it does not run.
LEMMA ReadHandled ==
  ASSUME TypeOK, NEW e \in Sides, SideInv(ep[e], done[e]), Moves(ep[e]),
         ReadStep(e)
  PROVE  /\ done[e] # <<>> /\ Head(done[e]).kind \in ReadKinds
         /\ \E t \in Endpoints :
              /\ HandledWell(e, t)
              /\ ReadEffect(ep[e], t, Head(done[e]))
<1> DEFINE s == ep[e]
           q == Tail(done[e])
<1>1. done[e] # <<>> /\ Head(done[e]).kind \in ReadKinds
  BY DEF ReadStep, ReadData, ReadClose, ReadPing, ReadPong, ReadBadInput,
         ReadFailed, Due, ReadKinds
<1>2. /\ s \in Endpoints /\ done[e] \in Seq(Completions)
      /\ q \in Seq(Completions) /\ <<>> \in Payloads
  BY <1>1, HandlerTypes DEF Payloads
<1>3. /\ SideInv(s, q) /\ ~Has(q, ReadKinds) /\ Moves(s)
      /\ QueueOver(s, done[e]) => QueueOver(s, q)
  BY <1>1, <1>2, ReadTaken
<1>4. Due(e, "read") => Read(e) \in Frames /\ Read(e).data \in Payloads
  BY HandlerTypes DEF Frames
<1>5. Read(e) = Head(done[e]).frame
  BY DEF Read
<1> DEFINE c == Head(done[e])
<1> SUFFICES \E t \in Endpoints :
               /\ Handle(e, t) /\ SideInv(t, q) /\ Moves(t)
               /\ QueueOver(s, q) => QueueOver(t, q)
               /\ ReadEffect(s, t, c)
  BY <1>1, <1>3 DEF HandledWell
<1> HIDE DEF s, q, c
<1>6. ASSUME NEW t \in Endpoints, Handle(e, t), LoopUntouched(s, t),
             ReadEffect(s, t, c)
      PROVE  \E u \in Endpoints :
               /\ Handle(e, u) /\ SideInv(u, q) /\ Moves(u)
               /\ QueueOver(s, q) => QueueOver(u, q)
               /\ ReadEffect(s, u, c)
  BY <1>2, <1>3, <1>6, UntouchedSide
<1>7. ASSUME NEW event \in Events
      PROVE  LET t == [Notify(s, event) EXCEPT !.reading = FALSE]
             IN /\ t \in Endpoints /\ LoopUntouched(s, t)
                /\ ~IsClose(c) /\ event # "close" /\ event # "message" =>
                     ReadEffect(s, t, c)
  <2> DEFINE n == Notify(s, event)
             t == [n EXCEPT !.reading = FALSE]
  <2>1. n \in Endpoints
    BY <1>2, NotifyType
  <2>2. /\ n.started = s.started /\ n.stopped = s.stopped
        /\ n.running = s.running /\ n.writes = s.writes
        /\ n.closeReceived = s.closeReceived /\ n.control = s.control
        /\ n.queue = s.queue
        /\ n.events = s.events \/ n.events = Append(s.events, event)
    BY <1>2, NotifyKeeps
  <2> HIDE DEF n
  <2>3. /\ t \in Endpoints /\ t.started = n.started /\ t.stopped = n.stopped
        /\ t.running = n.running /\ t.writes = n.writes /\ t.queue = n.queue
        /\ t.closeReceived = n.closeReceived /\ t.control = n.control
        /\ t.events = n.events
    BY <2>1 DEF Endpoints
  <2> HIDE DEF t
  <2>4. s.events \in Seq(Events)
    BY <1>2 DEF Endpoints
  <2>5. \A i \in DOMAIN s.events : i \in DOMAIN t.events /\ t.events[i] = s.events[i]
    BY <2>2, <2>3, <2>4, EventsGrow
  <2>6. LoopUntouched(s, t)
    BY <2>2, <2>3, <2>5 DEF LoopUntouched, IsSendingClose
  <2>7. ~IsClose(c) /\ event # "close" /\ event # "message" => ReadEffect(s, t, c)
    BY <2>2, <2>3 DEF ReadEffect, IsSendingClose
  <2> QED
    BY <2>3, <2>6, <2>7 DEF n, t
<1>8. CASE ReadBadInput(e) \/ ReadFailed(e)
  <2>1. PICK event \in {"badRequest", "error"} :
          /\ Handle(e, [Notify(s, event) EXCEPT !.reading = FALSE])
          /\ \/ Head(done[e]).kind = "read" /\ Read(e).op = "unknown"
             \/ Head(done[e]).kind = "readFailed"
    BY <1>8 DEF ReadBadInput, ReadFailed, Due, s
  <2>2. ~IsClose(c) /\ event \in Events /\ event # "close" /\ event # "message"
    BY <1>5, <2>1 DEF IsClose, Events, c
  <2> DEFINE t == [Notify(s, event) EXCEPT !.reading = FALSE]
  <2>3. t \in Endpoints /\ LoopUntouched(s, t) /\ ReadEffect(s, t, c)
    BY <1>7, <2>2
  <2>4. Handle(e, t)
    BY <2>1
  <2> HIDE DEF t
  <2> QED
    BY <1>6, <2>3, <2>4
<1>9. CASE ReadPong(e)
  <2>1. Handle(e, s) /\ Read(e).op = "pong"
    BY <1>9 DEF ReadPong, s
  <2>2. LoopUntouched(s, s) /\ ReadEffect(s, s, c)
    BY <1>5, <2>1 DEF LoopUntouched, ReadEffect, IsClose, c
  <2> QED
    BY <1>2, <1>6, <2>1, <2>2
<1>10. CASE ReadPing(e)
  <2> DEFINE t == IF IsSendingClose(s) THEN s ELSE [s EXCEPT !.control = "pong"]
  <2>1. Handle(e, t) /\ Read(e).op = "ping"
    BY <1>10 DEF ReadPing, s
  <2>2. t \in Endpoints /\ LoopUntouched(s, t)
    BY <1>2 DEF Endpoints, LoopUntouched, IsSendingClose
  <2>3. ReadEffect(s, t, c)
    BY <1>2, <1>5, <2>1 DEF Endpoints, ReadEffect, IsClose, IsSendingClose, c
  <2> HIDE DEF t
  <2> QED
    BY <1>6, <2>1, <2>2, <2>3
<1>11. CASE ReadData(e)
  <2> DEFINE r == [s EXCEPT !.payload = @ \o Read(e).data]
             d == Deliver(r, r.payload)
             t == IF Read(e).fin THEN [d EXCEPT !.payload = <<>>] ELSE r
  <2>1. Handle(e, t) /\ IsData(Read(e)) /\ Due(e, "read")
    BY <1>11 DEF ReadData, s
  <2>2. s.payload \o Read(e).data \in Payloads
    BY <1>2, <1>4, <2>1 DEF Endpoints, Payloads
  <2>3. /\ r \in Endpoints /\ r.payload \in Payloads
        /\ LoopUntouched(s, r) /\ r.closeReceived = s.closeReceived
        /\ r.events = s.events /\ r.control = s.control
    BY <1>2, <2>2 DEF Endpoints, LoopUntouched, IsSendingClose
  <2> HIDE DEF r
  <2>4. /\ d \in Endpoints
        /\ d.started = r.started /\ d.stopped = r.stopped
        /\ d.running = r.running /\ d.writes = r.writes
        /\ d.closeReceived = r.closeReceived /\ d.control = r.control
        /\ d.queue = r.queue
        /\ d.events = r.events \/ d.events = Append(r.events, "message")
    <3>1. d \in Endpoints
      BY <2>3, NotifyType DEF Events
    <3>2. r \in Endpoints
      BY <2>3
    <3> QED
      BY <3>1, <3>2 DEF d, Deliver, Endpoints
  <2> HIDE DEF d
  <2>5. /\ s.events \in Seq(Events) /\ "message" \in Events
    BY <1>2 DEF Endpoints, Events
  <2>6. \A i \in DOMAIN s.events : i \in DOMAIN d.events /\ d.events[i] = s.events[i]
    BY <2>3, <2>4, <2>5, EventsGrow
  <2>7. LET u == [d EXCEPT !.payload = <<>>]
        IN /\ u \in Endpoints /\ LoopUntouched(s, u)
           /\ u.closeReceived = s.closeReceived /\ u.control = s.control
           /\ u.events = s.events \/ u.events = Append(s.events, "message")
    BY <1>2, <2>3, <2>4, <2>6 DEF Endpoints, LoopUntouched, IsSendingClose
  <2>8. /\ t \in Endpoints /\ LoopUntouched(s, t)
        /\ t.closeReceived = s.closeReceived /\ t.control = s.control
        /\ t.events = s.events \/ t.events = Append(s.events, "message")
    BY <2>3, <2>7
  <2> HIDE DEF t
  <2>9. ReadEffect(s, t, c)
    <3>1. ~IsClose(c) /\ c.kind = "read"
      BY <1>5, <2>1 DEF IsClose, IsData, Due, c
    <3> QED
      BY <2>5, <2>8, <3>1 DEF ReadEffect, LoopUntouched, IsSendingClose
  <2> QED
    BY <1>6, <2>1, <2>8, <2>9
<1>12. CASE ReadClose(e)
  <2> DEFINE r == [s EXCEPT !.payload = <<>>, !.closeReceived = TRUE, !.reading = FALSE]
             k == [r EXCEPT !.control = "close"]
  <2>1. /\ Handle(e, IF IsSendingClose(r) THEN Notify(r, "close") ELSE SendClose(r))
        /\ SendClose(r) = StartSendQueue(k)
        /\ IsClose(c)
    BY <1>5, <1>12 DEF ReadClose, Due, SendClose, IsClose, s, c
  <2>2. /\ r \in Endpoints /\ LoopUntouched(s, r) /\ r.closeReceived = TRUE
        /\ r.events = s.events /\ r.control = s.control
        /\ k \in Endpoints /\ LoopUntouched(s, k) /\ k.closeReceived = TRUE
        /\ k.events = s.events /\ k.control = "close"
    BY <1>2 DEF Endpoints, LoopUntouched, IsSendingClose
  <2> HIDE DEF r, k
  <2>3. CASE IsSendingClose(r)
    <3> DEFINE t == Notify(r, "close")
    <3>1. /\ "close" \in Events /\ s.events \in Seq(Events)
      BY <1>2 DEF Endpoints, Events
    <3>2. /\ t \in Endpoints
          /\ t.started = r.started /\ t.stopped = r.stopped
          /\ t.running = r.running /\ t.writes = r.writes
          /\ t.closeReceived = r.closeReceived /\ t.control = r.control
          /\ t.queue = r.queue
          /\ t.events = r.events \/ t.events = Append(r.events, "close")
      <4>1. t \in Endpoints
        BY <1>2, <2>2, <3>1, NotifyType
      <4>2. r.stopped => t.events = r.events
        BY <2>2, <3>1, NotifyKeeps
      <4>3. ~r.stopped => t.events = Append(r.events, "close")
        BY <2>2, <3>1, NotifyKeeps
      <4> QED
        BY <2>2, <3>1, <4>1, <4>2, <4>3, NotifyKeeps
    <3> HIDE DEF t
    <3>3. \A i \in DOMAIN s.events : i \in DOMAIN t.events /\ t.events[i] = s.events[i]
      BY <2>2, <3>1, <3>2, EventsGrow
    <3>4. LoopUntouched(s, t)
      BY <2>2, <3>2, <3>3 DEF LoopUntouched, IsSendingClose
    <3>5. ReadEffect(s, t, c)
      BY <2>1, <2>2, <2>3, <3>1, <3>2, <3>4
         DEF ReadEffect, LoopUntouched, IsSendingClose
    <3> QED
      BY <1>6, <2>1, <2>3, <3>2, <3>4, <3>5 DEF t
  <2>4. CASE ~IsSendingClose(r)
    <3> DEFINE t == StartSendQueue(k)
    <3>1. SideInv(k, q)
      BY <1>2, <1>3, <2>2, UntouchedSide
    <3>2. t \in Endpoints /\ Kept(k, t) /\ SideInv(t, q) /\ Moves(t)
      BY <1>2, <2>2, <3>1, LoopSide
    <3>3. Handle(e, t)
      BY <2>1, <2>4
    <3> HIDE DEF t
    <3>4. ~QueueOver(s, q)
      BY <2>2, <2>4 DEF QueueOver, IsSendingClose
    <3>5. ReadEffect(s, t, c)
      BY <2>1, <2>2, <2>4, <3>2 DEF Kept, ReadEffect, LoopUntouched, IsSendingClose
    <3> QED
      BY <3>2, <3>3, <3>4, <3>5
  <2> QED
    BY <2>3, <2>4
<1> QED
  BY <1>8, <1>9, <1>10, <1>11, <1>12 DEF ReadStep

\* The calls of the user keep it, send_message and send_close through the test of
\* is_send_queue_running in start_send_queue.
LEMMA UserHandled ==
  ASSUME TypeOK, NEW e \in Sides, SideInv(ep[e], done[e]), Moves(ep[e]),
         UserStep(e)
  PROVE  /\ \E t \in Endpoints :
              /\ ep' = [ep EXCEPT ![e] = t]
              /\ SideInv(t, done[e]) /\ Moves(t)
              /\ QueueOver(ep[e], done[e]) => QueueOver(t, done[e])
              /\ UserEffect(e, ep[e], t)
         /\ UNCHANGED <<net, done, broken, foreign>>
<1> DEFINE s == ep[e]
           q == done[e]
<1>1. s \in Endpoints /\ q \in Seq(Completions) /\ SideInv(s, q) /\ Moves(s)
  BY HandlerTypes
<1>2. UNCHANGED <<net, done, broken, foreign>>
  BY DEF UserStep, SendMessage, Send, CallClose, StartMessaging, Stop
<1> SUFFICES \E t \in Endpoints :
               /\ ep' = [ep EXCEPT ![e] = t]
               /\ SideInv(t, q) /\ Moves(t)
               /\ QueueOver(s, q) => QueueOver(t, q)
               /\ UserEffect(e, s, t)
  BY <1>2
<1> HIDE DEF s, q
<1>3. ASSUME NEW r \in Endpoints, SideInv(r, q), QueueOver(s, q) => QueueOver(r, q),
             UserEffect(e, s, r), r.running = s.running, r.writes = s.writes,
             ep' = [ep EXCEPT ![e] = StartSendQueue(r)]
      PROVE  \E t \in Endpoints :
               /\ ep' = [ep EXCEPT ![e] = t]
               /\ SideInv(t, q) /\ Moves(t)
               /\ QueueOver(s, q) => QueueOver(t, q)
               /\ UserEffect(e, s, t)
  <2> DEFINE t == StartSendQueue(r)
  <2>1. /\ t \in Endpoints /\ Kept(r, t) /\ (r.running => t = r)
        /\ SideInv(t, q) /\ Moves(t)
        /\ QueueOver(r, q) => QueueOver(t, q)
    BY <1>1, <1>3, LoopSide
  <2>2. ep' = [ep EXCEPT ![e] = t]
    BY <1>3
  <2> HIDE DEF t
  <2>3. UserEffect(e, s, t)
    BY <1>3, <2>1 DEF Kept, UserEffect, IsSendingClose
  <2> QED
    BY <1>3, <2>1, <2>2, <2>3
<1>4. CASE SendMessage(e)
  <2>1. PICK n \in Sizes : Send(e, [i \in 1..n |-> Len(sent[e]) + 1])
    BY <1>4 DEF SendMessage
  <2> DEFINE p == [i \in 1..n |-> Len(sent[e]) + 1]
             r == Enqueue(s, p)
  <2>2. p \in Payloads /\ Send(e, p)
    <3>1. n \in Nat /\ Len(sent[e]) + 1 \in Nat
      BY WsAssumption, HandlerTypes
    <3> QED
      BY <2>1, <3>1, MessagePayload
  <2> HIDE DEF p
  <2>3. s.queue \in Seq(Payloads)
    BY <1>1 DEF Endpoints
  <2>4. Append(s.queue, p) \in Seq(Payloads) /\ Append(s.queue, p) # <<>>
    BY <2>2, <2>3
  <2>5. /\ r \in Endpoints /\ r.running = s.running /\ r.writes = s.writes
        /\ r.queue # <<>> /\ r.control = s.control
        /\ UserEffect(e, s, r)
    BY <1>1, <2>4 DEF Enqueue, Endpoints, UserEffect, IsSendingClose
  <2>6. ep' = [ep EXCEPT ![e] = StartSendQueue(r)]
    BY <2>2 DEF Send, s
  <2> HIDE DEF r
  <2>7. \A w : IsWriteOf(s, w) => IsWriteOf(r, w)
    BY <2>5 DEF IsWriteOf, IsSendingClose
  <2>8. SideInv(r, q) /\ (QueueOver(s, q) => QueueOver(r, q))
    BY <1>1, <2>5, <2>7 DEF SideInv, QueueOver, IsSendingClose
  <2> QED
    BY <1>3, <2>5, <2>6, <2>8
<1>5. CASE CallClose(e)
  <2> DEFINE r == [s EXCEPT !.control = "close"]
  <2>1. ep' = [ep EXCEPT ![e] = StartSendQueue(r)]
    BY <1>5 DEF CallClose, SendClose, s
  <2>2. r \in Endpoints /\ LoopUntouched(s, r) /\ UserEffect(e, s, r)
    BY <1>1, <1>5 DEF Endpoints, LoopUntouched, IsSendingClose, UserEffect, CallClose
  <2> HIDE DEF r
  <2>3. r.running = s.running /\ r.writes = s.writes
    BY <2>2 DEF LoopUntouched
  <2> QED
    BY <1>1, <1>3, <2>1, <2>2, <2>3, UntouchedSide
<1>6. CASE StartMessaging(e)
  <2> DEFINE r == [s EXCEPT !.started = TRUE, !.reading = TRUE]
  <2>1. ep' = [ep EXCEPT ![e] = IF r.queue # <<>> THEN StartSendQueue(r) ELSE r]
    BY <1>6 DEF StartMessaging, s
  <2>2. /\ r \in Endpoints /\ r.running = s.running /\ r.writes = s.writes
        /\ r.queue = s.queue /\ r.control = s.control
        /\ UserEffect(e, s, r)
    BY <1>1 DEF Endpoints, UserEffect, IsSendingClose
  <2> HIDE DEF r
  <2>3. \A w : IsWriteOf(s, w) => IsWriteOf(r, w)
    BY <2>2 DEF IsWriteOf, IsSendingClose
  <2>4. SideInv(r, q) /\ (QueueOver(s, q) => QueueOver(r, q))
    BY <1>1, <2>2, <2>3 DEF SideInv, QueueOver, IsSendingClose
  <2>5. CASE r.queue # <<>>
    BY <1>3, <2>1, <2>2, <2>4, <2>5
  <2>6. CASE r.queue = <<>>
    BY <2>1, <2>2, <2>4, <2>6 DEF Moves
  <2> QED
    BY <2>5, <2>6
<1>7. CASE Stop(e)
  <2> DEFINE r == [s EXCEPT !.stopped = TRUE]
  <2>1. ep' = [ep EXCEPT ![e] = r]
    BY <1>7 DEF Stop, s
  <2>2. /\ r \in Endpoints /\ r.running = s.running /\ r.writes = s.writes
        /\ r.queue = s.queue /\ r.control = s.control
        /\ UserEffect(e, s, r) /\ r.stopped
    BY <1>1, <1>7 DEF Endpoints, UserEffect, IsSendingClose, Stop
  <2> HIDE DEF r
  <2>3. \A w : IsWriteOf(s, w) => IsWriteOf(r, w)
    BY <2>2 DEF IsWriteOf, IsSendingClose
  <2>4. SideInv(r, q) /\ (QueueOver(s, q) => QueueOver(r, q)) /\ Moves(r)
    BY <1>1, <2>2, <2>3 DEF SideInv, QueueOver, IsSendingClose, Moves
  <2> QED
    BY <2>1, <2>2, <2>4
<1> QED
  BY <1>4, <1>5, <1>6, <1>7 DEF UserStep

-----------------------------------------------------------------------------
(* The inductive invariant: from one side to the other *)

\* Of the frames on their way to a side, n on the network and those due in q,
\* a close frame is the last, and r says that it was handled.
CloseLast(r, q, n) ==
  /\ r => ~Has(q, {"read"}) /\ n = <<>>
  /\ DueClose(q) => n = <<>>
  /\ \A i \in DOMAIN n : n[i].op = "close" => i = Len(n)

CloseOut(r, q, n) ==
  \/ r
  \/ DueClose(q)
  \/ \E i \in DOMAIN n : n[i].op = "close"

\* The completions of writes, and of reads that failed, have nothing to do with
\* the close frame.
LEMMA WriteDoneKeepsClose ==
  ASSUME NEW q \in Seq(Completions), NEW r, NEW n
  PROVE  /\ q # <<>> /\ Head(q).kind \in WriteKinds =>
              /\ CloseLast(r, Tail(q), n) <=> CloseLast(r, q, n)
              /\ CloseOut(r, Tail(q), n) <=> CloseOut(r, q, n)
         /\ \A kind \in {"wrote", "writeFailed", "readFailed"} :
              LET p == Append(q, [kind |-> kind])
              IN /\ CloseLast(r, p, n) <=> CloseLast(r, q, n)
                 /\ CloseOut(r, p, n) <=> CloseOut(r, q, n)
<1>1. ASSUME q # <<>>, Head(q).kind \in WriteKinds
      PROVE  /\ CloseLast(r, Tail(q), n) <=> CloseLast(r, q, n)
             /\ CloseOut(r, Tail(q), n) <=> CloseOut(r, q, n)
  <2>1. /\ Has(q, {"read"}) <=> Has(Tail(q), {"read"})
        /\ DueClose(q) <=> DueClose(Tail(q))
    BY <1>1, PopDone DEF WriteKinds
  <2> QED
    BY <2>1 DEF CloseLast, CloseOut
<1>2. ASSUME NEW kind \in {"wrote", "writeFailed", "readFailed"}
      PROVE  /\ CloseLast(r, Append(q, [kind |-> kind]), n) <=> CloseLast(r, q, n)
             /\ CloseOut(r, Append(q, [kind |-> kind]), n) <=> CloseOut(r, q, n)
  <2>1. [kind |-> kind] \in Completions
    BY DEF Completions
  <2>2. /\ Has(Append(q, [kind |-> kind]), {"read"}) <=> Has(q, {"read"})
        /\ DueClose(Append(q, [kind |-> kind])) <=> DueClose(q)
    BY <2>1, PushDone
  <2> QED
    BY <2>2 DEF CloseLast, CloseOut
<1> QED
  BY <1>1, <1>2

\* Reading the close frame sets closeReceived and leaves no read due.
LEMMA ReadDoneKeepsClose ==
  ASSUME NEW q \in Seq(Completions), NEW r \in BOOLEAN, NEW u \in BOOLEAN, NEW n,
         q # <<>>, Head(q).kind \in ReadKinds, OneOfEach(q),
         u <=> r \/ (Head(q).kind = "read" /\ Head(q).frame.op = "close"),
         CloseLast(r, q, n)
  PROVE  /\ CloseLast(u, Tail(q), n)
         /\ CloseOut(u, Tail(q), n) => CloseOut(r, q, n)
<1>1. /\ ~Has(Tail(q), ReadKinds)
      /\ DueClose(q) <=> \/ Head(q).kind = "read" /\ Head(q).frame.op = "close"
                         \/ DueClose(Tail(q))
  BY PopDone
<1>2. ~Has(Tail(q), {"read"}) /\ ~DueClose(Tail(q))
  BY <1>1 DEF Has, DueClose, ReadKinds
<1> QED
  BY <1>1, <1>2 DEF CloseLast, CloseOut

\* The frame that arrives is the first on the network, which is empty if it is
\* a close frame.
LEMMA ArrivalKeepsClose ==
  ASSUME NEW q \in Seq(Completions), NEW r \in BOOLEAN, NEW n \in Seq(Frames),
         n # <<>>, CloseLast(r, q, n)
  PROVE  LET p == Append(q, [kind |-> "read", frame |-> Head(n)])
         IN /\ CloseLast(r, p, Tail(n))
            /\ CloseOut(r, p, Tail(n)) => CloseOut(r, q, n)
<1> DEFINE c == [kind |-> "read", frame |-> Head(n)]
           p == Append(q, c)
<1>1. c \in Completions /\ c.kind = "read" /\ c.frame = Head(n)
  BY DEF Completions
<1>2. DueClose(p) <=> DueClose(q) \/ Head(n).op = "close"
  BY <1>1, PushDone
<1> HIDE DEF p, c
<1>3. /\ DOMAIN n = 1..Len(n) /\ Len(n) \in Nat \ {0} /\ Head(n) = n[1]
      /\ Len(Tail(n)) = Len(n) - 1 /\ DOMAIN Tail(n) = 1..(Len(n) - 1)
      /\ \A i \in 1..(Len(n) - 1) : Tail(n)[i] = n[i + 1]
  OBVIOUS
<1>4. ~r /\ ~DueClose(q)
  BY DEF CloseLast
<1>5. Head(n).op = "close" => Tail(n) = <<>>
  <2>1. Head(n).op = "close" => Len(n) = 1
    BY <1>3 DEF CloseLast
  <2>2. Tail(n) \in Seq(Frames) /\ (Len(n) = 1 => Len(Tail(n)) = 0)
    BY <1>3
  <2> QED
    BY <2>1, <2>2, EmptySeq
<1>6. \A i \in DOMAIN Tail(n) : Tail(n)[i].op = "close" => i = Len(Tail(n))
  BY <1>3 DEF CloseLast
<1>7. CloseLast(r, p, Tail(n))
  BY <1>2, <1>4, <1>5, <1>6 DEF CloseLast
<1>8. CloseOut(r, p, Tail(n)) => CloseOut(r, q, n)
  <2>1. \A i \in DOMAIN Tail(n) : i + 1 \in DOMAIN n /\ Tail(n)[i] = n[i + 1]
    BY <1>3
  <2>2. 1 \in DOMAIN n /\ Head(n) = n[1]
    BY <1>3
  <2> QED
    BY <1>2, <1>4, <2>1, <2>2 DEF CloseOut
<1> QED
  BY <1>7, <1>8 DEF p, c

\* Before the close frame anything may be sent, and it may.
LEMMA FrameKeepsClose ==
  ASSUME NEW q, NEW r \in BOOLEAN, NEW n \in Seq(Frames), NEW f \in Frames,
         ~CloseOut(r, q, n)
  PROVE  /\ CloseLast(r, q, Append(n, f))
         /\ CloseOut(r, q, Append(n, f)) => f.op = "close"
<1>1. /\ DOMAIN n = 1..Len(n) /\ Len(n) \in Nat
      /\ DOMAIN Append(n, f) = 1..(Len(n) + 1) /\ Len(Append(n, f)) = Len(n) + 1
      /\ Append(n, f)[Len(n) + 1] = f
      /\ \A i \in 1..Len(n) : Append(n, f)[i] = n[i]
  OBVIOUS
<1>2. \A i \in DOMAIN Append(n, f) :
        i = Len(n) + 1 \/ (i \in DOMAIN n /\ Append(n, f)[i] = n[i])
  BY <1>1
<1>3. ~r /\ ~DueClose(q) /\ \A i \in DOMAIN n : n[i].op # "close"
  BY DEF CloseOut
<1> QED
  BY <1>1, <1>2, <1>3 DEF CloseLast, CloseOut

\* What is on its way from a side, and what the side does meanwhile.
Pipe(e) ==
  LET d == Peer(e)
  IN /\ CloseLast(ep[d].closeReceived, done[d], net[e])
     /\ CloseOut(ep[d].closeReceived, done[d], net[e]) => QueueOver(ep[e], done[e])

\* The inductive invariant of the send queue and of the close frame.
QueueInv ==
  /\ TypeOK
  /\ \A e \in Sides :
       /\ SideInv(ep[e], done[e]) /\ Moves(ep[e])
       /\ Has(done[e], {"writeFailed"}) => broken
       /\ Pipe(e)

\* There are two sides; what holds of e and of its peer afterwards is enough.
LEMMA BothSides ==
  ASSUME NEW e \in Sides, TypeOK',
         \A x \in {e, Peer(e)} :
           /\ SideInv(ep'[x], done'[x]) /\ Moves(ep'[x])
           /\ Has(done'[x], {"writeFailed"}) => broken'
           /\ CloseLast(ep'[Peer(x)].closeReceived, done'[Peer(x)], net'[x])
           /\ CloseOut(ep'[Peer(x)].closeReceived, done'[Peer(x)], net'[x]) =>
                QueueOver(ep'[x], done'[x])
  PROVE  QueueInv'
<1>1. \A x \in Sides : x \in {e, Peer(e)}
  BY DEF Sides, Peer
<1> QED
  BY <1>1 DEF QueueInv, Pipe

\* A handler changes the endpoint and the completions of its side only.
LEMMA HandleFrame ==
  ASSUME TypeOK, NEW e \in Sides, NEW t, Handle(e, t)
  PROVE  /\ ep'[e] = t /\ ep'[Peer(e)] = ep[Peer(e)]
         /\ done'[e] = Tail(done[e]) /\ done'[Peer(e)] = done[Peer(e)]
         /\ UNCHANGED <<net, broken, sent, foreign>>
BY HandlerTypes DEF Handle, TypeOK

\* What the invariant says of a side and its peer.
LEMMA QueueInvOf ==
  ASSUME QueueInv, NEW e \in Sides
  PROVE  LET d == Peer(e)
         IN /\ TypeOK /\ d \in Sides /\ d # e /\ Peer(d) = e
            /\ SideInv(ep[e], done[e]) /\ Moves(ep[e])
            /\ SideInv(ep[d], done[d]) /\ Moves(ep[d])
            /\ Has(done[e], {"writeFailed"}) => broken
            /\ Has(done[d], {"writeFailed"}) => broken
            /\ CloseLast(ep[d].closeReceived, done[d], net[e])
            /\ CloseLast(ep[e].closeReceived, done[e], net[d])
            /\ CloseOut(ep[d].closeReceived, done[d], net[e]) => QueueOver(ep[e], done[e])
            /\ CloseOut(ep[e].closeReceived, done[e], net[d]) => QueueOver(ep[d], done[d])
<1>1. TypeOK /\ Peer(e) \in Sides /\ Peer(e) # e /\ Peer(Peer(e)) = e
  BY HandlerTypes DEF QueueInv
<1> QED
  BY <1>1 DEF QueueInv, Pipe

\* The handler of a write preserves the inductive invariant.
LEMMA WriteKeepsQueue ==
  ASSUME QueueInv, NEW e \in Sides, WriteStep(e)
  PROVE  QueueInv'
<1> DEFINE d == Peer(e)
<1>1. /\ TypeOK /\ d \in Sides /\ d # e /\ Peer(d) = e
      /\ SideInv(ep[e], done[e]) /\ Moves(ep[e])
      /\ SideInv(ep[d], done[d]) /\ Moves(ep[d])
      /\ Has(done[e], {"writeFailed"}) => broken
      /\ Has(done[d], {"writeFailed"}) => broken
      /\ CloseLast(ep[d].closeReceived, done[d], net[e])
      /\ CloseLast(ep[e].closeReceived, done[e], net[d])
      /\ CloseOut(ep[d].closeReceived, done[d], net[e]) => QueueOver(ep[e], done[e])
      /\ CloseOut(ep[e].closeReceived, done[e], net[d]) => QueueOver(ep[d], done[d])
  BY QueueInvOf
<1>2. /\ done[e] # <<>> /\ Head(done[e]).kind \in WriteKinds
      /\ done[e] \in Seq(Completions)
  BY <1>1, WriteHandled, HandlerTypes
<1>3. PICK t \in Endpoints :
        HandledWell(e, t) /\ t.closeReceived = ep[e].closeReceived
  BY <1>1, WriteHandled DEF WriteEffect
<1>4. /\ ep'[e] = t /\ ep'[d] = ep[d]
      /\ done'[e] = Tail(done[e]) /\ done'[d] = done[d]
      /\ net' = net /\ broken' = broken
  BY <1>1, <1>3, HandleFrame DEF HandledWell
<1>5. TypeOK'
  BY <1>1, <1>2, <1>3, HandleType DEF HandledWell
<1>6. Has(Tail(done[e]), {"writeFailed"}) => broken
  BY <1>1, <1>2, PopDone
<1>7. /\ CloseLast(t.closeReceived, Tail(done[e]), net[d])
      /\ CloseOut(t.closeReceived, Tail(done[e]), net[d]) => QueueOver(ep[d], done[d])
  BY <1>1, <1>2, <1>3, WriteDoneKeepsClose
<1>8. /\ SideInv(t, Tail(done[e])) /\ Moves(t)
      /\ CloseOut(ep[d].closeReceived, done[d], net[e]) => QueueOver(t, Tail(done[e]))
  BY <1>1, <1>3 DEF HandledWell
<1> QED
  BY <1>1, <1>4, <1>5, <1>6, <1>7, <1>8, BothSides

\* The handler of a read preserves the inductive invariant.
LEMMA ReadKeepsQueue ==
  ASSUME QueueInv, NEW e \in Sides, ReadStep(e)
  PROVE  QueueInv'
<1> DEFINE d == Peer(e)
<1>1. /\ TypeOK /\ d \in Sides /\ d # e /\ Peer(d) = e
      /\ SideInv(ep[e], done[e]) /\ Moves(ep[e])
      /\ SideInv(ep[d], done[d]) /\ Moves(ep[d])
      /\ Has(done[e], {"writeFailed"}) => broken
      /\ Has(done[d], {"writeFailed"}) => broken
      /\ CloseLast(ep[d].closeReceived, done[d], net[e])
      /\ CloseLast(ep[e].closeReceived, done[e], net[d])
      /\ CloseOut(ep[d].closeReceived, done[d], net[e]) => QueueOver(ep[e], done[e])
      /\ CloseOut(ep[e].closeReceived, done[e], net[d]) => QueueOver(ep[d], done[d])
  BY QueueInvOf
<1>2. /\ done[e] # <<>> /\ Head(done[e]).kind \in ReadKinds
      /\ done[e] \in Seq(Completions) /\ OneOfEach(done[e])
  BY <1>1, ReadHandled, HandlerTypes DEF SideInv
<1>3. PICK t \in Endpoints :
        /\ HandledWell(e, t)
        /\ t.closeReceived <=>
             \/ ep[e].closeReceived
             \/ Head(done[e]).kind = "read" /\ Head(done[e]).frame.op = "close"
  BY <1>1, ReadHandled DEF ReadEffect, IsClose
<1>4. /\ ep'[e] = t /\ ep'[d] = ep[d]
      /\ done'[e] = Tail(done[e]) /\ done'[d] = done[d]
      /\ net' = net /\ broken' = broken
  BY <1>1, <1>3, HandleFrame DEF HandledWell
<1>5. TypeOK'
  BY <1>1, <1>2, <1>3, HandleType DEF HandledWell
<1>6. Has(Tail(done[e]), {"writeFailed"}) => broken
  BY <1>1, <1>2, PopDone
<1>7. ep[e].closeReceived \in BOOLEAN /\ t.closeReceived \in BOOLEAN
  BY <1>1, HandlerTypes DEF Endpoints
<1>8. /\ CloseLast(t.closeReceived, Tail(done[e]), net[d])
      /\ CloseOut(t.closeReceived, Tail(done[e]), net[d]) => QueueOver(ep[d], done[d])
  BY <1>1, <1>2, <1>3, <1>7, ReadDoneKeepsClose
<1>9. /\ SideInv(t, Tail(done[e])) /\ Moves(t)
      /\ CloseOut(ep[d].closeReceived, done[d], net[e]) => QueueOver(t, Tail(done[e]))
  BY <1>1, <1>3 DEF HandledWell
<1> QED
  BY <1>1, <1>4, <1>5, <1>6, <1>8, <1>9, BothSides

\* A call of the user preserves the inductive invariant.
LEMMA UserKeepsQueue ==
  ASSUME QueueInv, NEW e \in Sides, UserStep(e)
  PROVE  QueueInv'
<1> DEFINE d == Peer(e)
<1>1. /\ TypeOK /\ d \in Sides /\ d # e /\ Peer(d) = e
      /\ SideInv(ep[e], done[e]) /\ Moves(ep[e])
      /\ SideInv(ep[d], done[d]) /\ Moves(ep[d])
      /\ Has(done[e], {"writeFailed"}) => broken
      /\ Has(done[d], {"writeFailed"}) => broken
      /\ CloseLast(ep[d].closeReceived, done[d], net[e])
      /\ CloseLast(ep[e].closeReceived, done[e], net[d])
      /\ CloseOut(ep[d].closeReceived, done[d], net[e]) => QueueOver(ep[e], done[e])
      /\ CloseOut(ep[e].closeReceived, done[e], net[d]) => QueueOver(ep[d], done[d])
  BY QueueInvOf
<1>2. PICK t \in Endpoints :
        /\ ep' = [ep EXCEPT ![e] = t]
        /\ SideInv(t, done[e]) /\ Moves(t)
        /\ QueueOver(ep[e], done[e]) => QueueOver(t, done[e])
        /\ t.closeReceived = ep[e].closeReceived
  BY <1>1, UserHandled DEF UserEffect
<1>3. UNCHANGED <<net, done, broken, foreign>>
  BY <1>1, UserHandled
<1>4. ep'[e] = t /\ ep'[d] = ep[d]
  BY <1>1, <1>2 DEF TypeOK
<1>5. TypeOK'
  BY <1>1, UserType
<1> QED
  BY <1>1, <1>2, <1>3, <1>4, <1>5, BothSides

\* A completion that is pushed leaves the side as it was.
LEMMA CompleteSide ==
  ASSUME TypeOK, NEW e \in Sides, NEW c \in Completions, Complete(e, c),
         SideInv(ep[e], done[e]),
         \/ c.kind \in WriteKinds /\ WriteInFlight(e)
         \/ c.kind \in ReadKinds /\ ReadInFlight(e)
  PROVE  /\ done'[e] = Append(done[e], c) /\ done'[Peer(e)] = done[Peer(e)]
         /\ SideInv(ep[e], Append(done[e], c))
         /\ QueueOver(ep[e], done[e]) =>
              QueueOver(ep[e], Append(done[e], c)) /\ ~WriteInFlight(e)
<1>1. done[e] \in Seq(Completions) /\ Peer(e) \in Sides /\ Peer(e) # e
  BY HandlerTypes
<1>2. done'[e] = Append(done[e], c) /\ done'[Peer(e)] = done[Peer(e)]
  BY <1>1 DEF Complete, TypeOK
<1>3. /\ WriteInFlight(e) => ep[e].writes # <<>> /\ ~Has(done[e], WriteKinds)
      /\ ReadInFlight(e) => ~Has(done[e], ReadKinds)
  BY DEF WriteInFlight, ReadInFlight, Completed, Has, WriteKinds, ReadKinds
<1>4. /\ OneOfEach(Append(done[e], c))
      /\ Has(Append(done[e], c), WriteKinds) => ep[e].writes # <<>>
      /\ Has(done[e], {"wrote"}) => Has(Append(done[e], c), {"wrote"})
  <2>1. WriteKinds \cap ReadKinds = {}
    BY DEF WriteKinds, ReadKinds
  <2> QED
    BY <1>1, <1>3, <2>1, PushDone DEF SideInv
<1>5. SideInv(ep[e], Append(done[e], c))
  BY <1>4 DEF SideInv
<1>6. QueueOver(ep[e], done[e]) =>
        QueueOver(ep[e], Append(done[e], c)) /\ ~WriteInFlight(e)
  <2>1. Has(done[e], {"wrote"}) => Has(done[e], WriteKinds)
    BY DEF Has, WriteKinds
  <2> QED
    BY <1>3, <1>4, <2>1 DEF QueueOver
<1> QED
  BY <1>2, <1>5, <1>6

\* The network and the io_service preserve the inductive invariant: the close frame
\* is the last to be sent because the loop stays marked as running after it.
LEMMA IoKeepsQueue ==
  ASSUME QueueInv, NEW e \in Sides, IoStep(e) \/ ForeignFrame(e)
  PROVE  QueueInv'
<1> DEFINE d == Peer(e)
<1>1. /\ TypeOK /\ d \in Sides /\ d # e /\ Peer(d) = e
      /\ SideInv(ep[e], done[e]) /\ Moves(ep[e])
      /\ SideInv(ep[d], done[d]) /\ Moves(ep[d])
      /\ Has(done[e], {"writeFailed"}) => broken
      /\ Has(done[d], {"writeFailed"}) => broken
      /\ CloseLast(ep[d].closeReceived, done[d], net[e])
      /\ CloseLast(ep[e].closeReceived, done[e], net[d])
      /\ CloseOut(ep[d].closeReceived, done[d], net[e]) => QueueOver(ep[e], done[e])
      /\ CloseOut(ep[e].closeReceived, done[e], net[d]) => QueueOver(ep[d], done[d])
  BY QueueInvOf
<1>2. /\ TypeOK' /\ ep' = ep
      /\ ep[d].closeReceived \in BOOLEAN /\ ep[e].closeReceived \in BOOLEAN
      /\ done[e] \in Seq(Completions) /\ done[d] \in Seq(Completions)
      /\ net[e] \in Seq(Frames) /\ net[d] \in Seq(Frames)
  <2>1. ep' = ep
    BY DEF IoStep, Transmit, FailWrite, Arrive, FailRead, ForeignFrame
  <2>2. TypeOK'
    BY <1>1, IoType
  <2>3. /\ ep[d] \in Endpoints /\ ep[e] \in Endpoints
        /\ done[e] \in Seq(Completions) /\ done[d] \in Seq(Completions)
        /\ net[e] \in Seq(Frames) /\ net[d] \in Seq(Frames)
    BY <1>1, HandlerTypes
  <2> QED
    BY <2>1, <2>2, <2>3 DEF Endpoints
<1>3. CASE Transmit(e)
  <2> DEFINE c == [kind |-> "wrote"]
             f == Writing(e).frame
  <2>1. /\ WriteInFlight(e) /\ Complete(e, c)
        /\ net' = [net EXCEPT ![e] = Append(@, f)] /\ broken' = broken
    BY <1>3 DEF Transmit
  <2>2. c \in Completions /\ c.kind \in WriteKinds
    BY DEF Completions, WriteKinds
  <2>3. /\ done'[e] = Append(done[e], c) /\ done'[d] = done[d]
        /\ SideInv(ep[e], Append(done[e], c))
        /\ ~QueueOver(ep[e], done[e])
    BY <1>1, <2>1, <2>2, CompleteSide
  <2>4. net'[e] = Append(net[e], f) /\ net'[d] = net[d]
    BY <1>1, <2>1 DEF TypeOK
  <2>5. f \in Frames
    BY <1>1, <2>1, HandlerTypes DEF WriteInFlight, InFlight
  <2>6. /\ CloseLast(ep[d].closeReceived, done[d], Append(net[e], f))
        /\ CloseOut(ep[d].closeReceived, done[d], Append(net[e], f)) => f.op = "close"
    BY <1>1, <1>2, <2>3, <2>5, FrameKeepsClose
  <2>7. f.op = "close" => QueueOver(ep[e], Append(done[e], c))
    <3>1. /\ ep[e].writes # <<>> /\ ep[e].running
          /\ IsWriteOf(ep[e], Head(ep[e].writes)) /\ f = Head(ep[e].writes).frame
      BY <1>1, <2>1 DEF WriteInFlight, SideInv, Writing
    <3>2. Has(Append(done[e], c), {"wrote"})
      BY <1>2, <2>2, PushDone
    <3> QED
      BY <3>1, <3>2 DEF QueueOver, IsWriteOf
  <2>8. Has(Append(done[e], c), {"writeFailed"}) => broken
    BY <1>1, <1>2, <2>2, PushDone
  <2>9. /\ CloseLast(ep[e].closeReceived, Append(done[e], c), net[d])
        /\ CloseOut(ep[e].closeReceived, Append(done[e], c), net[d]) =>
             QueueOver(ep[d], done[d])
    BY <1>1, <1>2, WriteDoneKeepsClose
  <2> HIDE DEF c, f
  <2> QED
    BY <1>1, <1>2, <2>1, <2>3, <2>4, <2>6, <2>7, <2>8, <2>9, BothSides
<1>4. ASSUME NEW kind \in {"writeFailed", "readFailed"}, Complete(e, [kind |-> kind]),
             kind = "writeFailed" => WriteInFlight(e) /\ broken',
             kind = "readFailed" => ReadInFlight(e),
             broken => broken', net' = net
      PROVE  QueueInv'
  <2> DEFINE c == [kind |-> kind]
  <2>1. c \in Completions /\ c.kind = kind
    BY DEF Completions
  <2>2. /\ done'[e] = Append(done[e], c) /\ done'[d] = done[d]
        /\ SideInv(ep[e], Append(done[e], c))
        /\ QueueOver(ep[e], done[e]) => QueueOver(ep[e], Append(done[e], c))
    BY <1>1, <1>4, <2>1, CompleteSide DEF WriteKinds, ReadKinds
  <2>3. Has(Append(done[e], c), {"writeFailed"}) => broken'
    BY <1>1, <1>2, <1>4, <2>1, PushDone
  <2>4. Has(done[d], {"writeFailed"}) => broken'
    BY <1>1, <1>4
  <2>5. /\ CloseLast(ep[e].closeReceived, Append(done[e], c), net[d])
        /\ CloseOut(ep[e].closeReceived, Append(done[e], c), net[d]) =>
             QueueOver(ep[d], done[d])
    BY <1>1, <1>2, WriteDoneKeepsClose
  <2> HIDE DEF c
  <2> QED
    BY <1>1, <1>2, <1>4, <2>2, <2>3, <2>4, <2>5, BothSides
<1>5. CASE FailWrite(e)
  BY <1>4, <1>5 DEF FailWrite
<1>6. CASE FailRead(e)
  BY <1>4, <1>6 DEF FailRead
<1>7. CASE Arrive(e)
  <2> DEFINE c == [kind |-> "read", frame |-> Head(net[d])]
  <2>1. /\ ReadInFlight(e) /\ net[d] # <<>> /\ Complete(e, c)
        /\ net' = [net EXCEPT ![d] = Tail(@)] /\ broken' = broken
    BY <1>7 DEF Arrive
  <2>2. c \in Completions /\ c.kind = "read"
    BY <1>2, <2>1 DEF Completions
  <2>3. /\ done'[e] = Append(done[e], c) /\ done'[d] = done[d]
        /\ SideInv(ep[e], Append(done[e], c))
        /\ QueueOver(ep[e], done[e]) => QueueOver(ep[e], Append(done[e], c))
    BY <1>1, <2>1, <2>2, CompleteSide DEF ReadKinds
  <2>4. net'[e] = net[e] /\ net'[d] = Tail(net[d])
    BY <1>1, <2>1 DEF TypeOK
  <2>5. /\ CloseLast(ep[e].closeReceived, Append(done[e], c), Tail(net[d]))
        /\ CloseOut(ep[e].closeReceived, Append(done[e], c), Tail(net[d])) =>
             QueueOver(ep[d], done[d])
    BY <1>1, <1>2, <2>1, ArrivalKeepsClose
  <2>6. Has(Append(done[e], c), {"writeFailed"}) => broken
    BY <1>1, <1>2, <2>2, PushDone
  <2> HIDE DEF c
  <2> QED
    BY <1>1, <1>2, <2>1, <2>3, <2>4, <2>5, <2>6, BothSides
<1>8. CASE ForeignFrame(e)
  <2>1. PICK op \in {"ping", "pong", "unknown"} :
          net' = [net EXCEPT ![e] = Append(@, [op |-> op, fin |-> TRUE, data |-> <<>>])]
    BY <1>8 DEF ForeignFrame
  <2> DEFINE f == [op |-> op, fin |-> TRUE, data |-> <<>>]
  <2>2. <<>> \in {p \in Payloads : Len(p) <= MaxFrame}
    BY WsAssumption DEF Payloads
  <2>3. f \in Frames /\ f.op # "close"
    BY <2>2 DEF Frames
  <2>4. /\ net'[e] = Append(net[e], f) /\ net'[d] = net[d]
        /\ done' = done /\ broken' = broken /\ ~QueueOver(ep[e], done[e])
    BY <1>1, <1>8, <2>1 DEF ForeignFrame, TypeOK, QueueOver
  <2> HIDE DEF f
  <2>5. /\ CloseLast(ep[d].closeReceived, done[d], Append(net[e], f))
        /\ ~CloseOut(ep[d].closeReceived, done[d], Append(net[e], f))
    BY <1>1, <1>2, <2>3, <2>4, FrameKeepsClose
  <2> QED
    BY <1>1, <1>2, <2>4, <2>5, BothSides
<1> QED
  BY <1>3, <1>5, <1>6, <1>7, <1>8 DEF IoStep

\* The connection starts in the inductive invariant.
LEMMA QueueInit == Init => QueueInv
<1> SUFFICES ASSUME Init PROVE QueueInv
  OBVIOUS
<1>1. TypeOK
  <2>1. /\ <<>> \in Payloads /\ <<>> \in Seq(Payloads) /\ <<>> \in Seq(Events)
        /\ <<>> \in Seq([frame : Frames, rest : Payloads])
    BY DEF Payloads
  <2>2. New \in Endpoints
    BY <2>1 DEF New, Endpoints
  <2>3. /\ <<>> \in Seq(Frames) /\ <<>> \in Seq(Completions)
        /\ 0 \in 0..MaxForeign
    BY WsAssumption
  <2> QED
    BY <2>1, <2>2, <2>3 DEF Init, TypeOK
<1>2. ASSUME NEW e \in Sides
      PROVE  /\ SideInv(ep[e], done[e]) /\ Moves(ep[e])
             /\ Has(done[e], {"writeFailed"}) => broken
             /\ Pipe(e)
  <2>1. Peer(e) \in Sides
    BY DEF Sides, Peer
  <2>2. /\ ep[e] = New /\ done[e] = <<>> /\ net[e] = <<>>
        /\ ep[Peer(e)] = New /\ done[Peer(e)] = <<>>
    BY <2>1 DEF Init
  <2>3. /\ ~New.started /\ ~New.running /\ ~New.closeReceived
        /\ New.writes = <<>> /\ DOMAIN <<>> = {} /\ Len(<<>>) = 0
    BY DEF New
  <2>4. /\ SideInv(New, <<>>) /\ Moves(New) /\ \A K : ~Has(<<>>, K)
    BY <2>3 DEF SideInv, Moves, Has, OneOfEach
  <2>5. Pipe(e)
    BY <2>2, <2>3 DEF Pipe, CloseLast, CloseOut, Has, DueClose
  <2> QED
    BY <2>2, <2>4, <2>5
<1> QED
  BY <1>1, <1>2 DEF QueueInv

\* Every step preserves the inductive invariant.
LEMMA QueueStep == QueueInv /\ [Next]_vars => QueueInv'
<1> SUFFICES ASSUME QueueInv, [Next]_vars PROVE QueueInv'
  OBVIOUS
<1>1. CASE UNCHANGED vars
  BY <1>1 DEF vars, QueueInv, TypeOK, SideInv, Moves, Has, OneOfEach, Pipe,
              CloseLast, CloseOut, DueClose, QueueOver, IsSendingClose,
              IsWriteOf, IsData, Peer
<1>2. CASE Break
  <2>1. TypeOK' /\ UNCHANGED <<ep, net, done>> /\ broken'
    BY <1>2 DEF Break, QueueInv, TypeOK
  <2> QED
    BY <2>1 DEF QueueInv, Pipe
<1>3. ASSUME NEW e \in Sides,
             \/ UserStep(e) \/ IoStep(e) \/ WriteStep(e)
             \/ ReadStep(e) \/ ForeignFrame(e)
      PROVE  QueueInv'
  BY <1>3, UserKeepsQueue, IoKeepsQueue, WriteKeepsQueue, ReadKeepsQueue
<1> QED
  BY <1>1, <1>2, <1>3 DEF Next

\* The inductive invariant holds.
THEOREM QueueInvariant == Spec => []QueueInv
  BY QueueInit, QueueStep, PTL DEF Spec

\* Every variable holds what its C++ counterpart can hold.
THEOREM TypeCorrect == Spec => []TypeOK
<1>1. QueueInv => TypeOK
  BY DEF QueueInv
<1> QED
  BY <1>1, QueueInvariant, PTL

\* is_send_queue_running keeps the writes apart.
THEOREM OneWriteAtATime == Spec => []OneWrite
<1>1. QueueInv => OneWrite
  BY DEF QueueInv, OneWrite, SideInv, Completed, Has, WriteKinds
<1> QED
  BY <1>1, QueueInvariant, PTL

\* No message is left in the queue unless the user was told of an error.
THEOREM NothingStuck == Spec => []QueueMoves
<1>1. QueueInv => QueueMoves
  BY DEF QueueInv, QueueMoves, Moves, HasEvent
<1> QED
  BY <1>1, QueueInvariant, PTL

\* No frame follows the close frame.
THEOREM CloseFrameIsLast == Spec => []CloseIsLast
<1>1. ASSUME QueueInv, NEW e \in Sides
      PROVE  LET d == Peer(e)
             IN /\ ep[d].closeReceived => Reads(d) = {} /\ net[e] = <<>>
                /\ \A i \in Reads(d) : done[d][i].frame.op = "close" =>
                     net[e] = <<>> /\ \A j \in Reads(d) : j <= i
                /\ \A i \in DOMAIN net[e] : net[e][i].op = "close" => i = Len(net[e])
  <2> DEFINE d == Peer(e)
  <2>1. /\ CloseLast(ep[d].closeReceived, done[d], net[e])
        /\ SideInv(ep[d], done[d]) /\ d \in Sides /\ TypeOK
    BY <1>1, QueueInvOf
  <2>2. done[d] \in Seq(Completions)
    BY <2>1, HandlerTypes
  <2>3. \A i, j \in Reads(d) : i = j
    BY <2>1 DEF Reads, SideInv, OneOfEach, WriteKinds
  <2>4. Reads(d) \subseteq Nat
    BY <2>2 DEF Reads
  <2>5. \A i, j \in Reads(d) : j <= i
    BY <2>3, <2>4
  <2> QED
    BY <2>1, <2>5 DEF CloseLast, Reads, Has, DueClose
<1>2. QueueInv => CloseIsLast
  BY <1>1 DEF CloseIsLast
<1> QED
  BY <1>2, QueueInvariant, PTL

\* Whatever the step, a side is changed by its user, by a write or by a read.
LEMMA SideStep ==
  ASSUME QueueInv, NEW e \in Sides, [Next]_vars
  PROVE  \/ ep'[e] = ep[e]
         \/ UserStep(e) /\ UserEffect(e, ep[e], ep'[e])
         \/ WriteStep(e) /\ WriteEffect(ep[e], ep'[e], Head(done[e]))
         \/ ReadStep(e) /\ ReadEffect(ep[e], ep'[e], Head(done[e]))
<1>1. /\ TypeOK /\ Peer(e) \in Sides /\ Peer(e) # e /\ Peer(Peer(e)) = e
      /\ \A x \in Sides : SideInv(ep[x], done[x]) /\ Moves(ep[x])
  BY HandlerTypes DEF QueueInv
<1>2. CASE UNCHANGED vars \/ Break
  BY <1>2 DEF vars, Break
<1>3. ASSUME NEW x \in Sides, UserStep(x)
      PROVE  /\ x = e => UserEffect(e, ep[e], ep'[e])
             /\ x # e => ep'[e] = ep[e]
  <2>1. PICK t \in Endpoints : ep' = [ep EXCEPT ![x] = t] /\ UserEffect(x, ep[x], t)
    BY <1>1, <1>3, UserHandled
  <2> QED
    BY <1>1, <2>1 DEF TypeOK
<1>4. ASSUME NEW x \in Sides, WriteStep(x)
      PROVE  /\ x = e => WriteEffect(ep[e], ep'[e], Head(done[e]))
             /\ x # e => ep'[e] = ep[e]
  <2>1. PICK t \in Endpoints : /\ HandledWell(x, t)
                               /\ WriteEffect(ep[x], t, Head(done[x]))
    BY <1>1, <1>4, WriteHandled
  <2> QED
    BY <1>1, <2>1 DEF TypeOK, HandledWell, Handle
<1>5. ASSUME NEW x \in Sides, ReadStep(x)
      PROVE  /\ x = e => ReadEffect(ep[e], ep'[e], Head(done[e]))
             /\ x # e => ep'[e] = ep[e]
  <2>1. PICK t \in Endpoints : /\ HandledWell(x, t)
                               /\ ReadEffect(ep[x], t, Head(done[x]))
    BY <1>1, <1>5, ReadHandled
  <2> QED
    BY <1>1, <2>1 DEF TypeOK, HandledWell, Handle
<1>6. ASSUME NEW x \in Sides, IoStep(x) \/ ForeignFrame(x)
      PROVE  ep'[e] = ep[e]
  BY <1>6 DEF IoStep, Transmit, FailWrite, Arrive, FailRead, ForeignFrame
<1> QED
  BY <1>2, <1>3, <1>4, <1>5, <1>6 DEF Next

\* Closing is for good: a ping that is read while a close frame waits to be
\* sent does not put a pong in its place (control_frame::to_pong).
THEOREM ClosingStays == Spec => ClosingIsFinal
<1>1. ASSUME QueueInv, [Next]_vars
      PROVE  [\A e \in Sides : IsSendingClose(ep[e]) => IsSendingClose(ep'[e])]_vars
  <2> SUFFICES ASSUME NEW e \in Sides, IsSendingClose(ep[e])
               PROVE  IsSendingClose(ep'[e])
    OBVIOUS
  <2> QED
    BY <1>1, SideStep DEF UserEffect, WriteEffect, ReadEffect, IsSendingClose
<1> QED
  BY <1>1, QueueInvariant, PTL DEF Spec, ClosingIsFinal

=============================================================================
