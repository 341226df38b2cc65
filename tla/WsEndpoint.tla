----------------------------- MODULE WsEndpoint -----------------------------
(***************************************************************************)
(* Two nbdl websocket endpoints at the ends of one connection, after the   *)
(* handshake: the send queue, fragmentation, the reader, the close         *)
(* handshake and stop.                                                     *)
(*                                                                         *)
(* Source: nbdl/include/nbdl/websocket/detail/endpoint_impl.hpp,           *)
(* message_sender.hpp and message_reader.hpp.                              *)
(*                                                                         *)
(* An endpoint is a record and a function of the C++ class is an operator  *)
(* from the endpoint before to the endpoint after, since all of them run   *)
(* to their end on the one thread of the io_service.  An action is a call  *)
(* by the user of the endpoint, the completion handler of a read or of a   *)
(* write, or a step of the network and the io_service (external).  The     *)
(* io_service runs the handlers of a side in the order in which the        *)
(* operations completed.                                                   *)
(*                                                                         *)
(* A payload is a sequence of bytes; every byte of a message is the number *)
(* of the message, which is enough to see it split, merged or reordered.   *)
(* The parts of a frame are read in one step: nothing but the frame        *)
(* depends on the reads in between.                                        *)
(*                                                                         *)
(* Definitions marked "Broken" are mistakes the code could have made; they *)
(* are used nowhere and show which property would notice each of them.     *)
(***************************************************************************)
EXTENDS Naturals, Sequences

CONSTANTS
  MaxFrame,    \* max_frame_size of message_sender
  Sizes,       \* the sizes of the messages users send
  MaxSends,    \* bound: messages each user sends
  StartAfter,  \* how many messages users hand over before start_messaging
  Closers,     \* the sides whose user calls send_close
  CloseAfter,  \* how many messages those users wait for before they do
  Stoppers,    \* the sides whose user calls stop
  Breaks,      \* whether the connection may break
  MaxForeign   \* bound: control frames a peer other than this library sends

Sides == {"client", "server"}
Peer(e) == IF e = "client" THEN "server" ELSE "client"

ASSUME WsAssumption ==
  /\ MaxFrame \in Nat \ {0} /\ Sizes \subseteq Nat /\ MaxSends \in Nat
  /\ StartAfter \in Nat
  /\ Closers \subseteq Sides /\ CloseAfter \in Nat
  /\ Stoppers \subseteq Sides
  /\ Breaks \in BOOLEAN /\ MaxForeign \in Nat

VARIABLES
  ep,        \* side -> the endpoint
  net,       \* side -> the frames under way to its peer (external)
  done,      \* side -> completed operations whose handlers are due (external)
  broken,    \* the connection is lost (external)
  sent,      \* side -> the messages its user handed to send_message (history)
  foreign    \* bound: control frames of a foreign peer so far

vars == <<ep, net, done, broken, sent, foreign>>

New == [started |-> FALSE, stopped |-> FALSE, running |-> FALSE,
        closeReceived |-> FALSE, control |-> "none", queue |-> <<>>,
        writes |-> <<>>,      \* the asynchronous writes in flight
        reading |-> FALSE,    \* the reader's loop runs
        payload |-> <<>>,     \* what the reader has of the current message
        got |-> <<>>,         \* the messages the user's handler has been given
        events |-> <<>>]      \* the kinds of all its calls, messages included

IsSendingClose(s) == s.control = "close"

\* call_handler: nobody is told anything after stop.
Notify(s, event) ==
  IF s.stopped THEN s ELSE [s EXCEPT !.events = Append(@, event)]

Deliver(s, payload) ==
  IF s.stopped THEN s
  ELSE [s EXCEPT !.got = Append(@, payload), !.events = Append(@, "message")]

-----------------------------------------------------------------------------
(* message_sender *)

\* Broken: the message is sent in one frame.
FragmentWhole(op, rest) ==
  [frame |-> [op |-> op, fin |-> TRUE, data |-> rest], rest |-> <<>>]

\* The next frame of what is left of a message, and what is left after it.
Fragment(op, rest) ==
  IF MaxFrame > Len(rest)
  THEN [frame |-> [op |-> op, fin |-> TRUE, data |-> rest], rest |-> <<>>]
  ELSE [frame |-> [op |-> op, fin |-> FALSE, data |-> SubSeq(rest, 1, MaxFrame)],
        rest |-> SubSeq(rest, MaxFrame + 1, Len(rest))]

StartWrite(s, op, rest) == [s EXCEPT !.writes = Append(@, Fragment(op, rest))]

-----------------------------------------------------------------------------
(* The send queue *)

\* One turn of the loop of start_send_queue.  After the close frame the loop
\* is over and running stays set, so that nothing more is sent.
RunQueue(s) ==
  IF IsSendingClose(s) THEN StartWrite(s, "close", <<>>)
  ELSE IF s.queue # <<>> THEN StartWrite(s, "text", Head(s.queue))
  ELSE [s EXCEPT !.running = FALSE]

\* Broken: a second loop is started.
StartSendQueueTwice(s) ==
  IF s.stopped \/ ~s.started THEN s ELSE RunQueue([s EXCEPT !.running = TRUE])

StartSendQueue(s) ==
  IF s.running \/ s.stopped \/ ~s.started THEN s
  ELSE RunQueue([s EXCEPT !.running = TRUE])

SendClose(s) == StartSendQueue([s EXCEPT !.control = "close"])

-----------------------------------------------------------------------------
(* Calls of the user *)

Enqueue(s, payload) == [s EXCEPT !.queue = Append(@, payload)]

\* send_message
Send(e, payload) ==
  /\ Len(sent[e]) < MaxSends
  /\ sent' = [sent EXCEPT ![e] = Append(@, payload)]
  /\ ep' = [ep EXCEPT ![e] = StartSendQueue(Enqueue(@, payload))]
  /\ UNCHANGED <<net, done, broken, foreign>>

\* send_close
CallClose(e) ==
  /\ e \in Closers /\ ~IsSendingClose(ep[e])
  /\ Len(ep[e].got) >= CloseAfter
  /\ ep' = [ep EXCEPT ![e] = SendClose(@)]
  /\ UNCHANGED <<net, done, broken, sent, foreign>>

\* Broken: the queue is not looked at.
StartWithoutQueue(e) ==
  /\ ~ep[e].started /\ ~ep[e].stopped
  /\ ep' = [ep EXCEPT ![e] = [@ EXCEPT !.started = TRUE, !.reading = TRUE]]
  /\ UNCHANGED <<net, done, broken, sent, foreign>>

\* start_messaging
StartMessaging(e) ==
  /\ ~ep[e].started /\ ~ep[e].stopped
  /\ Len(sent[e]) >= StartAfter
  /\ LET s == [ep[e] EXCEPT !.started = TRUE, !.reading = TRUE]
     IN ep' = [ep EXCEPT ![e] = IF s.queue # <<>> THEN StartSendQueue(s) ELSE s]
  /\ UNCHANGED <<net, done, broken, sent, foreign>>

\* stop, which shuts the socket down
Stop(e) ==
  /\ e \in Stoppers /\ ~ep[e].stopped
  /\ ep' = [ep EXCEPT ![e].stopped = TRUE]
  /\ UNCHANGED <<net, done, broken, sent, foreign>>

-----------------------------------------------------------------------------
(* Completion handlers of writes *)

Due(e, kind) == done[e] # <<>> /\ Head(done[e]).kind = kind

\* The handler of the operation that completed first runs: s is the endpoint
\* it leaves behind.
Handle(e, s) ==
  /\ done' = [done EXCEPT ![e] = Tail(@)]
  /\ ep' = [ep EXCEPT ![e] = s]
  /\ UNCHANGED <<net, broken, sent, foreign>>

Writing(e) == Head(ep[e].writes)
AfterWrite(e) == [ep[e] EXCEPT !.writes = Tail(@)]

WroteFragment(e) ==
  /\ Due(e, "wrote")
  /\ Writing(e).rest # <<>>
  /\ Handle(e, StartWrite(AfterWrite(e), "continuation", Writing(e).rest))

PopQueue(s) == IF s.queue = <<>> THEN s ELSE [s EXCEPT !.queue = Tail(@)]

\* Broken: the loop does not go on to the next message.
WroteMessageStops(e) ==
  /\ Due(e, "wrote")
  /\ Writing(e).frame.op # "close" /\ Writing(e).rest = <<>>
  /\ Handle(e, [PopQueue(AfterWrite(e)) EXCEPT !.running = FALSE])

WroteMessage(e) ==
  /\ Due(e, "wrote")
  /\ Writing(e).frame.op # "close" /\ Writing(e).rest = <<>>
  /\ Handle(e, RunQueue(PopQueue(AfterWrite(e))))

\* Broken: the user is told at once, without the close frame of the peer.
WroteCloseTells(e) ==
  /\ Due(e, "wrote")
  /\ Writing(e).frame.op = "close"
  /\ Handle(e, Notify(AfterWrite(e), "close"))

\* Broken: the loop ends as it does for an empty queue.
WroteCloseIdle(e) ==
  /\ Due(e, "wrote")
  /\ Writing(e).frame.op = "close"
  /\ Handle(e, LET s == [AfterWrite(e) EXCEPT !.running = FALSE]
               IN IF s.closeReceived THEN Notify(s, "close") ELSE s)

WroteClose(e) ==
  /\ Due(e, "wrote")
  /\ Writing(e).frame.op = "close"
  /\ Handle(e, LET s == AfterWrite(e)
               IN IF s.closeReceived THEN Notify(s, "close") ELSE s)

\* The catch of start_send_queue: eof and reset are expected while closing.
SendFailed(s, expected) ==
  Notify([s EXCEPT !.running = FALSE],
         IF IsSendingClose(s) /\ expected THEN "close" ELSE "error")

WriteFailed(e) ==
  /\ Due(e, "writeFailed")
  /\ Writing(e).frame.op # "close"
  /\ \E expected \in BOOLEAN : Handle(e, SendFailed(AfterWrite(e), expected))

\* The loop the error is handed to was deleted when the close frame was given
\* to the socket: its catch may still run, or nothing may come of it.
CloseWriteFailed(e) ==
  /\ Due(e, "writeFailed")
  /\ Writing(e).frame.op = "close"
  /\ \/ Handle(e, AfterWrite(e))
     \/ \E expected \in BOOLEAN : Handle(e, SendFailed(AfterWrite(e), expected))

-----------------------------------------------------------------------------
(* Completion handlers of the reader *)

IsData(frame) == frame.op \in {"text", "continuation"}
Read(e) == Head(done[e]).frame

\* Broken: the fin bit is not looked at.
ReadDataAnyFrame(e) ==
  /\ Due(e, "read")
  /\ IsData(Read(e))
  /\ Handle(e, Deliver(ep[e], Read(e).data))

ReadData(e) ==
  /\ Due(e, "read")
  /\ IsData(Read(e))
  /\ LET s == [ep[e] EXCEPT !.payload = @ \o Read(e).data]
     IN Handle(e, IF Read(e).fin
                  THEN [Deliver(s, s.payload) EXCEPT !.payload = <<>>]
                  ELSE s)

\* Broken: the close frame of the peer is not answered.
ReadCloseUnanswered(e) ==
  /\ Due(e, "read")
  /\ Read(e).op = "close"
  /\ LET s == [ep[e] EXCEPT !.payload = <<>>, !.closeReceived = TRUE, !.reading = FALSE]
     IN Handle(e, IF IsSendingClose(s) THEN Notify(s, "close") ELSE s)

\* Broken: the user is told before the answer is on its way.
ReadCloseTells(e) ==
  /\ Due(e, "read")
  /\ Read(e).op = "close"
  /\ LET s == [ep[e] EXCEPT !.payload = <<>>, !.closeReceived = TRUE, !.reading = FALSE]
     IN Handle(e, IF IsSendingClose(s) THEN Notify(s, "close")
                  ELSE SendClose(Notify(s, "close")))

\* The peer closes: answer, unless this side is closing already.  The reader
\* is done in either case.
ReadClose(e) ==
  /\ Due(e, "read")
  /\ Read(e).op = "close"
  /\ LET s == [ep[e] EXCEPT !.payload = <<>>, !.closeReceived = TRUE, !.reading = FALSE]
     IN Handle(e, IF IsSendingClose(s) THEN Notify(s, "close") ELSE SendClose(s))

\* Broken: a pong replaces the close frame that waits to be sent.
ReadPingAlways(e) ==
  /\ Due(e, "read")
  /\ Read(e).op = "ping"
  /\ Handle(e, [ep[e] EXCEPT !.control = "pong"])

\* to_pong: the pong is remembered, nothing sends it.
ReadPing(e) ==
  /\ Due(e, "read")
  /\ Read(e).op = "ping"
  /\ Handle(e, IF IsSendingClose(ep[e]) THEN ep[e]
               ELSE [ep[e] EXCEPT !.control = "pong"])

ReadPong(e) ==
  /\ Due(e, "read")
  /\ Read(e).op = "pong"
  /\ Handle(e, ep[e])

ReadBadInput(e) ==
  /\ Due(e, "read")
  /\ Read(e).op = "unknown"
  /\ Handle(e, [Notify(ep[e], "badRequest") EXCEPT !.reading = FALSE])

\* Broken: nobody is told that the connection is gone.
ReadFailedQuietly(e) ==
  /\ Due(e, "readFailed")
  /\ Handle(e, [ep[e] EXCEPT !.reading = FALSE])

ReadFailed(e) ==
  /\ Due(e, "readFailed")
  /\ Handle(e, [Notify(ep[e], "error") EXCEPT !.reading = FALSE])

-----------------------------------------------------------------------------
(* The network and the io_service (external) *)

Complete(e, c) == done' = [done EXCEPT ![e] = Append(@, c)]
Completed(e, kinds) == \E i \in DOMAIN done[e] : done[e][i].kind \in kinds

WriteInFlight(e) == ep[e].writes # <<>> /\ ~Completed(e, {"wrote", "writeFailed"})
ReadInFlight(e)  == ep[e].reading /\ ~Completed(e, {"read", "readFailed"})

\* The socket takes the frame being written.
Transmit(e) ==
  /\ WriteInFlight(e)
  /\ ~ep[e].stopped /\ ~broken
  /\ net' = [net EXCEPT ![e] = Append(@, Writing(e).frame)]
  /\ Complete(e, [kind |-> "wrote"])
  /\ UNCHANGED <<ep, broken, sent, foreign>>

\* A write fails once either side is shut down; the connection is lost then.
FailWrite(e) ==
  /\ WriteInFlight(e)
  /\ broken \/ ep[e].stopped \/ ep[Peer(e)].stopped
  /\ Complete(e, [kind |-> "writeFailed"])
  /\ broken' = TRUE
  /\ UNCHANGED <<ep, net, sent, foreign>>

Arrive(e) ==
  /\ ReadInFlight(e)
  /\ net[Peer(e)] # <<>>
  /\ Complete(e, [kind |-> "read", frame |-> Head(net[Peer(e)])])
  /\ net' = [net EXCEPT ![Peer(e)] = Tail(@)]
  /\ UNCHANGED <<ep, broken, sent, foreign>>

\* Frames under way are lost with the connection, but not when the peer has
\* shut it down.
FailRead(e) ==
  /\ ReadInFlight(e)
  /\ broken \/ ep[e].stopped \/ (ep[Peer(e)].stopped /\ net[Peer(e)] = <<>>)
  /\ Complete(e, [kind |-> "readFailed"])
  /\ UNCHANGED <<ep, net, broken, sent, foreign>>

Break ==
  /\ Breaks /\ ~broken
  /\ broken' = TRUE
  /\ UNCHANGED <<ep, net, done, sent, foreign>>

\* The peer is another implementation and sends what this library never does.
ForeignFrame(e) ==
  /\ foreign < MaxForeign
  /\ ~ep[e].stopped /\ ~broken /\ ~IsSendingClose(ep[e])
  /\ \E op \in {"ping", "pong", "unknown"} :
       net' = [net EXCEPT ![e] = Append(@, [op |-> op, fin |-> TRUE, data |-> <<>>])]
  /\ foreign' = foreign + 1
  /\ UNCHANGED <<ep, done, broken, sent>>

-----------------------------------------------------------------------------
Init ==
  /\ ep = [e \in Sides |-> New]
  /\ net = [e \in Sides |-> <<>>] /\ done = [e \in Sides |-> <<>>]
  /\ broken = FALSE
  /\ sent = [e \in Sides |-> <<>>]
  /\ foreign = 0

SendMessage(e) == \E n \in Sizes : Send(e, [i \in 1..n |-> Len(sent[e]) + 1])

UserStep(e) == SendMessage(e) \/ CallClose(e) \/ StartMessaging(e) \/ Stop(e)
IoStep(e) == Transmit(e) \/ FailWrite(e) \/ Arrive(e) \/ FailRead(e)
WriteStep(e) == \/ WroteFragment(e) \/ WroteMessage(e) \/ WroteClose(e)
                \/ WriteFailed(e) \/ CloseWriteFailed(e)
ReadStep(e) == \/ ReadData(e) \/ ReadClose(e) \/ ReadPing(e) \/ ReadPong(e)
               \/ ReadBadInput(e) \/ ReadFailed(e)

Next == \/ \E e \in Sides : \/ UserStep(e) \/ IoStep(e) \/ WriteStep(e)
                             \/ ReadStep(e) \/ ForeignFrame(e)
        \/ Break

Spec == Init /\ [][Next]_vars

\* Operations complete and the io_service runs their handlers; nothing makes
\* a user call anything.
FairSpec == Spec /\ \A e \in Sides :
  WF_vars(IoStep(e)) /\ WF_vars(WriteStep(e) \/ ReadStep(e))
=============================================================================
