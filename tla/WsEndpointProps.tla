--------------------------- MODULE WsEndpointProps ---------------------------
(***************************************************************************)
(* The correctness properties of WsEndpoint.                               *)
(***************************************************************************)
EXTENDS WsEndpoint

-----------------------------------------------------------------------------
(* Types *)

Payloads == Seq(Nat)
Frames == [op : {"text", "continuation", "close", "ping", "pong", "unknown"},
           fin : BOOLEAN, data : {p \in Payloads : Len(p) <= MaxFrame}]
Events == {"message", "close", "error", "badRequest"}
Endpoints ==
  [started : BOOLEAN, stopped : BOOLEAN, running : BOOLEAN,
   closeReceived : BOOLEAN, control : {"none", "pong", "close"},
   queue : Seq(Payloads), writes : Seq([frame : Frames, rest : Payloads]),
   reading : BOOLEAN, payload : Payloads,
   got : Seq(Payloads), events : Seq(Events)]
Completions == [kind : {"wrote", "writeFailed", "readFailed"}]
                 \cup [kind : {"read"}, frame : Frames]

\* Every variable holds what its C++ counterpart can hold, and a frame no more
\* than max_frame_size bytes.
TypeOK ==
  /\ ep \in [Sides -> Endpoints]
  /\ net \in [Sides -> Seq(Frames)]
  /\ done \in [Sides -> Seq(Completions)]
  /\ broken \in BOOLEAN
  /\ sent \in [Sides -> Seq(Payloads)]
  /\ foreign \in 0..MaxForeign

-----------------------------------------------------------------------------
(* The send queue *)

\* is_send_queue_running keeps the loops of start_send_queue apart: there is
\* never a second asynchronous write on the socket, whose frame would be mixed
\* into the first.
OneWrite == \A e \in Sides :
  /\ Len(ep[e].writes) <= 1
  /\ ep[e].writes # <<>> => ep[e].running
  /\ Completed(e, {"wrote", "writeFailed"}) => ep[e].writes # <<>>

HasEvent(e, kinds) == \E i \in DOMAIN ep[e].events : ep[e].events[i] \in kinds

\* No message is left in the queue with nobody to send it: the loop runs until
\* the queue is empty, unless it ended with an error the user was told of.
QueueMoves == \A e \in Sides :
  LET s == ep[e]
  IN s.started /\ ~s.stopped /\ ~s.running /\ s.queue # <<>> =>
       HasEvent(e, {"error", "close"})

\* Where the completed reads of a side are.
Reads(e) == {i \in DOMAIN done[e] : done[e][i].kind = "read"}

\* "keep is_send_queue_running == true to prevent more messages after sending
\* the close frame" (start_send_queue): the close frame is the last one, on the
\* network, among the reads that are due and of those the peer has handled.
CloseIsLast == \A e \in Sides :
  LET d == Peer(e)
  IN /\ ep[d].closeReceived => Reads(d) = {} /\ net[e] = <<>>
     /\ \A i \in Reads(d) : done[d][i].frame.op = "close" =>
          net[e] = <<>> /\ \A j \in Reads(d) : j <= i
     /\ \A i \in DOMAIN net[e] : net[e][i].op = "close" => i = Len(net[e])

-----------------------------------------------------------------------------
(* Messages *)

Streams == INSTANCE MessageStreams WITH
  got <- [e \in Sides |-> ep[e].got]

\* Each message arrives at most once, whole and in order.
RefinesStreams == Streams!Spec

-----------------------------------------------------------------------------
(* The close handshake *)

\* While the connection lasts a side is told of the close only when both close
\* frames have been sent, so neither user drops a connection that is in use.
CloseIsMutual == \A e \in Sides :
  HasEvent(e, {"close"}) /\ ~broken =>
    /\ ep[e].closeReceived
    /\ IsSendingClose(ep[e]) /\ ep[e].writes = <<>>

\* A ping read while a close frame waits to be sent does not replace it
\* (control_frame::to_pong), nor does anything else: closing is for good.
ClosingIsFinal ==
  [][\A e \in Sides : IsSendingClose(ep[e]) => IsSendingClose(ep'[e])]_vars

\* A user who was told of the close is told of no second one and is given no
\* message after it.  The test "Integrate server and client endpoint"
\* (test/nbdl/websocket/endpoint.cpp) expects each side to be told once.
NothingAfterClose == \A e \in Sides :
  \A i, j \in DOMAIN ep[e].events :
    ep[e].events[i] = "close" /\ ep[e].events[j] \in {"close", "message"}
      => j <= i

-----------------------------------------------------------------------------
(* Progress *)

Over(e) == ep[e].stopped \/ HasEvent(e, {"close", "error", "badRequest"})
Closing == \E e \in Sides : IsSendingClose(ep[e])

\* A message reaches the peer once both sides are started, unless the
\* connection is closed, breaks or is given up.
Delivered == \A e \in Sides : \A n \in 1..MaxSends :
  (Len(sent[e]) >= n /\ \A d \in Sides : ep[d].started)
    ~> (Len(ep[Peer(e)].got) >= n \/ Closing \/ \E d \in Sides : Over(d))

\* A close asked for before start_messaging is forgotten while the queue is
\* empty: start_messaging looks at the queue only.
ClosesIfAsked(e) == IsSendingClose(ep[e]) => ep[e].running

\* While the connection lasts, once a side closes both users are told of it.
CloseEnds == \A e \in Sides :
  (IsSendingClose(ep[e]) /\ \A d \in Sides : ep[d].started /\ ClosesIfAsked(d))
    ~> \A d \in Sides : HasEvent(d, {"close"})

\* The users of a connection that breaks are told so, whatever they were doing,
\* except when a side was answering the close of its peer: the error of that
\* write goes to a loop that is gone.
BreakNoticed == \A e \in Sides :
  (broken /\ ep[e].started) ~> (Over(e) \/ ep[e].closeReceived)
==============================================================================
