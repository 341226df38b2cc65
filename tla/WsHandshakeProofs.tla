------------------------- MODULE WsHandshakeProofs -------------------------
(***************************************************************************)
(* The close handshake of WsEndpoint, for all messages and any number of   *)
(* them, of every size, with failures, stops and foreign control frames:   *)
(* when only one of the two users calls send_close, a user who is told of  *)
(* the close over a connection that lasts is told after both close frames  *)
(* are through, is told once and is given no message after it.             *)
(*                                                                         *)
(* The hypothesis OneCloser is needed: when both users close at once, a    *)
(* side that reads the close of its peer before its own is written is told *)
(* twice (endpoint_impl.hpp, on_close_received and start_send_queue).      *)
(*                                                                         *)
(* The argument: a side whose user does not close is closing only because  *)
(* it has read the close of its peer.  So when the side that closed reads  *)
(* a close frame, the peer has read its own, which is therefore written,   *)
(* and the completion of that write was handled first.                     *)
(***************************************************************************)
EXTENDS WsEndpointProofs

\* One of the two users at most calls send_close.
OneCloser == \E e \in Sides : e \notin Closers

\* A close frame that has been read is handled after the writes completed.
CloseBehind(q) == \A i, j \in DOMAIN q :
  IsClose(q[i]) /\ q[j].kind \in WriteKinds => j < i

\* Both close frames are through.
Settled(s) == s.closeReceived /\ IsSendingClose(s) /\ s.running /\ s.writes = <<>>

\* What NothingAfterClose says of a side.
LastTold(events) == \A i, j \in DOMAIN events :
  events[i] = "close" /\ events[j] \in {"close", "message"} => j <= i

ToldWell(s) == /\ (\E i \in DOMAIN s.events : s.events[i] = "close") => Settled(s)
               /\ LastTold(s.events)

Answers(e, s) == /\ e \notin Closers /\ IsSendingClose(s) => s.closeReceived
                 /\ s.closeReceived => IsSendingClose(s)

\* The inductive invariant of the handshake, besides that of the queue.
HandshakeInv == \A e \in Sides :
  /\ Answers(e, ep[e])
  /\ Peer(e) \notin Closers => CloseBehind(done[e])
  /\ ~broken => ToldWell(ep[e])

-----------------------------------------------------------------------------
\* CloseBehind survives a handler that takes its completion.
LEMMA BehindPop ==
  ASSUME NEW q \in Seq(Completions), q # <<>>, CloseBehind(q)
  PROVE  CloseBehind(Tail(q))
<1>1. \A i \in DOMAIN Tail(q) : i + 1 \in DOMAIN q /\ Tail(q)[i] = q[i + 1] /\ i \in Nat
  OBVIOUS
<1> SUFFICES ASSUME NEW i \in DOMAIN Tail(q), NEW j \in DOMAIN Tail(q),
                    IsClose(Tail(q)[i]), Tail(q)[j].kind \in WriteKinds
             PROVE  j < i
  BY DEF CloseBehind
<1>2. j + 1 < i + 1
  BY <1>1 DEF CloseBehind
<1> QED
  BY <1>1, <1>2

\* It survives a new completion, unless a write completes after the close frame
\* was read.
LEMMA BehindPush ==
  ASSUME NEW q \in Seq(Completions), NEW c, CloseBehind(q),
         c.kind \in WriteKinds => ~DueClose(q)
  PROVE  CloseBehind(Append(q, c))
<1>1. /\ Len(q) \in Nat /\ DOMAIN q = 1..Len(q)
      /\ DOMAIN Append(q, c) = 1..(Len(q) + 1)
      /\ \A i \in DOMAIN q : Append(q, c)[i] = q[i]
      /\ Append(q, c)[Len(q) + 1] = c
  OBVIOUS
<1>2. IsClose(c) => c.kind \notin WriteKinds
  BY DEF IsClose, WriteKinds
<1>3. \A i \in DOMAIN q : IsClose(q[i]) => DueClose(q)
  BY DEF IsClose, DueClose
<1> SUFFICES ASSUME NEW i \in 1..(Len(q) + 1), NEW j \in 1..(Len(q) + 1),
                    IsClose(Append(q, c)[i]), Append(q, c)[j].kind \in WriteKinds
             PROVE  j < i
  BY <1>1 DEF CloseBehind
<1>4. CASE i \in DOMAIN q
  <2>1. j \in DOMAIN q
    BY <1>1, <1>3, <1>4
  <2> QED
    BY <1>1, <1>4, <2>1 DEF CloseBehind
<1>5. CASE i = Len(q) + 1
  BY <1>1, <1>2, <1>5
<1> QED
  BY <1>1, <1>4, <1>5

\* A side that was told well still is when it is told something else, and when
\* it is told of the close after both close frames.
LEMMA ToldMore ==
  ASSUME NEW s \in Endpoints, NEW t \in Endpoints, NEW event \in Events,
         t.events = Append(s.events, event), ToldWell(s),
         Settled(s) => Settled(t) /\ event \notin {"close", "message"},
         event = "close" => Settled(t)
  PROVE  ToldWell(t)
<1>1. s.events \in Seq(Events)
  BY DEF Endpoints
<1>2. /\ Len(s.events) \in Nat /\ DOMAIN s.events = 1..Len(s.events)
      /\ DOMAIN t.events = 1..(Len(s.events) + 1)
      /\ \A i \in DOMAIN s.events : t.events[i] = s.events[i]
      /\ t.events[Len(s.events) + 1] = event
  BY <1>1
<1>3. ASSUME NEW i \in DOMAIN t.events, t.events[i] = "close"
      PROVE  Settled(t)
  <2>1. CASE i \in DOMAIN s.events
    BY <1>2, <1>3, <2>1 DEF ToldWell
  <2>2. CASE i = Len(s.events) + 1
    BY <1>2, <1>3, <2>2
  <2> QED
    BY <1>2, <2>1, <2>2
<1>4. ASSUME NEW i \in DOMAIN t.events, NEW j \in DOMAIN t.events,
             t.events[i] = "close", t.events[j] \in {"close", "message"}
      PROVE  j <= i
  <2>1. CASE i \in DOMAIN s.events
    <3>1. event \notin {"close", "message"}
      BY <1>2, <1>4, <2>1 DEF ToldWell
    <3>2. j \in DOMAIN s.events
      BY <1>2, <1>4, <3>1
    <3> QED
      BY <1>2, <1>4, <2>1, <3>2 DEF ToldWell, LastTold
  <2>2. CASE i = Len(s.events) + 1
    BY <1>2, <2>2
  <2> QED
    BY <1>2, <2>1, <2>2
<1> QED
  BY <1>3, <1>4 DEF ToldWell, LastTold

\* Nothing new is told.
LEMMA ToldSame ==
  ASSUME NEW s, NEW t, t.events = s.events, ToldWell(s), Settled(s) => Settled(t)
  PROVE  ToldWell(t)
<1>1. \A i \in DOMAIN t.events : i \in DOMAIN s.events /\ t.events[i] = s.events[i]
  OBVIOUS
<1>2. LastTold(t.events)
  BY <1>1 DEF ToldWell, LastTold
<1> QED
  BY <1>1, <1>2 DEF ToldWell

\* The handler of a write that succeeded tells the user well, as long as one of
\* the close frames was not through.
LEMMA ToldByWrite ==
  ASSUME NEW s \in Endpoints, NEW t \in Endpoints, NEW c, ToldWell(s),
         WriteEffect(s, t, c), ~Settled(s), c.kind # "writeFailed"
  PROVE  ToldWell(t)
<1>1. CASE t.events = s.events
  BY <1>1, ToldSame
<1>2. CASE t.events # s.events
  <2>1. PICK event \in {"close", "error"} :
          /\ t.events = Append(s.events, event)
          /\ event = "close" =>
               s.closeReceived /\ IsSendingClose(t) /\ t.running /\ t.writes = <<>>
    BY <1>2 DEF WriteEffect
  <2>2. t.closeReceived = s.closeReceived
    BY DEF WriteEffect
  <2>3. event = "close" => Settled(t)
    BY <2>1, <2>2 DEF Settled
  <2>4. event \in Events
    BY DEF Events
  <2> QED
    BY <2>1, <2>3, <2>4, ToldMore
<1> QED
  BY <1>1, <1>2

\* The handler of a read tells the user well, when nothing is read after the
\* close frame of the peer and that is read after the own one was written.
LEMMA ToldByRead ==
  ASSUME NEW s \in Endpoints, NEW t \in Endpoints, NEW c, ToldWell(s),
         ReadEffect(s, t, c), c.kind = "read" => ~s.closeReceived,
         IsClose(c) /\ IsSendingClose(s) => s.running /\ s.writes = <<>>
  PROVE  ToldWell(t)
<1>1. Settled(s) => Settled(t) /\ c.kind # "read"
  BY DEF Settled, ReadEffect
<1>2. CASE t.events = s.events
  BY <1>1, <1>2, ToldSame
<1>3. CASE t.events # s.events
  <2>1. PICK event \in Events :
          /\ t.events = Append(s.events, event)
          /\ event = "close" => IsClose(c) /\ IsSendingClose(s)
          /\ event = "message" => c.kind = "read"
    BY <1>3 DEF ReadEffect
  <2>2. event = "close" => Settled(t)
    BY <2>1 DEF Settled, ReadEffect
  <2>3. Settled(s) => Settled(t) /\ event \notin {"close", "message"}
    BY <1>1, <2>1 DEF IsClose
  <2> QED
    BY <2>1, <2>2, <2>3, ToldMore
<1> QED
  BY <1>2, <1>3

\* A side that has read the close frame of a peer whose user does not close has
\* put its own on the network.
LEMMA AnswerOut ==
  ASSUME QueueInv, HandshakeInv, NEW e \in Sides, Peer(e) \notin Closers,
         ep[e].closeReceived \/ DueClose(done[e])
  PROVE  QueueOver(ep[e], done[e])
<1> DEFINE d == Peer(e)
<1>1. /\ d \in Sides /\ Peer(d) = e
      /\ CloseOut(ep[e].closeReceived, done[e], net[d]) => QueueOver(ep[d], done[d])
      /\ CloseOut(ep[d].closeReceived, done[d], net[e]) => QueueOver(ep[e], done[e])
  BY QueueInvOf
<1>2. IsSendingClose(ep[d])
  BY <1>1 DEF CloseOut, QueueOver
<1>3. ep[d].closeReceived
  BY <1>1, <1>2 DEF HandshakeInv, Answers
<1> QED
  BY <1>1, <1>3 DEF CloseOut

-----------------------------------------------------------------------------
(* The steps *)

\* What a step makes of the completions of a side.
LEMMA DoneStep ==
  ASSUME QueueInv, NEW e \in Sides, [Next]_vars
  PROVE  \/ done'[e] = done[e]
         \/ done[e] # <<>> /\ done'[e] = Tail(done[e])
         \/ \E c \in Completions :
              /\ done'[e] = Append(done[e], c)
              /\ c.kind \in WriteKinds => WriteInFlight(e)
<1>1. /\ TypeOK /\ done \in [Sides -> Seq(Completions)]
      /\ \A x \in Sides : SideInv(ep[x], done[x]) /\ Moves(ep[x])
  BY DEF QueueInv, TypeOK
<1>2. CASE UNCHANGED vars \/ Break
  BY <1>2 DEF vars, Break
<1>3. ASSUME NEW x \in Sides, WriteStep(x) \/ ReadStep(x)
      PROVE  \/ done'[e] = done[e]
             \/ done[e] # <<>> /\ done'[e] = Tail(done[e])
  <2>1. done[x] # <<>> /\ \E t \in Endpoints : HandledWell(x, t)
    BY <1>1, <1>3, WriteHandled, ReadHandled
  <2>2. done' = [done EXCEPT ![x] = Tail(@)]
    BY <2>1 DEF HandledWell, Handle
  <2> QED
    BY <1>1, <2>1, <2>2
<1>4. ASSUME NEW x \in Sides, UserStep(x) \/ ForeignFrame(x)
      PROVE  done'[e] = done[e]
  BY <1>4 DEF UserStep, SendMessage, Send, CallClose, StartMessaging, Stop, ForeignFrame
<1>5. ASSUME NEW x \in Sides, IoStep(x)
      PROVE  \/ done'[e] = done[e]
             \/ \E c \in Completions :
                  /\ done'[e] = Append(done[e], c)
                  /\ c.kind \in WriteKinds => WriteInFlight(e)
  <2>1. PICK c \in Completions : /\ Complete(x, c)
                                 /\ c.kind \in WriteKinds => WriteInFlight(x)
    <3>1. CASE Transmit(x) \/ FailWrite(x) \/ FailRead(x)
      BY <3>1 DEF Transmit, FailWrite, FailRead, Completions, WriteKinds
    <3>2. CASE Arrive(x)
      <4>1. net[Peer(x)] \in Seq(Frames) /\ net[Peer(x)] # <<>>
        BY <1>1, <3>2, HandlerTypes DEF Arrive
      <4>2. Head(net[Peer(x)]) \in Frames
        BY <4>1
      <4>3. [kind |-> "read", frame |-> Head(net[Peer(x)])] \in Completions
        BY <4>2 DEF Completions
      <4> QED
        BY <3>2, <4>3 DEF Arrive, WriteKinds
    <3> QED
      BY <1>5, <3>1, <3>2 DEF IoStep
  <2> QED
    BY <1>1, <2>1 DEF Complete
<1> QED
  BY <1>2, <1>3, <1>4, <1>5 DEF Next

\* No write of a side completes once the close frame of its peer has been read,
\* when that is an answer: its own close frame came first and was the last.
LEMMA BehindStep ==
  ASSUME QueueInv, HandshakeInv, NEW e \in Sides, Peer(e) \notin Closers,
         [Next]_vars
  PROVE  CloseBehind(done'[e])
<1>1. CloseBehind(done[e]) /\ done[e] \in Seq(Completions)
  BY HandlerTypes DEF HandshakeInv, QueueInv
<1>2. CASE \E c \in Completions : /\ done'[e] = Append(done[e], c)
                                  /\ c.kind \in WriteKinds => WriteInFlight(e)
  <2>1. PICK c \in Completions : /\ done'[e] = Append(done[e], c)
                                 /\ c.kind \in WriteKinds => WriteInFlight(e)
    BY <1>2
  <2>2. c.kind \in WriteKinds => ~DueClose(done[e])
    <3>1. ASSUME WriteInFlight(e), QueueOver(ep[e], done[e])
          PROVE  FALSE
      BY <3>1 DEF WriteInFlight, Completed, QueueOver, Has
    <3> QED
      BY <2>1, <3>1, AnswerOut
  <2> QED
    BY <1>1, <2>1, <2>2, BehindPush
<1> QED
  BY <1>1, <1>2, BehindPop, DoneStep

\* A side whose user does not close is closing only to answer, and a close frame
\* that was read is answered.
LEMMA AnswersStep ==
  ASSUME QueueInv, HandshakeInv, NEW e \in Sides, [Next]_vars
  PROVE  Answers(e, ep'[e])
<1>1. Answers(e, ep[e])
  BY DEF HandshakeInv
<1> QED
  BY <1>1, SideStep DEF Answers, UserEffect, WriteEffect, ReadEffect, IsSendingClose

\* When a side that is closing reads the close of its peer, its own close frame
\* is written and the completion of that write has been handled.
LEMMA CloseRead ==
  ASSUME QueueInv, HandshakeInv, OneCloser, NEW e \in Sides, ReadStep(e),
         IsClose(Head(done[e])), IsSendingClose(ep[e])
  PROVE  ep[e].running /\ ep[e].writes = <<>>
<1>1. /\ TypeOK /\ Peer(e) \in Sides /\ Peer(Peer(e)) = e /\ Peer(e) # e
      /\ CloseLast(ep[e].closeReceived, done[e], net[Peer(e)])
      /\ SideInv(ep[e], done[e]) /\ Moves(ep[e])
  BY QueueInvOf
<1>2. done[e] # <<>> /\ done[e] \in Seq(Completions)
  BY <1>1, ReadHandled, HandlerTypes
<1>3. 1 \in DOMAIN done[e] /\ done[e][1] = Head(done[e]) /\ DOMAIN done[e] \subseteq Nat
  BY <1>2
<1>4. ~ep[e].closeReceived
  BY <1>1, <1>3 DEF CloseLast, Has, IsClose
<1>5. Peer(e) \notin Closers
  <2>1. e \in Closers
    BY <1>4 DEF HandshakeInv, Answers
  <2>2. \A x \in Sides : x = e \/ x = Peer(e)
    BY DEF Sides, Peer
  <2> QED
    BY <2>1, <2>2 DEF OneCloser
<1>6. QueueOver(ep[e], done[e])
  BY <1>3, <1>5, AnswerOut DEF DueClose, IsClose
<1>7. CloseBehind(done[e])
  BY <1>5 DEF HandshakeInv
<1>8. ~Has(done[e], {"wrote"})
  <2> SUFFICES ASSUME NEW j \in DOMAIN done[e], done[e][j].kind = "wrote"
               PROVE  FALSE
    BY DEF Has
  <2>1. j < 1
    BY <1>3, <1>7 DEF CloseBehind, WriteKinds
  <2>2. DOMAIN done[e] = 1..Len(done[e]) /\ Len(done[e]) \in Nat
    BY <1>2
  <2> QED
    BY <2>1, <2>2
<1> QED
  BY <1>6, <1>8 DEF QueueOver

\* A lost connection stays lost.
LEMMA BreakLasts ==
  ASSUME [Next]_vars, ~broken'
  PROVE  ~broken
<1>1. ASSUME NEW e \in Sides, ReadStep(e) \/ WriteStep(e)
      PROVE  broken' = broken
  BY <1>1 DEF ReadStep, WriteStep, ReadData, ReadClose, ReadPing, ReadPong,
              ReadBadInput, ReadFailed, WroteFragment, WroteMessage, WroteClose,
              WriteFailed, CloseWriteFailed, Handle
<1>2. ASSUME NEW e \in Sides, UserStep(e) \/ IoStep(e) \/ ForeignFrame(e)
      PROVE  broken' = broken \/ broken'
  BY <1>2 DEF UserStep, SendMessage, Send, CallClose, StartMessaging, Stop,
              IoStep, Transmit, FailWrite, Arrive, FailRead, ForeignFrame
<1> QED
  BY <1>1, <1>2 DEF Next, vars, Break

\* Whatever the step, its user was told well.
LEMMA ToldStep ==
  ASSUME QueueInv, HandshakeInv, OneCloser, NEW e \in Sides, [Next]_vars, ~broken'
  PROVE  ToldWell(ep'[e])
<1> DEFINE s == ep[e]
           t == ep'[e]
<1>1. /\ TypeOK /\ Peer(e) \in Sides /\ Peer(Peer(e)) = e /\ Peer(e) # e
      /\ CloseLast(s.closeReceived, done[e], net[Peer(e)])
      /\ SideInv(s, done[e]) /\ Moves(s)
      /\ Has(done[e], {"writeFailed"}) => broken
  BY QueueInvOf
<1>2. ~broken /\ ToldWell(s)
  BY BreakLasts DEF HandshakeInv
<1>3. s \in Endpoints /\ t \in Endpoints /\ done[e] \in Seq(Completions)
  <2>1. QueueInv'
    BY QueueStep
  <2> QED
    BY <1>1, <2>1, HandlerTypes DEF QueueInv, TypeOK
<1>4. done[e] # <<>> => 1 \in DOMAIN done[e] /\ done[e][1] = Head(done[e])
  BY <1>3
<1> SUFFICES ToldWell(t)
  OBVIOUS
<1> HIDE DEF s, t
<1>5. CASE t = s
  BY <1>2, <1>5
<1>6. CASE UserEffect(e, s, t)
  <2>1. t.events = s.events /\ (Settled(s) => Settled(t))
    BY <1>6 DEF UserEffect, Settled
  <2> QED
    BY <1>2, <2>1, ToldSame
<1>7. CASE WriteStep(e) /\ WriteEffect(s, t, Head(done[e]))
  <2>1. done[e] # <<>> /\ Head(done[e]).kind \in WriteKinds /\ s.writes # <<>>
    BY <1>1, <1>7, WriteHandled, TheWrite DEF s
  <2>2. Head(done[e]).kind # "writeFailed" /\ ~Settled(s)
    BY <1>1, <1>2, <1>4, <2>1 DEF Has, Settled
  <2> QED
    BY <1>2, <1>3, <1>7, <2>2, ToldByWrite
<1>8. CASE ReadStep(e) /\ ReadEffect(s, t, Head(done[e]))
  <2>1. done[e] # <<>>
    BY <1>1, <1>8, ReadHandled DEF s
  <2>2. Head(done[e]).kind = "read" => ~s.closeReceived
    BY <1>1, <1>4, <2>1 DEF CloseLast, Has
  <2>3. IsClose(Head(done[e])) /\ IsSendingClose(s) => s.running /\ s.writes = <<>>
    BY <1>8, CloseRead DEF s
  <2> QED
    BY <1>2, <1>3, <1>8, <2>2, <2>3, ToldByRead
<1> QED
  BY <1>5, <1>6, <1>7, <1>8, SideStep DEF s, t

\* Every step preserves the invariant of the handshake.
LEMMA HandshakeStep ==
  ASSUME OneCloser
  PROVE  QueueInv /\ HandshakeInv /\ [Next]_vars => HandshakeInv'
<1> SUFFICES ASSUME QueueInv, HandshakeInv, [Next]_vars, NEW e \in Sides
             PROVE  /\ Answers(e, ep'[e])
                    /\ Peer(e) \notin Closers => CloseBehind(done'[e])
                    /\ ~broken' => ToldWell(ep'[e])
  BY DEF HandshakeInv
<1> QED
  BY AnswersStep, BehindStep, ToldStep

\* The connection starts in the invariant of the handshake.
LEMMA HandshakeInit == Init => HandshakeInv
<1> SUFFICES ASSUME Init, NEW e \in Sides
             PROVE  /\ Answers(e, ep[e]) /\ CloseBehind(done[e]) /\ ToldWell(ep[e])
  BY DEF HandshakeInv
<1>1. ep[e] = New /\ done[e] = <<>> /\ DOMAIN <<>> = {}
  BY DEF Init
<1> QED
  BY <1>1 DEF New, Answers, CloseBehind, ToldWell, LastTold, IsSendingClose

-----------------------------------------------------------------------------
(* The theorems *)

\* The invariant of the handshake holds when at most one user closes.
LEMMA HandshakeInvariant ==
  ASSUME OneCloser
  PROVE  Spec => []HandshakeInv
<1>1. QueueInv /\ HandshakeInv /\ [Next]_vars => HandshakeInv'
  BY HandshakeStep
<1> QED
  BY <1>1, HandshakeInit, QueueInvariant, PTL DEF Spec

\* When at most one user closes, a side is told of the close only after both
\* close frames, as long as the connection lasts.
THEOREM CloseIsAgreed ==
  ASSUME OneCloser
  PROVE  Spec => []CloseIsMutual
<1>1. HandshakeInv => CloseIsMutual
  BY DEF HandshakeInv, ToldWell, Settled, CloseIsMutual, HasEvent
<1> QED
  BY <1>1, HandshakeInvariant, PTL

\* When at most one user closes, nobody is told of the close twice or given a
\* message after it, as long as the connection lasts.
THEOREM CloseToldOnce ==
  ASSUME OneCloser
  PROVE  Spec => [](~broken => NothingAfterClose)
<1>1. HandshakeInv => (~broken => NothingAfterClose)
  BY DEF HandshakeInv, ToldWell, LastTold, NothingAfterClose
<1> QED
  BY <1>1, HandshakeInvariant, PTL

\* A connection that does not break by itself and that no user gives up lasts.
Lasting == ~broken /\ \A e \in Sides : ~ep[e].stopped

\* Without breaks and calls of stop, no write fails and the connection lasts.
LEMMA LastingInvariant ==
  ASSUME ~Breaks, Stoppers = {}
  PROVE  Spec => []Lasting
<1>1. Init => Lasting
  BY DEF Init, New, Lasting
<1>2. QueueInv /\ Lasting /\ [Next]_vars => Lasting'
  <2> SUFFICES ASSUME QueueInv, Lasting, [Next]_vars
               PROVE  Lasting'
    OBVIOUS
  <2>1. ASSUME NEW e \in Sides
        PROVE  ~ep'[e].stopped
    BY <2>1, SideStep DEF Lasting, UserEffect, WriteEffect, ReadEffect
  <2>2. ASSUME NEW e \in Sides, ReadStep(e) \/ WriteStep(e)
        PROVE  ~broken'
    BY <2>2 DEF Lasting, ReadStep, WriteStep, ReadData, ReadClose, ReadPing, ReadPong,
                ReadBadInput, ReadFailed, WroteFragment, WroteMessage, WroteClose,
                WriteFailed, CloseWriteFailed, Handle
  <2>3. ASSUME NEW e \in Sides, UserStep(e) \/ IoStep(e) \/ ForeignFrame(e)
        PROVE  ~broken'
    <3>1. ~ep[e].stopped /\ ~ep[Peer(e)].stopped
      BY <2>3 DEF Lasting, Sides, Peer
    <3> QED
      BY <2>3, <3>1 DEF Lasting, UserStep, SendMessage, Send, CallClose, StartMessaging,
                Stop, IoStep, Transmit, FailWrite, Arrive, FailRead, ForeignFrame
  <2>4. ~broken'
    BY <2>2, <2>3 DEF Lasting, Next, vars, Break
  <2> QED
    BY <2>1, <2>4 DEF Lasting
<1> QED
  BY <1>1, <1>2, QueueInvariant, PTL DEF Spec

\* Over such a connection a user who was told of the close is told of no second
\* one and is given no message after it, however many messages there are.
THEOREM NothingFollowsClose ==
  ASSUME OneCloser, ~Breaks, Stoppers = {}
  PROVE  Spec => []NothingAfterClose
<1>1. Spec => [](~broken => NothingAfterClose)
  BY CloseToldOnce
<1>2. Spec => []Lasting
  BY LastingInvariant
<1>3. Lasting => ~broken
  BY DEF Lasting
<1> QED
  BY <1>1, <1>2, <1>3, PTL
=============================================================================
