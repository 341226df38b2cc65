--------------------------- MODULE MessageStreams ---------------------------
(***************************************************************************)
(* What a pair of connected endpoints promises its users: each message one *)
(* side sends reaches the other side at most once, whole, and in the order *)
(* of sending.  Nothing says that it reaches it: the connection may end.   *)
(*                                                                         *)
(* WsEndpoint refines this module.                                         *)
(***************************************************************************)
EXTENDS Naturals, Sequences

CONSTANTS Sides, Peer(_)

VARIABLES
  sent,   \* side -> the messages its user has handed over
  got     \* side -> the messages its user has been given

vars == <<sent, got>>

Init ==
  /\ sent = [e \in Sides |-> <<>>]
  /\ got = [e \in Sides |-> <<>>]

Send(e) ==
  /\ Len(sent'[e]) = Len(sent[e]) + 1
  /\ sent' = [sent EXCEPT ![e] = Append(@, sent'[e][Len(@) + 1])]
  /\ UNCHANGED got

\* The next message in the order of sending is the only one that can be given.
Receive(e) ==
  /\ Len(got[e]) < Len(sent[Peer(e)])
  /\ got' = [got EXCEPT ![e] = Append(@, sent[Peer(e)][Len(@) + 1])]
  /\ UNCHANGED sent

Next == \E e \in Sides : Send(e) \/ Receive(e)

Spec == Init /\ [][Next]_vars
=============================================================================
