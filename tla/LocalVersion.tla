---------------------------- MODULE LocalVersion ----------------------------
(***************************************************************************)
(* nbdl::local_version: a store that shows the changes of its own user at  *)
(* once and the changes of everybody as the root producer confirms them.   *)
(*                                                                         *)
(* Source: nbdl/include/nbdl/local_version.hpp and delta.hpp.              *)
(*                                                                         *)
(* Each client has such a store.  A change goes from the client up to the  *)
(* root and comes down, confirmed, to all clients in the order of the root *)
(* (external: the connections, which keep the order of messages).  A delta *)
(* is a function from some of the fields of the entity; the optionals that *)
(* are nothing are outside its domain.  A message whose payload is not a   *)
(* delta (a create) is one with all fields.                                *)
(*                                                                         *)
(* Definitions marked "Broken" are mistakes the code could have made; they *)
(* are used nowhere and show which property would notice each of them.     *)
(***************************************************************************)
EXTENDS Integers, Sequences

CONSTANTS
  Clients,
  Fields, Values,  \* the entity: what bind_sequence visits, and what it holds
  Initial,         \* the entity everybody starts with
  Deltas,          \* the deltas users send
  Entities,        \* the entities users create
  MaxRequests      \* bound: changes made by all users together

Entity == [Fields -> Values]
Delta  == UNION {[D -> Values] : D \in SUBSET Fields}
NoDelta == [f \in {} |-> 0]

ASSUME LocalVersionAssumption ==
  /\ Initial \in Entity
  /\ Deltas \subseteq Delta
  /\ Entities \subseteq Entity
  /\ MaxRequests \in Nat

VARIABLES
  store,     \* client -> its local_version
  requests,  \* the changes made so far; the uid of a change is its index
  up,        \* client -> the uids on their way to the root (external)
  log,       \* what the root confirmed: uids and the entity after each
  pos,       \* client -> how much of the log has come down to it
  stale      \* client -> the fields of pending_delta that are older than the
             \* last entity that replaced the value (auxiliary)

vars == <<store, requests, up, log, pos, stale>>

-----------------------------------------------------------------------------
(* The store *)

\* apply_delta, to an entity or to another delta
Apply(delta, x) ==
  [f \in DOMAIN delta \cup DOMAIN x |->
     IF f \in DOMAIN delta THEN delta[f] ELSE x[f]]

ApplyLocalDelta(s, uid, delta) ==
  [value |-> Apply(delta, s.value),
   pending |-> Apply(delta, s.pending),
   local |-> s.local \cup {uid}]

\* Broken: a confirmed change of one's own is shown at once.
ConfirmedIsShown(s, uid, delta) ==
  [value |-> Apply(delta, s.value),
   pending |-> Apply(delta, s.pending),
   local |-> s.local \ {uid}]

\* Broken: changes of others are not remembered in pending_delta.
ForeignNotPending(s, uid, delta) ==
  IF uid \in s.local
  THEN LET pending == Apply(delta, s.pending)
           local == s.local \ {uid}
       IN IF local = {}
          THEN [value |-> Apply(pending, s.value), pending |-> NoDelta, local |-> {}]
          ELSE [s EXCEPT !.pending = pending, !.local = local]
  ELSE [s EXCEPT !.value = Apply(delta, @)]

\* Broken: the first confirmation settles all local changes.
FirstSettles(s, uid, delta) ==
  IF uid \in s.local
  THEN [value |-> Apply(Apply(delta, s.pending), s.value),
        pending |-> NoDelta, local |-> {}]
  ELSE [s EXCEPT !.value = Apply(delta, @), !.pending = Apply(delta, @)]

ApplyConfirmedDelta(s, uid, delta) ==
  IF uid \in s.local
  THEN LET pending == Apply(delta, s.pending)
           local == s.local \ {uid}
       IN IF local = {}
          THEN [value |-> Apply(pending, s.value), pending |-> NoDelta, local |-> {}]
          ELSE [s EXCEPT !.pending = pending, !.local = local]
  ELSE [s EXCEPT !.value = Apply(delta, @), !.pending = Apply(delta, @)]

\* apply_action: pending_delta and local_uids stay as they are.
Replace(s, entity) == [s EXCEPT !.value = entity]

-----------------------------------------------------------------------------
(* Clients, the root and the messages between them *)

\* The entity of the root after the first n changes.
RootEntity(n) == IF n = 0 THEN Initial ELSE log[n].entity

Record(c, whole, delta) ==
  /\ Len(requests) < MaxRequests
  /\ requests' = Append(requests, [client |-> c, whole |-> whole, delta |-> delta])
  /\ up' = [up EXCEPT ![c] = Append(@, Len(requests) + 1)]
  /\ UNCHANGED <<log, pos, stale>>

\* The user of c sends an update message.
Update(c) == \E delta \in Deltas :
  /\ Record(c, FALSE, delta)
  /\ store' = [store EXCEPT ![c] = ApplyLocalDelta(@, Len(requests) + 1, delta)]

\* The user of c sends a create message.
Create(c) == \E entity \in Entities :
  /\ Record(c, TRUE, entity)
  /\ store' = [store EXCEPT ![c] = Replace(@, entity)]

\* The root applies the next change of c and confirms it to everybody.
Confirm(c) ==
  /\ up[c] # <<>>
  /\ log' = Append(log, [uid |-> Head(up[c]),
                         entity |-> Apply(requests[Head(up[c])].delta,
                                          RootEntity(Len(log)))])
  /\ up' = [up EXCEPT ![c] = Tail(@)]
  /\ UNCHANGED <<store, requests, pos, stale>>

\* The next confirmed change comes down to c.
Receive(c) ==
  /\ pos[c] < Len(log)
  /\ LET uid == log[pos[c] + 1].uid
         m == requests[uid]
     IN /\ store' = [store EXCEPT ![c] = IF m.whole THEN Replace(@, m.delta)
                                         ELSE ApplyConfirmedDelta(@, uid, m.delta)]
        /\ stale' = [stale EXCEPT ![c] = IF m.whole THEN DOMAIN store[c].pending
                                         ELSE @ \ DOMAIN m.delta]
  /\ pos' = [pos EXCEPT ![c] = @ + 1]
  /\ UNCHANGED <<requests, up, log>>

-----------------------------------------------------------------------------
Init ==
  /\ store = [c \in Clients |-> [value |-> Initial, pending |-> NoDelta, local |-> {}]]
  /\ requests = <<>> /\ up = [c \in Clients |-> <<>>]
  /\ log = <<>> /\ pos = [c \in Clients |-> 0]
  /\ stale = [c \in Clients |-> {}]

Next == \E c \in Clients : Update(c) \/ Create(c) \/ Confirm(c) \/ Receive(c)

Spec == Init /\ [][Next]_vars

-----------------------------------------------------------------------------
(* Properties *)

Uids == 1..Len(requests)

\* Stores hold entities and deltas of the right type, uids name changes, and
\* the log has what has come down.
TypeOK ==
  /\ store \in [Clients -> [value : Entity, pending : Delta, local : SUBSET Uids]]
  /\ requests \in Seq([client : Clients, whole : BOOLEAN, delta : Delta])
  /\ \A u \in Uids : requests[u].whole => requests[u].delta \in Entity
  /\ up \in [Clients -> Seq(Uids)]
  /\ log \in Seq([uid : Uids, entity : Entity])
  /\ pos \in [Clients -> 0..Len(log)]
  /\ stale \in [Clients -> SUBSET Fields]

\* The changes of c whose confirmation has not come down to c.
Unconfirmed(c) == {u \in Uids :
  requests[u].client = c /\ \A i \in 1..pos[c] : log[i].uid # u}

\* local_uids holds exactly the deltas of the client that wait for their
\* confirmation: none is forgotten, none stays and keeps pending_delta from
\* being applied.
LocalIsUnconfirmed == \A c \in Clients :
  store[c].local = {u \in Unconfirmed(c) : ~requests[u].whole}

\* When a client has no change of its own under way it shows the entity of the
\* root as of the last message, whatever the order in which its own changes and
\* those of others were made, confirmed and received.  Fields left over in
\* pending_delta from before a create are the exception: apply_action does not
\* clear them and they come back with the next confirmation.
Converged == \A c \in Clients :
  Unconfirmed(c) = {} =>
    \A f \in Fields \ stale[c] : store[c].value[f] = RootEntity(pos[c])[f]

\* The same without the exception: "not reverted in any intermediate state when
\* confirmed" (test/nbdl/core/local_version.cpp) for the changes of everybody.
\* A create received while pending_delta is not empty breaks it.
ShowsConfirmed == \A c \in Clients :
  Unconfirmed(c) = {} => store[c].value = RootEntity(pos[c])

\* How a store s stands to the entity seen so far: a field of pending_delta is
\* as seen or waits for a local change, a field outside of it is shown as seen,
\* and so is every field once nothing is local.  replacing: a create of the
\* client is under way.
Tracks(s, seen, old, replacing, changes) ==
  /\ \A f \in (DOMAIN s.pending) \ old :
       \/ s.pending[f] = seen[f]
       \/ \E u \in s.local : f \in DOMAIN changes[u].delta
  /\ ~replacing => \A f \in Fields \ old :
       f \notin DOMAIN s.pending \/ s.local = {} => s.value[f] = seen[f]

Replacing(c) == \E u \in Unconfirmed(c) : requests[u].whole

\* The inductive invariant behind Converged.
IInv ==
  /\ TypeOK
  /\ LocalIsUnconfirmed
  /\ \A i \in 1..Len(log) :
       log[i].entity = Apply(requests[log[i].uid].delta, RootEntity(i - 1))
  /\ \A c \in Clients :
       Tracks(store[c], RootEntity(pos[c]), stale[c], Replacing(c), requests)

\* Only c changes f, and by deltas only.
Owns(c, f) == \A u \in Uids :
  f \in DOMAIN requests[u].delta => requests[u].client = c /\ ~requests[u].whole

\* What the user of c last made of f.
LastOf(c, f) ==
  LET mine == {u \in Uids : f \in DOMAIN requests[u].delta}
  IN IF mine = {} THEN Initial[f]
     ELSE requests[CHOOSE u \in mine : \A v \in mine : v <= u].delta[f]

\* "Changes are applied immediately and not reverted in any intermediate state
\* when confirmed" (test/nbdl/core/local_version.cpp), for a field that only
\* this client changes, among changes of others to other fields.
NotReverted == \A c \in Clients, f \in Fields :
  Owns(c, f) => store[c].value[f] = LastOf(c, f)
=============================================================================
