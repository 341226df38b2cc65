------------------------- MODULE LocalVersionProofs -------------------------
(***************************************************************************)
(* For every set of clients, every entity and every set of changes: a      *)
(* client with no change of its own under way shows what the root has      *)
(* confirmed to it, and a field that only one client changes shows what    *)
(* its user last made of it.                                               *)
(***************************************************************************)
EXTENDS LocalVersion, TLAPS

-----------------------------------------------------------------------------
(* Deltas *)

\* apply_delta to an entity gives an entity: the fields of the delta are the
\* new ones, the others stay.
LEMMA ApplyToEntity ==
  ASSUME NEW d \in Delta, NEW x \in Entity
  PROVE  /\ Apply(d, x) \in Entity
         /\ \A f \in Fields :
              Apply(d, x)[f] = IF f \in DOMAIN d THEN d[f] ELSE x[f]
<1>1. PICK D \in SUBSET Fields : d \in [D -> Values]
  BY DEF Delta
<1>2. DOMAIN d = D /\ \A f \in D : d[f] \in Values
  BY <1>1
<1>3. DOMAIN x = Fields /\ \A f \in Fields : x[f] \in Values
  BY DEF Entity
<1>4. DOMAIN d \cup DOMAIN x = Fields
  BY <1>2, <1>3
<1>5. Apply(d, x) = [f \in Fields |-> IF f \in DOMAIN d THEN d[f] ELSE x[f]]
  BY <1>4 DEF Apply
<1> QED
  BY <1>2, <1>3, <1>5 DEF Entity

\* apply_delta to a delta gives a delta with the fields of both.
LEMMA ApplyToDelta ==
  ASSUME NEW d \in Delta, NEW p \in Delta
  PROVE  /\ Apply(d, p) \in Delta
         /\ DOMAIN Apply(d, p) = DOMAIN d \cup DOMAIN p
         /\ \A f \in DOMAIN d \cup DOMAIN p :
              Apply(d, p)[f] = IF f \in DOMAIN d THEN d[f] ELSE p[f]
<1>1. PICK D \in SUBSET Fields : d \in [D -> Values]
  BY DEF Delta
<1>2. PICK P \in SUBSET Fields : p \in [P -> Values]
  BY DEF Delta
<1>3. DOMAIN d = D /\ DOMAIN p = P
  BY <1>1, <1>2
<1>4. Apply(d, p) = [f \in D \cup P |-> IF f \in D THEN d[f] ELSE p[f]]
  BY <1>3 DEF Apply
<1>5. \A f \in D \cup P : (IF f \in D THEN d[f] ELSE p[f]) \in Values
  BY <1>1, <1>2
<1>6. Apply(d, p) \in [D \cup P -> Values]
  BY <1>4, <1>5
<1>7. D \cup P \in SUBSET Fields
  OBVIOUS
<1>8. Apply(d, p) \in Delta
  BY <1>6, <1>7 DEF Delta
<1> QED
  BY <1>3, <1>4, <1>8

\* The domain of a delta holds fields, and an entity is a delta of all fields.
LEMMA DeltaFields ==
  /\ \A d \in Delta : DOMAIN d \subseteq Fields
  /\ Entity \subseteq Delta
  /\ NoDelta \in Delta /\ DOMAIN NoDelta = {}
<1>1. \A d \in Delta : DOMAIN d \subseteq Fields
  BY DEF Delta
<1>2. Entity \subseteq Delta
  BY DEF Entity, Delta
<1>3. NoDelta \in [{} -> Values] /\ DOMAIN NoDelta = {}
  BY DEF NoDelta
<1>4. {} \in SUBSET Fields
  OBVIOUS
<1>5. NoDelta \in Delta
  BY <1>3, <1>4 DEF Delta
<1> QED
  BY <1>1, <1>2, <1>3, <1>5

\* An entity applied as a delta replaces everything.
LEMMA ApplyEntity ==
  ASSUME NEW d \in Entity, NEW x \in Entity
  PROVE  Apply(d, x) = d
<1>1. DOMAIN d = Fields /\ DOMAIN x = Fields
  BY DEF Entity
<1>2. Apply(d, x) = [f \in Fields |-> d[f]]
  BY <1>1 DEF Apply
<1>3. d = [f \in Fields |-> d[f]]
  BY DEF Entity
<1> QED
  BY <1>2, <1>3

\* A sequence over a set is one over a larger set.
LEMMA SeqMonotone ==
  ASSUME NEW S, NEW T, S \subseteq T, NEW q \in Seq(S)
  PROVE  q \in Seq(T)
<1>1. Len(q) \in Nat /\ q \in [1..Len(q) -> T]
  OBVIOUS
<1> QED
  BY <1>1

\* The elements of a sequence over a set are in the set.
LEMMA SeqElements ==
  ASSUME NEW S, NEW q \in Seq(S)
  PROVE  Len(q) \in Nat /\ \A i \in 1..Len(q) : q[i] \in S
OBVIOUS

-----------------------------------------------------------------------------
(* The operations of the store *)

Stores == [value : Entity, pending : Delta, local : SUBSET Nat]

\* A local change is tracked: its fields wait for its confirmation.
LEMMA LocalTracks ==
  ASSUME NEW s \in Stores, NEW u \in Nat, NEW d \in Delta, NEW seen \in Entity,
         NEW old \in SUBSET Fields, NEW replacing, NEW changes,
         changes[u].delta = d,
         Tracks(s, seen, old, replacing, changes)
  PROVE  /\ Tracks(ApplyLocalDelta(s, u, d), seen, old, replacing, changes)
         /\ ApplyLocalDelta(s, u, d) \in Stores
         /\ ApplyLocalDelta(s, u, d).local = s.local \cup {u}
<1> DEFINE t == ApplyLocalDelta(s, u, d)
<1>1. s.value \in Entity /\ s.pending \in Delta /\ s.local \in SUBSET Nat
  BY DEF Stores
<1>2. /\ t.value = Apply(d, s.value) /\ t.pending = Apply(d, s.pending)
      /\ t.local = s.local \cup {u}
      /\ t = [value |-> Apply(d, s.value), pending |-> Apply(d, s.pending),
              local |-> s.local \cup {u}]
  BY DEF ApplyLocalDelta
<1> HIDE DEF t
<1>3. /\ t.value \in Entity
      /\ \A f \in Fields : t.value[f] = IF f \in DOMAIN d THEN d[f] ELSE s.value[f]
  BY <1>1, <1>2, ApplyToEntity
<1>4. /\ t.pending \in Delta
      /\ DOMAIN t.pending = DOMAIN d \cup DOMAIN s.pending
      /\ \A f \in DOMAIN d \cup DOMAIN s.pending :
           t.pending[f] = IF f \in DOMAIN d THEN d[f] ELSE s.pending[f]
  BY <1>1, <1>2, ApplyToDelta
<1>5. t \in Stores
  BY <1>1, <1>2, <1>3, <1>4 DEF Stores
<1>6. \A f \in (DOMAIN t.pending) \ old :
        \/ t.pending[f] = seen[f]
        \/ \E v \in t.local : f \in DOMAIN changes[v].delta
  <2> SUFFICES ASSUME NEW f \in (DOMAIN t.pending) \ old
               PROVE  \/ t.pending[f] = seen[f]
                      \/ \E v \in t.local : f \in DOMAIN changes[v].delta
    OBVIOUS
  <2>1. CASE f \in DOMAIN d
    BY <2>1, <1>2
  <2>2. CASE f \notin DOMAIN d
    <3>1. f \in (DOMAIN s.pending) \ old /\ t.pending[f] = s.pending[f]
      BY <2>2, <1>4
    <3>2. s.pending[f] = seen[f] \/ \E v \in s.local : f \in DOMAIN changes[v].delta
      BY <3>1 DEF Tracks
    <3> QED
      BY <3>1, <3>2, <1>2
  <2> QED
    BY <2>1, <2>2
<1>7. ~replacing => \A f \in Fields \ old :
        f \notin DOMAIN t.pending \/ t.local = {} => t.value[f] = seen[f]
  BY <1>2, <1>3, <1>4 DEF Tracks
<1>8. Tracks(t, seen, old, replacing, changes)
  BY <1>6, <1>7 DEF Tracks
<1> QED
  BY <1>2, <1>5, <1>8 DEF t

\* A confirmed delta is tracked, whoever made it.
LEMMA ConfirmedTracks ==
  ASSUME NEW s \in Stores, NEW u \in Nat, NEW d \in Delta, NEW seen \in Entity,
         NEW old \in SUBSET Fields, NEW replacing, NEW changes,
         changes[u].delta = d,
         Tracks(s, seen, old, replacing, changes)
  PROVE  /\ Tracks(ApplyConfirmedDelta(s, u, d), Apply(d, seen), old \ DOMAIN d,
                   replacing, changes)
         /\ ApplyConfirmedDelta(s, u, d) \in Stores
         /\ ApplyConfirmedDelta(s, u, d).local = s.local \ {u}
<1> DEFINE t == ApplyConfirmedDelta(s, u, d)
           now == Apply(d, seen)
           rest == old \ DOMAIN d
           p == Apply(d, s.pending)
<1>1. /\ s.value \in Entity /\ s.pending \in Delta /\ s.local \in SUBSET Nat
  BY DEF Stores
<1>0. s = [value |-> s.value, pending |-> s.pending, local |-> s.local]
  BY DEF Stores
<1>2. \A f \in Fields : now[f] = IF f \in DOMAIN d THEN d[f] ELSE seen[f]
  BY ApplyToEntity
<1>3. /\ p \in Delta
      /\ DOMAIN p = DOMAIN d \cup DOMAIN s.pending
      /\ \A f \in DOMAIN d \cup DOMAIN s.pending :
           p[f] = IF f \in DOMAIN d THEN d[f] ELSE s.pending[f]
  BY <1>1, ApplyToDelta
<1>4. DOMAIN p \subseteq Fields
  BY <1>3, DeltaFields
<1>5. \A f \in (DOMAIN p) \ rest :
        p[f] = now[f] \/ \E v \in s.local \ {u} : f \in DOMAIN changes[v].delta
  <2> SUFFICES ASSUME NEW f \in (DOMAIN p) \ rest
               PROVE  \/ p[f] = now[f]
                      \/ \E v \in s.local \ {u} : f \in DOMAIN changes[v].delta
    OBVIOUS
  <2>0. f \in Fields
    BY <1>4
  <2>1. CASE f \in DOMAIN d
    BY <2>0, <2>1, <1>2, <1>3
  <2>2. CASE f \notin DOMAIN d
    <3>1. /\ f \in (DOMAIN s.pending) \ old
          /\ p[f] = s.pending[f] /\ now[f] = seen[f]
      BY <2>0, <2>2, <1>2, <1>3
    <3>2. s.pending[f] = seen[f] \/ \E v \in s.local : f \in DOMAIN changes[v].delta
      BY <3>1 DEF Tracks
    <3>3. \A v \in s.local : f \in DOMAIN changes[v].delta => v # u
      BY <2>2
    <3> QED
      BY <3>1, <3>2, <3>3
  <2> QED
    BY <2>1, <2>2
<1> HIDE DEF now, rest, p
<1>6. CASE u \in s.local /\ s.local \ {u} = {}
  <2>1. /\ t = [value |-> Apply(p, s.value), pending |-> NoDelta, local |-> {}]
        /\ t.value = Apply(p, s.value) /\ t.pending = NoDelta /\ t.local = {}
    BY <1>6 DEF ApplyConfirmedDelta, p
  <2> HIDE DEF t
  <2>2. /\ t.value \in Entity
        /\ \A f \in Fields : t.value[f] = IF f \in DOMAIN p THEN p[f] ELSE s.value[f]
    BY <2>1, <1>1, <1>3, ApplyToEntity
  <2>3. t \in Stores
    BY <2>1, <2>2, DeltaFields DEF Stores
  <2>4. ~replacing => \A f \in Fields \ rest : t.value[f] = now[f]
    <3> SUFFICES ASSUME ~replacing, NEW f \in Fields \ rest
                 PROVE  t.value[f] = now[f]
      OBVIOUS
    <3>1. CASE f \in DOMAIN p
      BY <3>1, <2>2, <1>5, <1>6
    <3>2. CASE f \notin DOMAIN p
      <4>1. f \notin DOMAIN d /\ f \notin DOMAIN s.pending /\ f \notin old
        BY <3>2, <1>3 DEF rest
      <4>2. s.value[f] = seen[f]
        BY <4>1 DEF Tracks
      <4> QED
        BY <3>2, <4>1, <4>2, <2>2, <1>2
    <3> QED
      BY <3>1, <3>2
  <2>5. Tracks(t, now, rest, replacing, changes)
    BY <2>1, <2>4, DeltaFields DEF Tracks
  <2>6. t.local = s.local \ {u}
    BY <2>1, <1>6
  <2> QED
    BY <2>3, <2>5, <2>6 DEF t, now, rest
<1>7. CASE u \in s.local /\ s.local \ {u} # {}
  <2>1. /\ t = [value |-> s.value, pending |-> p, local |-> s.local \ {u}]
        /\ t.value = s.value /\ t.pending = p /\ t.local = s.local \ {u}
    BY <1>7, <1>0 DEF ApplyConfirmedDelta, p
  <2> HIDE DEF t
  <2>2. t \in Stores
    BY <2>1, <1>1, <1>3 DEF Stores
  <2>3. ~replacing => \A f \in Fields \ rest :
          f \notin DOMAIN p => s.value[f] = now[f]
    BY <1>2, <1>3 DEF Tracks, rest
  <2>4. Tracks(t, now, rest, replacing, changes)
    BY <2>1, <2>3, <1>5, <1>7 DEF Tracks
  <2> QED
    BY <2>1, <2>2, <2>4 DEF t, now, rest
<1>8. CASE u \notin s.local
  <2>1. /\ t = [value |-> Apply(d, s.value), pending |-> p, local |-> s.local]
        /\ t.value = Apply(d, s.value) /\ t.pending = p /\ t.local = s.local
    BY <1>8, <1>0 DEF ApplyConfirmedDelta, p
  <2> HIDE DEF t
  <2>2. /\ t.value \in Entity
        /\ \A f \in Fields : t.value[f] = IF f \in DOMAIN d THEN d[f] ELSE s.value[f]
    BY <2>1, <1>1, ApplyToEntity
  <2>3. t \in Stores
    BY <2>1, <2>2, <1>1, <1>3 DEF Stores
  <2>4. ~replacing => \A f \in Fields \ rest :
          f \notin DOMAIN p \/ s.local = {} => t.value[f] = now[f]
    BY <2>2, <1>2, <1>3 DEF Tracks, rest
  <2>5. s.local \ {u} = s.local
    BY <1>8
  <2>6. Tracks(t, now, rest, replacing, changes)
    BY <2>1, <2>4, <2>5, <1>5 DEF Tracks
  <2> QED
    BY <2>1, <2>3, <2>5, <2>6 DEF t, now, rest
<1> QED
  BY <1>6, <1>7, <1>8

\* A confirmed entity is tracked with everything pending left over.
LEMMA ReplacedTracks ==
  ASSUME NEW s \in Stores, NEW d \in Entity, NEW replacing, NEW changes
  PROVE  /\ Tracks(Replace(s, d), d, DOMAIN s.pending, replacing, changes)
         /\ Replace(s, d) \in Stores
         /\ Replace(s, d).local = s.local
<1>1. /\ Replace(s, d) = [value |-> d, pending |-> s.pending, local |-> s.local]
      /\ s.pending \in Delta /\ s.local \in SUBSET Nat
  BY DEF Replace, Stores
<1> QED
  BY <1>1 DEF Tracks, Stores

\* Tracking does not depend on changes that are not local.
LEMMA TracksAmongMore ==
  ASSUME NEW s, NEW seen, NEW old, NEW replacing, NEW more, NEW changes, NEW after,
         Tracks(s, seen, old, replacing, changes),
         replacing => more,
         \A u \in s.local : after[u].delta = changes[u].delta
  PROVE  Tracks(s, seen, old, more, after)
  BY DEF Tracks

-----------------------------------------------------------------------------
(* The steps of the system *)

\* What the log and the positions in it hold.
LEMMA LogTyped ==
  ASSUME TypeOK
  PROVE  /\ Len(log) \in Nat
         /\ \A i \in 1..Len(log) : log[i].uid \in Uids /\ log[i].entity \in Entity
         /\ \A c \in Clients : pos[c] \in Nat /\ pos[c] <= Len(log)
         /\ \A n \in 0..Len(log) : RootEntity(n) \in Entity
<1>1. log \in Seq([uid : Uids, entity : Entity])
  BY DEF TypeOK
<1>2. /\ Len(log) \in Nat
      /\ \A i \in 1..Len(log) : log[i] \in [uid : Uids, entity : Entity]
  BY <1>1, SeqElements
<1>3. \A i \in 1..Len(log) : log[i].uid \in Uids /\ log[i].entity \in Entity
  BY <1>2
<1>4. \A c \in Clients : pos[c] \in Nat /\ pos[c] <= Len(log)
  BY <1>2 DEF TypeOK
<1>5. ASSUME NEW n \in 0..Len(log) PROVE RootEntity(n) \in Entity
  BY <1>2, <1>3, LocalVersionAssumption DEF RootEntity
<1> QED
  BY <1>2, <1>3, <1>4, <1>5

\* The log is only appended to, so what has come down stays what it was.
LEMMA RootKeeps ==
  ASSUME TypeOK, NEW n \in 0..Len(log),
         \A i \in 1..Len(log) : log'[i] = log[i]
  PROVE  RootEntity(n)' = RootEntity(n)
<1>1. n = 0 \/ n \in 1..Len(log)
  BY LogTyped
<1> QED
  BY <1>1 DEF RootEntity

\* The initial state satisfies the invariant.
LEMMA InitInv == Init => IInv
<1> SUFFICES ASSUME Init PROVE IInv
  OBVIOUS
<1> USE DEF Init
<1>1. TypeOK
  <2>1. [value |-> Initial, pending |-> NoDelta, local |-> {}]
          \in [value : Entity, pending : Delta, local : SUBSET Uids]
    BY DeltaFields, LocalVersionAssumption
  <2> QED
    BY <2>1 DEF TypeOK, Uids
<1>2. \A c \in Clients : Unconfirmed(c) = {}
  <2>1. Uids = {}
    BY DEF Uids
  <2> QED
    BY <2>1 DEF Unconfirmed
<1>3. LocalIsUnconfirmed
  BY <1>2 DEF LocalIsUnconfirmed
<1>4. \A i \in 1..Len(log) :
        log[i].entity = Apply(requests[log[i].uid].delta, RootEntity(i - 1))
  OBVIOUS
<1>5. \A c \in Clients :
        Tracks(store[c], RootEntity(pos[c]), stale[c], Replacing(c), requests)
  <2> SUFFICES ASSUME NEW c \in Clients
               PROVE  Tracks(store[c], RootEntity(pos[c]), stale[c], Replacing(c),
                             requests)
    OBVIOUS
  <2>1. store[c].value = Initial /\ store[c].pending = NoDelta
    OBVIOUS
  <2>2. RootEntity(pos[c]) = Initial
    BY DEF RootEntity
  <2> QED
    BY <2>1, <2>2, DeltaFields DEF Tracks
<1> QED
  BY <1>1, <1>3, <1>4, <1>5 DEF IInv

\* What sending a change does to the list of changes, and to what each client
\* waits for.
LEMMA RecordStep ==
  ASSUME TypeOK, NEW c \in Clients, NEW whole \in BOOLEAN, NEW delta \in Delta,
         whole => delta \in Entity, Record(c, whole, delta)
  PROVE  /\ Len(requests) \in Nat /\ Len(requests') = Len(requests) + 1
         /\ Uids' = Uids \cup {Len(requests) + 1}
         /\ \A u \in Uids : requests'[u] = requests[u]
         /\ requests'[Len(requests) + 1] =
              [client |-> c, whole |-> whole, delta |-> delta]
         /\ requests' \in Seq([client : Clients, whole : BOOLEAN, delta : Delta])
         /\ \A u \in Uids' : requests'[u].whole => requests'[u].delta \in Entity
         /\ up' \in [Clients -> Seq(Uids')]
         /\ log' = log /\ pos' = pos /\ stale' = stale
         /\ log' \in Seq([uid : Uids', entity : Entity])
         /\ Unconfirmed(c)' = Unconfirmed(c) \cup {Len(requests) + 1}
         /\ \A b \in Clients : b # c => Unconfirmed(b)' = Unconfirmed(b)
<1> DEFINE n == Len(requests) + 1
           m == [client |-> c, whole |-> whole, delta |-> delta]
<1>1. /\ requests \in Seq([client : Clients, whole : BOOLEAN, delta : Delta])
      /\ requests' = Append(requests, m)
      /\ m \in [client : Clients, whole : BOOLEAN, delta : Delta]
  BY DEF TypeOK, Record
<1>2. /\ Len(requests) \in Nat /\ Len(requests') = n
      /\ \A u \in Uids : requests'[u] = requests[u]
      /\ requests'[n] = m
      /\ requests' \in Seq([client : Clients, whole : BOOLEAN, delta : Delta])
  BY <1>1 DEF Uids
<1>3. Uids' = Uids \cup {n} /\ n \notin Uids /\ n \in Nat
  BY <1>2 DEF Uids
<1>4. m.client = c /\ m.whole = whole /\ m.delta = delta
  OBVIOUS
<1> HIDE DEF n, m
<1>5. \A u \in Uids' : requests'[u].whole => requests'[u].delta \in Entity
  BY <1>2, <1>3, <1>4 DEF TypeOK
<1>6. log' = log /\ pos' = pos /\ stale' = stale
  BY DEF Record
<1>7. log \in Seq([uid : Uids, entity : Entity])
  BY DEF TypeOK
<1>8. [uid : Uids, entity : Entity] \subseteq [uid : Uids', entity : Entity]
  BY <1>3
<1>9. log' \in Seq([uid : Uids', entity : Entity])
  BY <1>6, <1>7, <1>8, SeqMonotone
<1>10. up' \in [Clients -> Seq(Uids')]
  <2>1. up \in [Clients -> Seq(Uids)] /\ up' = [up EXCEPT ![c] = Append(@, n)]
    BY DEF TypeOK, Record, n
  <2>2. \A b \in Clients : up[b] \in Seq(Uids')
    BY <2>1, <1>3, SeqMonotone
  <2>3. Append(up[c], n) \in Seq(Uids')
    BY <2>2, <1>3
  <2> QED
    BY <2>1, <2>2, <2>3
<1>11. \A b \in Clients : \A i \in 1..pos[b] : log[i].uid \in Uids
  BY LogTyped
<1>12. \A b \in Clients : Unconfirmed(b)' =
         {u \in Uids \cup {n} :
            requests'[u].client = b /\ \A i \in 1..pos[b] : log[i].uid # u}
  BY <1>3, <1>6 DEF Unconfirmed
<1>13. \A b \in Clients : \A i \in 1..pos[b] : log[i].uid # n
  BY <1>3, <1>11
<1>14. Unconfirmed(c)' = Unconfirmed(c) \cup {n}
  BY <1>2, <1>4, <1>12, <1>13 DEF Unconfirmed
<1>15. \A b \in Clients : b # c => Unconfirmed(b)' = Unconfirmed(b)
  BY <1>2, <1>4, <1>12 DEF Unconfirmed
<1>16. Len(requests) + 1 = n
  BY DEF n
<1> QED
  BY <1>2, <1>3, <1>5, <1>6, <1>9, <1>10, <1>14, <1>15, <1>16 DEF m

\* What an update or a create does, except to the store of its client.
LEMMA RecordKeeps ==
  ASSUME IInv, NEW c \in Clients, NEW whole \in BOOLEAN, NEW delta \in Delta,
         whole => delta \in Entity, Record(c, whole, delta),
         NEW s \in [value : Entity, pending : Delta, local : SUBSET Uids'],
         store' = [store EXCEPT ![c] = s],
         s.local = {u \in Unconfirmed(c)' : ~requests'[u].whole},
         Tracks(s, RootEntity(pos[c]), stale[c], Replacing(c)', requests')
  PROVE  IInv'
<1>0. TypeOK /\ LocalIsUnconfirmed
  BY DEF IInv
<1>1. /\ Len(requests) \in Nat
      /\ Uids' = Uids \cup {Len(requests) + 1}
      /\ \A u \in Uids : requests'[u] = requests[u]
      /\ log' = log /\ pos' = pos /\ stale' = stale
      /\ \A b \in Clients : b # c => Unconfirmed(b)' = Unconfirmed(b)
  BY <1>0, RecordStep
<1>2. \A b \in Clients : b # c => store'[b] = store[b]
  BY <1>0 DEF TypeOK
<1>3. store'[c] = s
  BY <1>0 DEF TypeOK
<1>4. TypeOK'
  <2>1. store \in [Clients -> [value : Entity, pending : Delta, local : SUBSET Uids']]
    BY <1>0, <1>1 DEF TypeOK
  <2>2. store' \in [Clients -> [value : Entity, pending : Delta, local : SUBSET Uids']]
    BY <2>1
  <2>3. pos' \in [Clients -> 0..Len(log')] /\ stale' \in [Clients -> SUBSET Fields]
    BY <1>0, <1>1 DEF TypeOK
  <2>4. /\ requests' \in Seq([client : Clients, whole : BOOLEAN, delta : Delta])
        /\ \A u \in Uids' : requests'[u].whole => requests'[u].delta \in Entity
        /\ up' \in [Clients -> Seq(Uids')]
        /\ log' \in Seq([uid : Uids', entity : Entity])
    BY <1>0, RecordStep
  <2> QED
    BY <2>2, <2>3, <2>4 DEF TypeOK
<1>5. \A b \in Clients : Unconfirmed(b) \subseteq Uids
  BY DEF Unconfirmed
<1>6. \A b \in Clients : store'[b].local = {u \in Unconfirmed(b)' : ~requests'[u].whole}
  <2> SUFFICES ASSUME NEW b \in Clients
               PROVE  store'[b].local = {u \in Unconfirmed(b)' : ~requests'[u].whole}
    OBVIOUS
  <2>1. CASE b = c
    BY <2>1, <1>3
  <2>2. CASE b # c
    BY <2>2, <1>0, <1>1, <1>2, <1>5 DEF LocalIsUnconfirmed
  <2> QED
    BY <2>1, <2>2
<1>7. \A n \in 0..Len(log) : RootEntity(n)' = RootEntity(n)
  BY <1>0, <1>1, RootKeeps
<1>8. \A i \in 1..Len(log') :
        log'[i].entity = Apply(requests'[log'[i].uid].delta, RootEntity(i - 1)')
  <2> SUFFICES ASSUME NEW i \in 1..Len(log)
               PROVE  log[i].entity = Apply(requests'[log[i].uid].delta, RootEntity(i - 1)')
    BY <1>1
  <2>1. log[i].uid \in Uids
    BY <1>0, LogTyped
  <2>2. log[i].entity = Apply(requests[log[i].uid].delta, RootEntity(i - 1))
    BY DEF IInv
  <2>3. i - 1 \in 0..Len(log)
    BY <1>0, LogTyped
  <2> QED
    BY <2>1, <2>2, <2>3, <1>1, <1>7
<1>9. \A b \in Clients : RootEntity(pos[b])' = RootEntity(pos[b])
  <2> SUFFICES ASSUME NEW b \in Clients
               PROVE  RootEntity(pos[b])' = RootEntity(pos[b])
    OBVIOUS
  <2>1. pos[b]' = pos[b] /\ pos[b] \in 0..Len(log)
    BY <1>0, <1>1, LogTyped
  <2> QED
    BY <2>1, <1>1 DEF RootEntity
<1>10. \A b \in Clients :
         Tracks(store'[b], RootEntity(pos[b]), stale[b], Replacing(b)', requests')
  <2> SUFFICES ASSUME NEW b \in Clients, b # c
               PROVE  Tracks(store'[b], RootEntity(pos[b]), stale[b], Replacing(b)',
                             requests')
    BY <1>3
  <2>1. Tracks(store[b], RootEntity(pos[b]), stale[b], Replacing(b), requests)
    BY DEF IInv
  <2>2. Replacing(b) => Replacing(b)'
    BY <1>1, <1>5 DEF Replacing
  <2>3. \A u \in store[b].local : requests'[u].delta = requests[u].delta
    BY <1>0, <1>1, <1>5 DEF LocalIsUnconfirmed
  <2> QED
    BY <2>1, <2>2, <2>3, <1>2, TracksAmongMore
<1>11. LocalIsUnconfirmed'
  BY <1>6 DEF LocalIsUnconfirmed
<1>12. (\A b \in Clients :
          Tracks(store[b], RootEntity(pos[b]), stale[b], Replacing(b), requests))'
  BY <1>1, <1>9, <1>10
<1>13. (\A i \in 1..Len(log) :
          log[i].entity = Apply(requests[log[i].uid].delta, RootEntity(i - 1)))'
  BY <1>8
<1> QED
  BY <1>4, <1>11, <1>12, <1>13 DEF IInv

\* The store of a client is one, and it waits only for changes that were made.
LEMMA StoreTyped ==
  ASSUME IInv, NEW c \in Clients
  PROVE  /\ store[c] \in [value : Entity, pending : Delta, local : SUBSET Uids]
         /\ store[c] \in Stores
         /\ RootEntity(pos[c]) \in Entity /\ stale[c] \in SUBSET Fields
         /\ store[c].local = {u \in Unconfirmed(c) : ~requests[u].whole}
         /\ Unconfirmed(c) \subseteq Uids
         /\ Tracks(store[c], RootEntity(pos[c]), stale[c], Replacing(c), requests)
<1>1. TypeOK /\ LocalIsUnconfirmed
  BY DEF IInv
<1>2. store[c] \in [value : Entity, pending : Delta, local : SUBSET Uids]
  BY <1>1 DEF TypeOK
<1>3. Uids \subseteq Nat
  BY DEF Uids
<1>4. store[c] \in Stores
  BY <1>2, <1>3 DEF Stores
<1>5. RootEntity(pos[c]) \in Entity /\ stale[c] \in SUBSET Fields
  BY <1>1, LogTyped DEF TypeOK
<1>6. Unconfirmed(c) \subseteq Uids
  BY DEF Unconfirmed
<1> QED
  BY <1>1, <1>2, <1>4, <1>5, <1>6 DEF LocalIsUnconfirmed, IInv

\* An update preserves the invariant.
LEMMA UpdateStep ==
  ASSUME IInv, NEW c \in Clients, Update(c)
  PROVE  IInv'
<1> DEFINE n == Len(requests) + 1
<1>1. PICK delta \in Deltas :
        /\ Record(c, FALSE, delta)
        /\ store' = [store EXCEPT ![c] = ApplyLocalDelta(store[c], n, delta)]
  BY DEF Update
<1> DEFINE s == ApplyLocalDelta(store[c], n, delta)
<1>2. TypeOK /\ delta \in Delta
  BY LocalVersionAssumption DEF IInv
<1>3. /\ n \in Nat /\ Uids' = Uids \cup {n}
      /\ \A u \in Uids : requests'[u] = requests[u]
      /\ requests'[n] = [client |-> c, whole |-> FALSE, delta |-> delta]
      /\ Unconfirmed(c)' = Unconfirmed(c) \cup {n}
  <2>1. FALSE \in BOOLEAN /\ (FALSE => delta \in Entity)
    OBVIOUS
  <2>2. /\ Len(requests) \in Nat /\ Uids' = Uids \cup {n}
        /\ \A u \in Uids : requests'[u] = requests[u]
        /\ requests'[n] = [client |-> c, whole |-> FALSE, delta |-> delta]
        /\ Unconfirmed(c)' = Unconfirmed(c) \cup {n}
    BY <1>1, <1>2, <2>1, RecordStep
  <2> QED
    BY <2>2
<1>4. requests'[n].delta = delta /\ requests'[n].whole = FALSE
  BY <1>3
<1> HIDE DEF n
<1>5. Replacing(c) => Replacing(c)'
  BY <1>3, StoreTyped DEF Replacing
<1>6. \A u \in store[c].local : requests'[u].delta = requests[u].delta
  BY <1>3, StoreTyped
<1>7. Tracks(store[c], RootEntity(pos[c]), stale[c], Replacing(c)', requests')
  BY <1>5, <1>6, StoreTyped, TracksAmongMore
<1>8. /\ Tracks(s, RootEntity(pos[c]), stale[c], Replacing(c)', requests')
      /\ s \in Stores
      /\ s.local = store[c].local \cup {n}
  BY <1>2, <1>3, <1>4, <1>7, StoreTyped, LocalTracks
<1> HIDE DEF s
<1>9. s \in [value : Entity, pending : Delta, local : SUBSET Uids']
  BY <1>3, <1>8, StoreTyped DEF Stores
<1>10. s.local = {u \in Unconfirmed(c)' : ~requests'[u].whole}
  BY <1>3, <1>4, <1>8, StoreTyped
<1>11. store' = [store EXCEPT ![c] = s]
  BY <1>1 DEF s
<1> QED
  BY <1>1, <1>2, <1>8, <1>9, <1>10, <1>11, RecordKeeps

\* A create preserves the invariant.
LEMMA CreateStep ==
  ASSUME IInv, NEW c \in Clients, Create(c)
  PROVE  IInv'
<1> DEFINE n == Len(requests) + 1
<1>1. PICK entity \in Entities :
        /\ Record(c, TRUE, entity)
        /\ store' = [store EXCEPT ![c] = Replace(store[c], entity)]
  BY DEF Create
<1> DEFINE s == Replace(store[c], entity)
<1>2. TypeOK /\ entity \in Entity /\ entity \in Delta
  BY LocalVersionAssumption, DeltaFields DEF IInv
<1>3. /\ Uids' = Uids \cup {n}
      /\ \A u \in Uids : requests'[u] = requests[u]
      /\ requests'[n] = [client |-> c, whole |-> TRUE, delta |-> entity]
      /\ Unconfirmed(c)' = Unconfirmed(c) \cup {n}
  BY <1>1, <1>2, RecordStep
<1>4. requests'[n].whole = TRUE
  BY <1>3
<1> HIDE DEF n
<1>5. Replacing(c)'
  BY <1>3, <1>4 DEF Replacing
<1>6. \A u \in store[c].local : requests'[u].delta = requests[u].delta
  BY <1>3, StoreTyped
<1>7. s = [value |-> entity, pending |-> store[c].pending, local |-> store[c].local]
  BY StoreTyped DEF Replace
<1>8. s.value = entity /\ s.pending = store[c].pending /\ s.local = store[c].local
  BY <1>7
<1>9. s \in [value : Entity, pending : Delta, local : SUBSET Uids']
  BY <1>2, <1>3, <1>7, StoreTyped
<1> HIDE DEF s
<1>10. Tracks(s, RootEntity(pos[c]), stale[c], Replacing(c)', requests')
  BY <1>5, <1>6, <1>8, StoreTyped DEF Tracks
<1>11. s.local = {u \in Unconfirmed(c)' : ~requests'[u].whole}
  BY <1>3, <1>4, <1>8, StoreTyped
<1>12. store' = [store EXCEPT ![c] = s]
  BY <1>1 DEF s
<1> QED
  BY <1>1, <1>2, <1>9, <1>10, <1>11, <1>12, RecordKeeps

\* A confirmation by the root preserves the invariant: what has come down to
\* the clients is not touched.
LEMMA ConfirmStep ==
  ASSUME IInv, NEW c \in Clients, Confirm(c)
  PROVE  IInv'
<1> DEFINE u == Head(up[c])
           e == Apply(requests[u].delta, RootEntity(Len(log)))
           m == [uid |-> u, entity |-> e]
           n == Len(log)
<1>1. TypeOK
  BY DEF IInv
<1>2. /\ up[c] # <<>> /\ log' = Append(log, m)
      /\ up' = [up EXCEPT ![c] = Tail(@)]
      /\ store' = store /\ requests' = requests /\ pos' = pos /\ stale' = stale
  BY DEF Confirm
<1>3. up \in [Clients -> Seq(Uids)] /\ u \in Uids /\ Tail(up[c]) \in Seq(Uids)
  <2>1. up \in [Clients -> Seq(Uids)]
    BY <1>1 DEF TypeOK
  <2>2. up[c] \in Seq(Uids)
    BY <2>1
  <2> QED
    BY <1>2, <2>1, <2>2
<1>4. n \in Nat /\ \A b \in Clients : pos[b] \in Nat /\ pos[b] <= n
  BY <1>1, LogTyped
<1>5. requests[u].delta \in Delta
  <2>1. requests \in Seq([client : Clients, whole : BOOLEAN, delta : Delta])
    BY <1>1 DEF TypeOK
  <2>2. requests[u] \in [client : Clients, whole : BOOLEAN, delta : Delta]
    BY <1>3, <2>1, SeqElements DEF Uids
  <2> QED
    BY <2>2
<1>6. e \in Entity
  <2>1. RootEntity(Len(log)) \in Entity
    BY <1>1, <1>4, LogTyped
  <2> QED
    BY <1>5, <2>1, ApplyToEntity
<1>7. m \in [uid : Uids, entity : Entity] /\ m.uid = u /\ m.entity = e
  BY <1>3, <1>6
<1>8. e = Apply(requests[u].delta, RootEntity(n))
  OBVIOUS
<1> HIDE DEF u, e, m
<1>9. /\ log' \in Seq([uid : Uids, entity : Entity])
      /\ Len(log') = n + 1 /\ log'[n + 1] = m
      /\ \A i \in 1..n : log'[i] = log[i]
  <2>1. log \in Seq([uid : Uids, entity : Entity])
    BY <1>1 DEF TypeOK
  <2> QED
    BY <2>1, <1>2, <1>7
<1> HIDE DEF n
<1>10. Uids' = Uids
  BY <1>2 DEF Uids
<1>11. \A b \in Clients : Unconfirmed(b)' = Unconfirmed(b)
  <2> SUFFICES ASSUME NEW b \in Clients
               PROVE  Unconfirmed(b)' = Unconfirmed(b)
    OBVIOUS
  <2>1. \A i \in 1..pos[b] : log'[i] = log[i]
    BY <1>4, <1>9
  <2> QED
    BY <2>1, <1>2, <1>10 DEF Unconfirmed
<1>12. \A k \in 0..n : RootEntity(k)' = RootEntity(k)
  BY <1>1, <1>9, RootKeeps DEF n
<1>13. TypeOK'
  <2>1. store' \in [Clients -> [value : Entity, pending : Delta, local : SUBSET Uids']]
    BY <1>1, <1>2, <1>10 DEF TypeOK
  <2>2. /\ requests' \in Seq([client : Clients, whole : BOOLEAN, delta : Delta])
        /\ \A v \in Uids' : requests'[v].whole => requests'[v].delta \in Entity
    BY <1>1, <1>2, <1>10 DEF TypeOK
  <2>3. up' \in [Clients -> Seq(Uids')]
    BY <1>2, <1>3, <1>10
  <2>4. log' \in Seq([uid : Uids', entity : Entity])
    BY <1>9, <1>10
  <2>5. pos' \in [Clients -> 0..Len(log')]
    <3>1. pos \in [Clients -> 0..n]
      BY <1>1 DEF TypeOK, n
    <3> QED
      BY <3>1, <1>2, <1>4, <1>9
  <2>6. stale' \in [Clients -> SUBSET Fields]
    BY <1>1, <1>2 DEF TypeOK
  <2> QED
    BY <2>1, <2>2, <2>3, <2>4, <2>5, <2>6 DEF TypeOK
<1>14. LocalIsUnconfirmed'
  BY <1>2, <1>11 DEF IInv, LocalIsUnconfirmed
<1>15. (\A i \in 1..Len(log) :
          log[i].entity = Apply(requests[log[i].uid].delta, RootEntity(i - 1)))'
  <2> SUFFICES ASSUME NEW i \in 1..(n + 1)
               PROVE  log'[i].entity =
                        Apply(requests[log'[i].uid].delta, RootEntity(i - 1)')
    BY <1>2, <1>9
  <2>1. i - 1 \in 0..n
    BY <1>4
  <2>2. CASE i = n + 1
    <3>1. i - 1 = n
      BY <2>2, <1>4
    <3>2. RootEntity(i - 1)' = RootEntity(n)
      BY <2>1, <3>1, <1>12
    <3> QED
      BY <2>2, <3>2, <1>7, <1>8, <1>9
  <2>3. CASE i # n + 1
    <3>1. i \in 1..n
      BY <2>3, <1>4
    <3>2. log[i].entity = Apply(requests[log[i].uid].delta, RootEntity(i - 1))
      BY <3>1 DEF IInv, n
    <3> QED
      BY <2>1, <3>1, <3>2, <1>9, <1>12
  <2> QED
    BY <2>2, <2>3
<1>16. \A b \in Clients : RootEntity(pos[b])' = RootEntity(pos[b])
  <2> SUFFICES ASSUME NEW b \in Clients
               PROVE  RootEntity(pos[b])' = RootEntity(pos[b])
    OBVIOUS
  <2>1. pos[b]' = pos[b] /\ (pos[b] = 0 \/ pos[b] \in 1..n)
    BY <1>2, <1>4
  <2> QED
    BY <2>1, <1>9 DEF RootEntity
<1>17. \A b \in Clients : Replacing(b)' = Replacing(b)
  BY <1>2, <1>11 DEF Replacing
<1>18. (\A b \in Clients :
          Tracks(store[b], RootEntity(pos[b]), stale[b], Replacing(b), requests))'
  <2>1. \A b \in Clients :
          Tracks(store[b], RootEntity(pos[b]), stale[b], Replacing(b), requests)
    BY DEF IInv
  <2> QED
    BY <2>1, <1>2, <1>16, <1>17
<1> QED
  BY <1>13, <1>14, <1>15, <1>18 DEF IInv

\* What coming down of a change does to what each client waits for.
LEMMA ReceiveAwaits ==
  ASSUME IInv, NEW c \in Clients, Receive(c)
  PROVE  /\ pos[c] + 1 \in 1..Len(log)
         /\ pos' = [pos EXCEPT ![c] = pos[c] + 1]
         /\ Unconfirmed(c)' = Unconfirmed(c) \ {log[pos[c] + 1].uid}
         /\ \A b \in Clients : b # c => Unconfirmed(b)' = Unconfirmed(b)
<1>1. TypeOK
  BY DEF IInv
<1>2. /\ pos[c] < Len(log) /\ pos' = [pos EXCEPT ![c] = pos[c] + 1]
      /\ requests' = requests /\ log' = log
  BY DEF Receive
<1>3. Len(log) \in Nat /\ pos[c] \in Nat /\ pos \in [Clients -> 0..Len(log)]
  BY <1>1, LogTyped DEF TypeOK
<1>4. Uids' = Uids
  BY <1>2 DEF Uids
<1>5. pos'[c] = pos[c] + 1 /\ \A b \in Clients : b # c => pos'[b] = pos[b]
  BY <1>2, <1>3
<1>6. 1..(pos[c] + 1) = (1..pos[c]) \cup {pos[c] + 1}
  BY <1>3
<1>7. Unconfirmed(c)' = Unconfirmed(c) \ {log[pos[c] + 1].uid}
  BY <1>2, <1>4, <1>5, <1>6 DEF Unconfirmed
<1>8. \A b \in Clients : b # c => Unconfirmed(b)' = Unconfirmed(b)
  BY <1>2, <1>4, <1>5 DEF Unconfirmed
<1> QED
  BY <1>2, <1>3, <1>7, <1>8

\* The coming down of a change preserves the invariant.
LEMMA ReceiveStep ==
  ASSUME IInv, NEW c \in Clients, Receive(c)
  PROVE  IInv'
<1> DEFINE k == pos[c] + 1
           u == log[k].uid
           d == requests[u].delta
           whole == requests[u].whole
           s == IF whole THEN Replace(store[c], d)
                ELSE ApplyConfirmedDelta(store[c], u, d)
           old == IF whole THEN DOMAIN store[c].pending ELSE stale[c] \ DOMAIN d
           seen == RootEntity(pos[c])
           now == RootEntity(k)
<1>1. TypeOK /\ LocalIsUnconfirmed
  BY DEF IInv
<1>2. /\ store' = [store EXCEPT ![c] = s]
      /\ stale' = [stale EXCEPT ![c] = old]
      /\ pos' = [pos EXCEPT ![c] = k]
      /\ requests' = requests /\ up' = up /\ log' = log
  BY DEF Receive
<1>3. /\ k \in 1..Len(log) /\ k \in Nat /\ k \in 0..Len(log) /\ k - 1 = pos[c] /\ k # 0
      /\ pos \in [Clients -> 0..Len(log)]
  <2>1. k \in 1..Len(log)
    BY ReceiveAwaits
  <2>2. Len(log) \in Nat /\ pos[c] \in Nat
    BY <1>1, LogTyped
  <2>3. pos \in [Clients -> 0..Len(log)]
    BY <1>1 DEF TypeOK
  <2> QED
    BY <2>1, <2>2, <2>3
<1>4. /\ Unconfirmed(c)' = Unconfirmed(c) \ {u}
      /\ \A b \in Clients : b # c => Unconfirmed(b)' = Unconfirmed(b)
  BY ReceiveAwaits
<1>5. u \in Uids /\ u \in Nat
  BY <1>1, <1>3, LogTyped DEF Uids
<1>6. whole \in BOOLEAN /\ d \in Delta /\ (whole => d \in Entity)
  <2>1. requests \in Seq([client : Clients, whole : BOOLEAN, delta : Delta])
    BY <1>1 DEF TypeOK
  <2>2. requests[u] \in [client : Clients, whole : BOOLEAN, delta : Delta]
    BY <1>5, <2>1, SeqElements DEF Uids
  <2> QED
    BY <2>2, <1>1, <1>5 DEF TypeOK
<1>7. seen \in Entity /\ now = Apply(d, seen)
  <2>1. log[k].entity = Apply(d, RootEntity(k - 1))
    BY <1>3 DEF IInv
  <2>2. now = log[k].entity
    BY <1>3 DEF RootEntity
  <2> QED
    BY <2>1, <2>2, <1>3, StoreTyped
<1>8. /\ store[c] \in Stores /\ stale[c] \in SUBSET Fields
      /\ store[c].local \subseteq Uids
      /\ store[c].local = {v \in Unconfirmed(c) : ~requests[v].whole}
      /\ Tracks(store[c], seen, stale[c], Replacing(c), requests)
  BY StoreTyped
<1>9. Uids' = Uids
  BY <1>2 DEF Uids
<1>10. d = requests[u].delta /\ whole = requests[u].whole
  OBVIOUS
<1> HIDE DEF u, d, whole, seen, now, k
<1>11. /\ s \in Stores /\ old \in SUBSET Fields
       /\ s.local = {v \in Unconfirmed(c)' : ~requests[v].whole}
       /\ Tracks(s, now, old, Replacing(c)', requests)
  <2>1. CASE whole
    <3>1. s = Replace(store[c], d) /\ old = DOMAIN store[c].pending
      BY <2>1
    <3>2. now = d
      BY <2>1, <1>6, <1>7, ApplyEntity
    <3>3. /\ Tracks(Replace(store[c], d), d, DOMAIN store[c].pending, Replacing(c)',
                    requests)
          /\ Replace(store[c], d) \in Stores
          /\ Replace(store[c], d).local = store[c].local
      BY <2>1, <1>6, <1>8, ReplacedTracks
    <3>4. store[c].local = {v \in Unconfirmed(c)' : ~requests[v].whole}
      BY <2>1, <1>4, <1>8, <1>10
    <3>5. old \in SUBSET Fields
      BY <3>1, <1>8, DeltaFields DEF Stores
    <3> QED
      BY <3>1, <3>2, <3>3, <3>4, <3>5
  <2>2. CASE ~whole
    <3>1. s = ApplyConfirmedDelta(store[c], u, d) /\ old = stale[c] \ DOMAIN d
      BY <2>2
    <3>2. /\ Tracks(ApplyConfirmedDelta(store[c], u, d), Apply(d, seen),
                    stale[c] \ DOMAIN d, Replacing(c), requests)
          /\ ApplyConfirmedDelta(store[c], u, d) \in Stores
          /\ ApplyConfirmedDelta(store[c], u, d).local = store[c].local \ {u}
      BY <1>5, <1>6, <1>7, <1>8, <1>10, ConfirmedTracks
    <3> HIDE DEF s, old
    <3>3. Tracks(s, now, old, Replacing(c), requests)
      BY <3>1, <3>2, <1>7
    <3>4. Replacing(c) => Replacing(c)'
      BY <2>2, <1>2, <1>4, <1>10 DEF Replacing
    <3>5. Tracks(s, now, old, Replacing(c)', requests)
      BY <3>3, <3>4, TracksAmongMore
    <3>6. s.local = {v \in Unconfirmed(c)' : ~requests[v].whole}
      BY <3>1, <3>2, <1>4, <1>8
    <3> QED
      BY <3>1, <3>2, <3>5, <3>6, <1>8
  <2> QED
    BY <2>1, <2>2, <1>6
<1> HIDE DEF s, old
<1>12. s \in [value : Entity, pending : Delta, local : SUBSET Uids]
  <2>1. s.local \subseteq Uids
    BY <1>4, <1>11 DEF Unconfirmed
  <2> QED
    BY <2>1, <1>11 DEF Stores
<1>13. TypeOK'
  <2>1. store' \in [Clients -> [value : Entity, pending : Delta, local : SUBSET Uids']]
    BY <1>1, <1>2, <1>9, <1>12 DEF TypeOK
  <2>2. /\ requests' \in Seq([client : Clients, whole : BOOLEAN, delta : Delta])
        /\ \A v \in Uids' : requests'[v].whole => requests'[v].delta \in Entity
        /\ up' \in [Clients -> Seq(Uids')]
        /\ log' \in Seq([uid : Uids', entity : Entity])
    BY <1>1, <1>2, <1>9 DEF TypeOK
  <2>3. pos' \in [Clients -> 0..Len(log')]
    BY <1>2, <1>3
  <2>4. stale' \in [Clients -> SUBSET Fields]
    BY <1>1, <1>2, <1>11 DEF TypeOK
  <2> QED
    BY <2>1, <2>2, <2>3, <2>4 DEF TypeOK
<1>14. /\ store'[c] = s /\ stale'[c] = old /\ pos'[c] = k
       /\ \A b \in Clients : b # c =>
            store'[b] = store[b] /\ stale'[b] = stale[b] /\ pos'[b] = pos[b]
  BY <1>1, <1>2 DEF TypeOK
<1>15. LocalIsUnconfirmed'
  <2> SUFFICES ASSUME NEW b \in Clients
               PROVE  store'[b].local = {v \in Unconfirmed(b)' : ~requests'[v].whole}
    BY DEF LocalIsUnconfirmed
  <2>1. CASE b = c
    BY <2>1, <1>2, <1>11, <1>14
  <2>2. CASE b # c
    BY <2>2, <1>2, <1>4, <1>14, StoreTyped
  <2> QED
    BY <2>1, <2>2
<1>16. (\A i \in 1..Len(log) :
          log[i].entity = Apply(requests[log[i].uid].delta, RootEntity(i - 1)))'
  <2> SUFFICES ASSUME NEW i \in 1..Len(log)
               PROVE  log[i].entity =
                        Apply(requests[log[i].uid].delta, RootEntity(i - 1)')
    BY <1>2
  <2>1. RootEntity(i - 1)' = RootEntity(i - 1)
    BY <1>2 DEF RootEntity
  <2> QED
    BY <2>1 DEF IInv
<1>17. (\A b \in Clients :
          Tracks(store[b], RootEntity(pos[b]), stale[b], Replacing(b), requests))'
  <2> SUFFICES ASSUME NEW b \in Clients
               PROVE  Tracks(store'[b], RootEntity(pos[b])', stale'[b], Replacing(b)',
                             requests')
    OBVIOUS
  <2>1. CASE b = c
    <3>1. RootEntity(pos[b])' = RootEntity(k)
      BY <2>1, <1>2, <1>14 DEF RootEntity
    <3> QED
      BY <2>1, <3>1, <1>2, <1>11, <1>14 DEF now
  <2>2. CASE b # c
    <3>1. RootEntity(pos[b])' = RootEntity(pos[b])
      BY <2>2, <1>2, <1>14 DEF RootEntity
    <3>2. Replacing(b)' = Replacing(b)
      BY <2>2, <1>2, <1>4 DEF Replacing
    <3> QED
      BY <2>2, <3>1, <3>2, <1>2, <1>14, StoreTyped
  <2> QED
    BY <2>1, <2>2
<1> QED
  BY <1>13, <1>15, <1>16, <1>17 DEF IInv

-----------------------------------------------------------------------------
(* The theorems *)

\* Every step of every client preserves the invariant.
LEMMA NextInv == IInv /\ [Next]_vars => IInv'
<1> SUFFICES ASSUME IInv, [Next]_vars
             PROVE  IInv'
  OBVIOUS
<1>1. ASSUME NEW c \in Clients, Update(c)
      PROVE  IInv'
  BY <1>1, UpdateStep
<1>2. ASSUME NEW c \in Clients, Create(c)
      PROVE  IInv'
  BY <1>2, CreateStep
<1>3. ASSUME NEW c \in Clients, Confirm(c)
      PROVE  IInv'
  BY <1>3, ConfirmStep
<1>4. ASSUME NEW c \in Clients, Receive(c)
      PROVE  IInv'
  BY <1>4, ReceiveStep
<1>5. CASE UNCHANGED vars
  <2> USE <1>5 DEF vars
  <2>1. Uids' = Uids
    BY DEF Uids
  <2>2. TypeOK'
    BY <2>1 DEF IInv, TypeOK
  <2>3. \A n : RootEntity(n)' = RootEntity(n)
    BY DEF RootEntity
  <2>4. \A b \in Clients : Unconfirmed(b)' = Unconfirmed(b)
    BY <2>1 DEF Unconfirmed
  <2>5. LocalIsUnconfirmed'
    BY <2>4 DEF IInv, LocalIsUnconfirmed
  <2>6. (\A i \in 1..Len(log) :
           log[i].entity = Apply(requests[log[i].uid].delta, RootEntity(i - 1)))'
    BY <2>3 DEF IInv
  <2>7. \A b \in Clients : Replacing(b)' = Replacing(b)
    BY <2>4 DEF Replacing
  <2>8. \A b \in Clients : RootEntity(pos[b])' = RootEntity(pos[b])
    BY DEF RootEntity
  <2>9. (\A b \in Clients :
           Tracks(store[b], RootEntity(pos[b]), stale[b], Replacing(b), requests))'
    BY <2>7, <2>8 DEF IInv
  <2> QED
    BY <2>2, <2>5, <2>6, <2>9 DEF IInv
<1> QED
  BY <1>1, <1>2, <1>3, <1>4, <1>5 DEF Next

\* The inductive invariant holds in every reachable state.
THEOREM Invariant == Spec => []IInv
  BY InitInv, NextInv, PTL DEF Spec

\* Stores hold entities and deltas, uids name changes.
THEOREM TypeCorrect == Spec => []TypeOK
<1>1. IInv => TypeOK
  BY DEF IInv
<1> QED
  BY <1>1, Invariant, PTL

\* local_uids is exactly the set of deltas whose confirmation is to come.
THEOREM LocalUnconfirmed == Spec => []LocalIsUnconfirmed
<1>1. IInv => LocalIsUnconfirmed
  BY DEF IInv
<1> QED
  BY <1>1, Invariant, PTL

\* A client whose changes are all confirmed to it shows what the root last
\* confirmed to it, in every field that no create left pending.
THEOREM Convergence == Spec => []Converged
<1>1. IInv => Converged
  <2> SUFFICES ASSUME IInv, NEW c \in Clients, Unconfirmed(c) = {},
                      NEW f \in Fields \ stale[c]
               PROVE  store[c].value[f] = RootEntity(pos[c])[f]
    BY DEF Converged
  <2>1. store[c].local = {}
    BY StoreTyped
  <2>2. ~Replacing(c)
    BY DEF Replacing
  <2>3. Tracks(store[c], RootEntity(pos[c]), stale[c], Replacing(c), requests)
    BY StoreTyped
  <2> QED
    BY <2>1, <2>2, <2>3 DEF Tracks
<1> QED
  BY <1>1, Invariant, PTL

-----------------------------------------------------------------------------
(* A field that only one client changes shows what its user last made of   *)
(* it, whatever is confirmed in between.                                   *)
(*                                                                         *)
(* While an older change of the field is confirmed and a newer one waits,  *)
(* pending_delta holds the older value.  It is not shown, as it is applied *)
(* with the last confirmation only; and then the newer value has been put  *)
(* over it, as the changes of a client are confirmed in their order.       *)

\* The changes made to f, and the last of them.
ChangesOf(f) == {u \in Uids : f \in DOMAIN requests[u].delta}
IsLast(u, f) == u \in ChangesOf(f) /\ \A v \in ChangesOf(f) : v <= u

HasLast == \A f \in Fields : ChangesOf(f) = {} \/ \E u \in Uids : IsLast(u, f)

\* The changes of a client are confirmed in the order they were made in.
InOrder ==
  /\ \A c \in Clients : \A i, j \in 1..Len(up[c]) : i < j => up[c][i] < up[c][j]
  /\ \A c \in Clients : \A i \in 1..Len(up[c]) : requests[up[c][i]].client = c
  /\ \A c \in Clients : \A i \in 1..Len(log), j \in 1..Len(up[c]) :
       requests[log[i].uid].client = c => log[i].uid < up[c][j]
  /\ \A i, j \in 1..Len(log) :
       i < j /\ requests[log[i].uid].client = requests[log[j].uid].client
         => log[i].uid < log[j].uid

\* A field of its own is shown as the user left it, and pending_delta has it
\* that way or is still to get it.
Keeps(c, f) ==
  /\ store[c].value[f] = LastOf(c, f)
  /\ f \in DOMAIN store[c].pending =>
       \/ store[c].pending[f] = LastOf(c, f)
       \/ \E u \in store[c].local : IsLast(u, f)

\* The inductive invariant behind NotReverted.
KeepsInv ==
  /\ IInv
  /\ HasLast
  /\ InOrder
  /\ \A c \in Clients, f \in Fields : Owns(c, f) => Keeps(c, f)

-----------------------------------------------------------------------------
(* The changes of a field *)

\* A change has an author and a delta of fields, and its uid is a number.
LEMMA ChangeTyped ==
  ASSUME TypeOK, NEW u \in Uids
  PROVE  /\ u \in Nat
         /\ requests[u].client \in Clients /\ requests[u].whole \in BOOLEAN
         /\ requests[u].delta \in Delta
         /\ requests[u].whole => DOMAIN requests[u].delta = Fields
<1>1. requests \in Seq([client : Clients, whole : BOOLEAN, delta : Delta])
  BY DEF TypeOK
<1>2. requests[u] \in [client : Clients, whole : BOOLEAN, delta : Delta]
  BY <1>1, SeqElements DEF Uids
<1>3. requests[u].whole => requests[u].delta \in Entity
  BY DEF TypeOK
<1>4. \A e \in Entity : DOMAIN e = Fields
  BY DEF Entity
<1>5. u \in Nat
  BY DEF Uids
<1> QED
  BY <1>2, <1>3, <1>4, <1>5

\* CHOOSE takes the last one of a set of changes, if there is one.
LEMMA TakesLast ==
  ASSUME NEW S \in SUBSET Nat, NEW u \in S, \A v \in S : v <= u
  PROVE  (CHOOSE v \in S : \A x \in S : x <= v) = u
<1> DEFINE w == CHOOSE v \in S : \A x \in S : x <= v
<1>1. w \in S /\ \A x \in S : x <= w
  OBVIOUS
<1> HIDE DEF w
<1>2. w \in Nat /\ u \in Nat /\ w <= u /\ u <= w
  BY <1>1
<1>3. w = u
  BY <1>2
<1> QED
  BY <1>3 DEF w

\* LastOf is the value of the last change.
LEMMA LastValue ==
  ASSUME NEW c, NEW f, NEW u, IsLast(u, f)
  PROVE  LastOf(c, f) = requests[u].delta[f]
<1> DEFINE w == CHOOSE v \in ChangesOf(f) : \A x \in ChangesOf(f) : x <= v
<1>1. ChangesOf(f) \in SUBSET Nat /\ u \in ChangesOf(f) /\ \A v \in ChangesOf(f) : v <= u
  BY DEF IsLast, ChangesOf, Uids
<1>2. w = u
  BY <1>1, TakesLast
<1>3. LastOf(c, f) =
        IF ChangesOf(f) = {} THEN Initial[f] ELSE requests[w].delta[f]
  BY DEF LastOf, ChangesOf
<1> QED
  BY <1>1, <1>2, <1>3

\* A new change is the last one of its fields, and takes them away from all
\* clients but its own; of the other fields it changes nothing.
LEMMA RecordLast ==
  ASSUME TypeOK, NEW c \in Clients, NEW whole \in BOOLEAN, NEW delta \in Delta,
         whole => delta \in Entity, Record(c, whole, delta),
         NEW f \in Fields, ChangesOf(f) = {} \/ \E u \in Uids : IsLast(u, f),
         NEW n, n = Len(requests) + 1
  PROVE  /\ f \in DOMAIN delta =>
              IsLast(n, f)' /\ \A b : LastOf(b, f)' = delta[f]
         /\ f \notin DOMAIN delta =>
              /\ ChangesOf(f)' = ChangesOf(f)
              /\ \A u : IsLast(u, f)' <=> IsLast(u, f)
              /\ \A b : LastOf(b, f)' = LastOf(b, f)
         /\ \A b : Owns(b, f)' => Owns(b, f)
         /\ \A b : Owns(b, f)' /\ f \in DOMAIN delta => b = c /\ ~whole
<1> DEFINE m == [client |-> c, whole |-> whole, delta |-> delta]
<1>1. /\ Len(requests) \in Nat /\ Uids' = Uids \cup {n}
      /\ \A u \in Uids : requests'[u] = requests[u]
      /\ requests'[n] = m
  BY RecordStep
<1>2. m.client = c /\ m.whole = whole /\ m.delta = delta
  OBVIOUS
<1>3. n \in Nat /\ \A u \in Uids : u \in Nat /\ u < n
  BY <1>1 DEF Uids
<1>4. n \in Uids'
  BY <1>1
<1> HIDE DEF m
<1>5. ChangesOf(f)' =
        {u \in Uids : f \in DOMAIN requests[u].delta}
          \cup (IF f \in DOMAIN delta THEN {n} ELSE {})
  BY <1>1, <1>2 DEF ChangesOf
<1>6. ASSUME f \in DOMAIN delta
      PROVE  IsLast(n, f)' /\ \A b : LastOf(b, f)' = delta[f]
  <2>1. /\ n \in ChangesOf(f)' /\ (\A v \in ChangesOf(f)' : v <= n)
        /\ ChangesOf(f)' \in SUBSET Nat
    BY <1>3, <1>5, <1>6
  <2>2. IsLast(n, f)'
    BY <2>1 DEF IsLast
  <2> DEFINE w == CHOOSE v \in ChangesOf(f) : \A x \in ChangesOf(f) : x <= v
  <2>3. w' = n
    BY <2>1, TakesLast
  <2>4. \A b : LastOf(b, f)' =
          IF ChangesOf(f)' = {} THEN Initial[f] ELSE requests'[w'].delta[f]
    BY DEF LastOf, ChangesOf
  <2> QED
    BY <2>1, <2>2, <2>3, <2>4, <1>1, <1>2
<1>7. ASSUME f \notin DOMAIN delta
      PROVE  /\ ChangesOf(f)' = ChangesOf(f)
             /\ \A u : IsLast(u, f)' <=> IsLast(u, f)
             /\ \A b : LastOf(b, f)' = LastOf(b, f)
  <2>1. ChangesOf(f)' = ChangesOf(f)
    BY <1>5, <1>7 DEF ChangesOf
  <2>2. \A u : IsLast(u, f)' <=> IsLast(u, f)
    BY <2>1 DEF IsLast
  <2>3. \A b : LastOf(b, f)' = LastOf(b, f)
    <3> DEFINE w == CHOOSE v \in ChangesOf(f) : \A x \in ChangesOf(f) : x <= v
    <3>1. \A b : LastOf(b, f) =
            IF ChangesOf(f) = {} THEN Initial[f] ELSE requests[w].delta[f]
      BY DEF LastOf, ChangesOf
    <3>2. \A b : LastOf(b, f)' =
            IF ChangesOf(f)' = {} THEN Initial[f] ELSE requests'[w'].delta[f]
      BY DEF LastOf, ChangesOf
    <3>3. w' = w
      BY <2>1
    <3>4. CASE ChangesOf(f) = {}
      BY <3>1, <3>2, <3>4, <2>1
    <3>5. CASE \E u \in Uids : IsLast(u, f)
      <4>1. w \in ChangesOf(f)
        BY <3>5 DEF IsLast
      <4>2. requests'[w] = requests[w]
        BY <4>1, <1>1 DEF ChangesOf
      <4> QED
        BY <4>2, <3>1, <3>2, <3>3, <2>1
    <3> QED
      BY <3>4, <3>5
  <2> QED
    BY <2>1, <2>2, <2>3
<1>8. \A b : Owns(b, f)' => Owns(b, f)
  BY <1>1 DEF Owns
<1>9. \A b : Owns(b, f)' /\ f \in DOMAIN delta => b = c /\ ~whole
  BY <1>1, <1>2, <1>4 DEF Owns
<1> QED
  BY <1>6, <1>7, <1>8, <1>9

-----------------------------------------------------------------------------
(* The order of the changes of a client *)

\* What is on its way up has been made.
LEMMA UpTyped ==
  ASSUME TypeOK, NEW c \in Clients
  PROVE  up[c] \in Seq(Uids) /\ \A i \in 1..Len(up[c]) : up[c][i] \in Uids
<1>1. up[c] \in Seq(Uids)
  BY DEF TypeOK
<1> QED
  BY <1>1, SeqElements

\* A new change goes behind the ones of its client.
LEMMA RecordOrder ==
  ASSUME TypeOK, InOrder, NEW c \in Clients, NEW whole \in BOOLEAN, NEW delta \in Delta,
         whole => delta \in Entity, Record(c, whole, delta)
  PROVE  InOrder'
<1> DEFINE n == Len(requests) + 1
           k == Len(up[c])
<1>1. /\ Len(requests) \in Nat /\ Uids' = Uids \cup {n}
      /\ \A u \in Uids : requests'[u] = requests[u]
      /\ requests'[n] = [client |-> c, whole |-> whole, delta |-> delta]
      /\ log' = log
  BY RecordStep
<1>2. n \in Nat /\ (\A u \in Uids : u \in Nat /\ u < n) /\ requests'[n].client = c
  BY <1>1 DEF Uids
<1>3. \A i \in 1..Len(log) : log[i].uid \in Uids
  BY LogTyped
<1>4. \A b \in Clients : \A i \in 1..Len(up[b]) : up[b][i] \in Uids
  BY UpTyped
<1>5. up[c] \in Seq(Uids) /\ k \in Nat
  BY UpTyped
<1>6. up' = [up EXCEPT ![c] = Append(up[c], n)] /\ up \in [Clients -> Seq(Uids)]
  BY DEF Record, TypeOK
<1>7. \A b \in Clients : b # c => up'[b] = up[b]
  BY <1>6
<1>8. up'[c] = Append(up[c], n)
  BY <1>6
<1>9. /\ Len(up'[c]) = k + 1 /\ up'[c][k + 1] = n
      /\ \A i \in 1..k : up'[c][i] = up[c][i]
  BY <1>5, <1>8
<1> HIDE DEF n, k
<1>10. \A i \in 1..(k + 1) : i \in 1..k \/ i = k + 1
  BY <1>5
<1>11. ASSUME NEW i \in 1..(k + 1), NEW j \in 1..(k + 1), i < j
       PROVE  up'[c][i] < up'[c][j]
  <2>1. i \in 1..k
    BY <1>5, <1>11
  <2>2. up'[c][i] = up[c][i] /\ up[c][i] \in Uids
    BY <2>1, <1>4, <1>9 DEF k
  <2>3. CASE j = k + 1
    BY <2>2, <2>3, <1>2, <1>9
  <2>4. CASE j \in 1..k
    BY <2>1, <2>2, <2>4, <1>9, <1>11 DEF InOrder, k
  <2> QED
    BY <2>3, <2>4, <1>10
<1>12. \A b \in Clients : \A i, j \in 1..Len(up'[b]) : i < j => up'[b][i] < up'[b][j]
  <2> SUFFICES ASSUME NEW b \in Clients
               PROVE  \A i, j \in 1..Len(up'[b]) : i < j => up'[b][i] < up'[b][j]
    OBVIOUS
  <2>1. CASE b = c
    BY <2>1, <1>9, <1>11
  <2>2. CASE b # c
    BY <2>2, <1>7 DEF InOrder
  <2> QED
    BY <2>1, <2>2
<1>13. \A b \in Clients : \A i \in 1..Len(up'[b]) : requests'[up'[b][i]].client = b
  <2> SUFFICES ASSUME NEW b \in Clients, NEW i \in 1..Len(up'[b])
               PROVE  requests'[up'[b][i]].client = b
    OBVIOUS
  <2>1. CASE b = c /\ i = k + 1
    BY <2>1, <1>2, <1>9
  <2>2. CASE b = c /\ i \in 1..k
    <3>1. i \in 1..Len(up[c]) /\ up'[b][i] = up[c][i]
      BY <2>2, <1>9 DEF k
    <3>2. requests[up[c][i]].client = c /\ up[c][i] \in Uids
      BY <3>1, <1>4 DEF InOrder
    <3> QED
      BY <2>2, <3>1, <3>2, <1>1
  <2>3. CASE b # c
    <3>1. i \in 1..Len(up[b]) /\ up'[b][i] = up[b][i]
      BY <2>3, <1>7
    <3>2. requests[up[b][i]].client = b /\ up[b][i] \in Uids
      BY <3>1, <1>4 DEF InOrder
    <3> QED
      BY <3>1, <3>2, <1>1
  <2> QED
    BY <2>1, <2>2, <2>3, <1>9, <1>10
<1>14. \A b \in Clients : \A i \in 1..Len(log'), j \in 1..Len(up'[b]) :
         requests'[log'[i].uid].client = b => log'[i].uid < up'[b][j]
  <2> SUFFICES ASSUME NEW b \in Clients, NEW i \in 1..Len(log), NEW j \in 1..Len(up'[b]),
                      requests'[log[i].uid].client = b
               PROVE  log[i].uid < up'[b][j]
    BY <1>1
  <2>0. log[i].uid \in Uids /\ requests[log[i].uid].client = b
    BY <1>1, <1>3
  <2>1. CASE b = c /\ j = k + 1
    BY <2>0, <2>1, <1>2, <1>9
  <2>2. CASE b = c /\ j \in 1..k
    <3>1. j \in 1..Len(up[c]) /\ up'[b][j] = up[c][j]
      BY <2>2, <1>9 DEF k
    <3> QED
      BY <2>0, <2>2, <3>1 DEF InOrder
  <2>3. CASE b # c
    <3>1. j \in 1..Len(up[b]) /\ up'[b][j] = up[b][j]
      BY <2>3, <1>7
    <3> QED
      BY <2>0, <3>1 DEF InOrder
  <2> QED
    BY <2>1, <2>2, <2>3, <1>9, <1>10
<1>15. \A i, j \in 1..Len(log') :
         i < j /\ requests'[log'[i].uid].client = requests'[log'[j].uid].client
           => log'[i].uid < log'[j].uid
  BY <1>1, <1>3 DEF InOrder
<1> QED
  BY <1>12, <1>13, <1>14, <1>15 DEF InOrder

\* The root confirms the oldest change of a client that is on its way.
LEMMA ConfirmOrder ==
  ASSUME TypeOK, InOrder, NEW c \in Clients, Confirm(c)
  PROVE  InOrder'
<1> DEFINE u == Head(up[c])
           e == Apply(requests[u].delta, RootEntity(Len(log)))
           m == [uid |-> u, entity |-> e]
           n == Len(log)
           k == Len(up[c])
<1>1. /\ up[c] # <<>> /\ log' = Append(log, m)
      /\ up' = [up EXCEPT ![c] = Tail(up[c])] /\ up \in [Clients -> Seq(Uids)]
      /\ requests' = requests
  BY DEF Confirm, TypeOK
<1>2. up[c] \in Seq(Uids) /\ \A b \in Clients : \A i \in 1..Len(up[b]) : up[b][i] \in Nat
  <2>1. \A b \in Clients : \A i \in 1..Len(up[b]) : up[b][i] \in Uids
    BY UpTyped
  <2> QED
    BY <2>1, UpTyped DEF Uids
<1>3. m.uid = u
  OBVIOUS
<1>4. /\ k \in Nat /\ 1 \in 1..k /\ u = up[c][1]
      /\ Len(Tail(up[c])) = k - 1
      /\ \A i \in 1..(k - 1) : Tail(up[c])[i] = up[c][i + 1]
  BY <1>1, <1>2
<1>5. \A b \in Clients : b # c => up'[b] = up[b]
  BY <1>1
<1>6. up'[c] = Tail(up[c])
  BY <1>1
<1>7. n \in Nat /\ Len(log') = n + 1 /\ log'[n + 1] = m /\ \A i \in 1..n : log'[i] = log[i]
  <2>1. log \in Seq([uid : Uids, entity : Entity])
    BY DEF TypeOK
  <2> QED
    BY <2>1, <1>1
<1>8. \A i \in 1..n : log[i].uid \in Nat
  BY LogTyped DEF Uids
<1> HIDE DEF u, e, m, n, k
<1>9. \A i \in 1..(n + 1) : i \in 1..n \/ i = n + 1
  BY <1>7
<1>10. \A i \in 1..(k - 1) : i + 1 \in 1..k /\ i + 1 > 1 /\ up'[c][i] = up[c][i + 1]
  BY <1>4, <1>6
<1>11. u \in Nat /\ requests[u].client = c
  BY <1>2, <1>4 DEF InOrder, k
<1>12. \A b \in Clients : \A i, j \in 1..Len(up'[b]) : i < j => up'[b][i] < up'[b][j]
  <2> SUFFICES ASSUME NEW b \in Clients, NEW i \in 1..Len(up'[b]), NEW j \in 1..Len(up'[b]),
                      i < j
               PROVE  up'[b][i] < up'[b][j]
    OBVIOUS
  <2>1. CASE b = c
    <3>1. i \in 1..(k - 1) /\ j \in 1..(k - 1)
      BY <2>1, <1>4, <1>6
    <3>2. i + 1 < j + 1
      OBVIOUS
    <3>3. up[c][i + 1] < up[c][j + 1]
      BY <3>1, <3>2, <1>10 DEF InOrder, k
    <3> QED
      BY <2>1, <3>1, <3>3, <1>10
  <2>2. CASE b # c
    BY <2>2, <1>5 DEF InOrder
  <2> QED
    BY <2>1, <2>2
<1>13. \A b \in Clients : \A i \in 1..Len(up'[b]) : requests'[up'[b][i]].client = b
  <2> SUFFICES ASSUME NEW b \in Clients, NEW i \in 1..Len(up'[b])
               PROVE  requests[up'[b][i]].client = b
    BY <1>1
  <2>1. CASE b = c
    <3>1. i \in 1..(k - 1)
      BY <2>1, <1>4, <1>6
    <3>2. up'[c][i] = up[c][i + 1] /\ i + 1 \in 1..Len(up[c])
      BY <3>1, <1>10 DEF k
    <3>3. requests[up[c][i + 1]].client = c
      BY <3>2 DEF InOrder
    <3> QED
      BY <2>1, <3>2, <3>3
  <2>2. CASE b # c
    BY <2>2, <1>5 DEF InOrder
  <2> QED
    BY <2>1, <2>2
<1>14. \A b \in Clients : \A i \in 1..Len(log'), j \in 1..Len(up'[b]) :
         requests'[log'[i].uid].client = b => log'[i].uid < up'[b][j]
  <2> SUFFICES ASSUME NEW b \in Clients, NEW i \in 1..(n + 1), NEW j \in 1..Len(up'[b]),
                      requests[log'[i].uid].client = b
               PROVE  log'[i].uid < up'[b][j]
    BY <1>1, <1>7
  <2>1. CASE b # c
    <3>1. i # n + 1
      BY <2>1, <1>3, <1>7, <1>11
    <3>2. i \in 1..Len(log) /\ log'[i] = log[i]
      BY <3>1, <1>7, <1>9 DEF n
    <3> QED
      BY <2>1, <3>2, <1>5 DEF InOrder
  <2>2. CASE b = c
    <3>1. j \in 1..(k - 1)
      BY <2>2, <1>4, <1>6
    <3>2. up'[c][j] = up[c][j + 1] /\ j + 1 \in 1..Len(up[c]) /\ 1 \in 1..Len(up[c])
          /\ j + 1 > 1
      BY <3>1, <1>4, <1>10 DEF k
    <3>3. CASE i = n + 1
      <4>1. up[c][1] < up[c][j + 1]
        BY <3>2 DEF InOrder
      <4> QED
        BY <2>2, <3>2, <3>3, <4>1, <1>3, <1>4, <1>7
    <3>4. CASE i \in 1..n
      <4>1. i \in 1..Len(log) /\ log'[i] = log[i]
        BY <3>4, <1>7 DEF n
      <4>2. log[i].uid < up[c][j + 1]
        BY <2>2, <3>2, <4>1 DEF InOrder
      <4> QED
        BY <2>2, <3>2, <4>1, <4>2
    <3> QED
      BY <3>3, <3>4, <1>9
  <2> QED
    BY <2>1, <2>2
<1>15. \A i, j \in 1..Len(log') :
         i < j /\ requests'[log'[i].uid].client = requests'[log'[j].uid].client
           => log'[i].uid < log'[j].uid
  <2> SUFFICES ASSUME NEW i \in 1..(n + 1), NEW j \in 1..(n + 1), i < j,
                      requests[log'[i].uid].client = requests[log'[j].uid].client
               PROVE  log'[i].uid < log'[j].uid
    BY <1>1, <1>7
  <2>1. i \in 1..n
    BY <1>7
  <2>2. i \in 1..Len(log) /\ log'[i] = log[i]
    BY <2>1, <1>7 DEF n
  <2>3. CASE j = n + 1
    <3>1. log'[j].uid = up[c][1] /\ requests[up[c][1]].client = c /\ 1 \in 1..Len(up[c])
      BY <2>3, <1>3, <1>4, <1>7, <1>11 DEF k
    <3>2. requests[log[i].uid].client = c
      BY <2>2, <3>1
    <3>3. log[i].uid < up[c][1]
      BY <2>2, <3>1, <3>2 DEF InOrder
    <3> QED
      BY <2>2, <3>1, <3>3
  <2>4. CASE j \in 1..n
    <3>1. j \in 1..Len(log) /\ log'[j] = log[j]
      BY <2>4, <1>7 DEF n
    <3> QED
      BY <2>2, <3>1 DEF InOrder
  <2> QED
    BY <2>3, <2>4, <1>9
<1> QED
  BY <1>12, <1>13, <1>14, <1>15 DEF InOrder

-----------------------------------------------------------------------------
(* The steps *)

\* A new change leaves what the other clients show, and leaves its own client
\* to show it.
LEMMA RecordKeepsField ==
  ASSUME KeepsInv, NEW c \in Clients, NEW whole \in BOOLEAN, NEW delta \in Delta,
         whole => delta \in Entity, Record(c, whole, delta), IInv',
         \A b \in Clients : b # c => store'[b] = store[b],
         ~whole => store'[c] = ApplyLocalDelta(store[c], Len(requests) + 1, delta),
         whole => DOMAIN delta = Fields
  PROVE  KeepsInv'
<1> DEFINE s == store[c]
<1>0. PICK n : n = Len(requests) + 1
  OBVIOUS
<1>1. IInv /\ TypeOK /\ HasLast /\ InOrder
  BY DEF KeepsInv, IInv
<1>2. \A f \in Fields : ChangesOf(f) = {} \/ \E u \in Uids : IsLast(u, f)
  BY <1>1 DEF HasLast
<1>3. /\ Len(requests) \in Nat /\ Uids' = Uids \cup {n}
      /\ \A u \in Uids : requests'[u] = requests[u]
      /\ requests'[n].delta = delta
  <2>1. /\ Len(requests) \in Nat /\ Uids' = Uids \cup {n}
        /\ \A u \in Uids : requests'[u] = requests[u]
        /\ requests'[n] = [client |-> c, whole |-> whole, delta |-> delta]
    BY <1>0, <1>1, RecordStep
  <2> QED
    BY <2>1
<1>4. s \in Stores /\ s.value \in Entity /\ s.pending \in Delta
  BY <1>1, StoreTyped DEF Stores
<1> HIDE DEF s
<1>6. ASSUME NEW f \in Fields
      PROVE  /\ f \in DOMAIN delta =>
                  IsLast(n, f)' /\ \A b : LastOf(b, f)' = delta[f]
             /\ f \notin DOMAIN delta =>
                  /\ ChangesOf(f)' = ChangesOf(f)
                  /\ \A u : IsLast(u, f)' <=> IsLast(u, f)
                  /\ \A b : LastOf(b, f)' = LastOf(b, f)
             /\ \A b : Owns(b, f)' => Owns(b, f)
             /\ \A b : Owns(b, f)' /\ f \in DOMAIN delta => b = c /\ ~whole
  BY <1>0, <1>1, <1>2, <1>6, RecordLast
<1>7. ASSUME NEW f \in Fields
      PROVE  ChangesOf(f)' = {} \/ \E u \in Uids' : IsLast(u, f)'
  <2>1. CASE f \in DOMAIN delta
    BY <2>1, <1>3, <1>6
  <2>2. CASE f \notin DOMAIN delta
    BY <2>2, <1>2, <1>3, <1>6
  <2> QED
    BY <2>1, <2>2
<1>8. InOrder'
  BY <1>1, RecordOrder
<1>9. ASSUME NEW b \in Clients, NEW f \in Fields, Owns(b, f)'
      PROVE  Keeps(b, f)'
  <2>1. Keeps(b, f)
    BY <1>6, <1>9 DEF KeepsInv
  <2>2. CASE f \in DOMAIN delta
    <3>1. b = c /\ ~whole /\ IsLast(n, f)'
      BY <2>2, <1>6, <1>9
    <3>2. LastOf(b, f)' = delta[f]
      BY <2>2, <1>6
    <3>3. store'[c].value = Apply(delta, s.value) /\ store'[c].pending = Apply(delta, s.pending)
      BY <3>1 DEF ApplyLocalDelta, s
    <3>4. store'[c].value[f] = delta[f]
      BY <2>2, <3>3, <1>4, ApplyToEntity
    <3>5. store'[c].pending[f] = delta[f]
      <4>1. Apply(delta, s.pending)[f] = delta[f]
        BY <2>2 DEF Apply
      <4> QED
        BY <3>3, <4>1
    <3> QED
      BY <3>1, <3>2, <3>4, <3>5 DEF Keeps
  <2>3. CASE f \notin DOMAIN delta
    <3>1. /\ \A u : IsLast(u, f)' <=> IsLast(u, f)
          /\ LastOf(b, f)' = LastOf(b, f)
      BY <2>3, <1>6
    <3>2. CASE b # c
      BY <2>1, <3>1, <3>2 DEF Keeps
    <3>3. CASE b = c
      <4>1. ~whole
        BY <2>3
      <4>2. /\ store'[c].value = Apply(delta, s.value)
            /\ store'[c].pending = Apply(delta, s.pending)
            /\ store'[c].local = s.local \cup {n}
        BY <4>1, <1>0 DEF ApplyLocalDelta, s
      <4>3. store'[c].value[f] = s.value[f]
        BY <2>3, <4>2, <1>4, ApplyToEntity
      <4>4. f \in DOMAIN store'[c].pending =>
              f \in DOMAIN s.pending /\ store'[c].pending[f] = s.pending[f]
        <5>1. DOMAIN Apply(delta, s.pending) = DOMAIN delta \cup DOMAIN s.pending
          BY DEF Apply
        <5>2. ASSUME f \in DOMAIN s.pending
              PROVE  Apply(delta, s.pending)[f] = s.pending[f]
          BY <2>3, <5>2 DEF Apply
        <5> QED
          BY <2>3, <4>2, <5>1, <5>2
      <4>5. /\ s.value[f] = LastOf(c, f)
            /\ f \in DOMAIN s.pending =>
                 s.pending[f] = LastOf(c, f) \/ \E u \in s.local : IsLast(u, f)
        BY <2>1, <3>3 DEF Keeps, s
      <4> QED
        BY <3>1, <3>3, <4>2, <4>3, <4>4, <4>5 DEF Keeps
    <3> QED
      BY <3>2, <3>3
  <2> QED
    BY <2>2, <2>3
<1> QED
  BY <1>7, <1>8, <1>9 DEF KeepsInv, HasLast

\* When a change of a field of its own comes down to a client, it is one that
\* waits, and so does the last change of the field.
LEMMA LastWaits ==
  ASSUME KeepsInv, NEW c \in Clients, pos[c] < Len(log),
         NEW u, u = log[pos[c] + 1].uid,
         NEW f \in Fields, Owns(c, f), f \in DOMAIN requests[u].delta,
         NEW w, IsLast(w, f)
  PROVE  u \in store[c].local /\ w \in store[c].local
<1> DEFINE k == pos[c] + 1
<1>1. IInv /\ TypeOK
  BY DEF KeepsInv, IInv
<1>2. pos[c] \in Nat /\ Len(log) \in Nat /\ k \in 1..Len(log)
  BY <1>1, LogTyped
<1>3. \A i \in 1..pos[c] : i \in 1..Len(log) /\ i < k
  BY <1>2
<1>4. u = log[k].uid
  OBVIOUS
<1> HIDE DEF k
<1>5. u \in Uids
  BY <1>1, <1>2, <1>4, LogTyped
<1>6. u \in Nat /\ w \in Uids /\ w \in Nat /\ u <= w
  BY <1>5 DEF IsLast, ChangesOf, Uids
<1>7. /\ requests[u].client = c /\ ~requests[u].whole
      /\ requests[w].client = c /\ ~requests[w].whole
  BY <1>5 DEF Owns, IsLast, ChangesOf
<1>8. ASSUME NEW v \in {u, w}
      PROVE  v \in Unconfirmed(c)
  <2>1. v \in Uids /\ requests[v].client = c /\ u <= v /\ v \in Nat
    BY <1>5, <1>6, <1>7
  <2>2. ASSUME NEW i \in 1..pos[c], log[i].uid = v
        PROVE  FALSE
    <3>1. requests[log[i].uid].client = requests[log[k].uid].client
      BY <2>1, <2>2, <1>4, <1>7
    <3>2. i \in 1..Len(log) /\ i < k
      BY <1>3
    <3>3. log[i].uid < log[k].uid
      BY <3>1, <3>2, <1>2 DEF KeepsInv, InOrder
    <3>4. v < u
      BY <2>2, <3>3, <1>4
    <3> QED
      BY <2>1, <3>4, <1>6
  <2> QED
    BY <2>1, <2>2 DEF Unconfirmed
<1> QED
  BY <1>1, <1>7, <1>8, StoreTyped

\* What comes down to a client does not revert a field of its own.
LEMMA ReceiveKeepsField ==
  ASSUME KeepsInv, NEW c \in Clients, Receive(c), NEW f \in Fields, Owns(c, f)
  PROVE  Keeps(c, f)'
<1> DEFINE u == log[pos[c] + 1].uid
           d == requests[u].delta
           s == store[c]
           t == store'[c]
           p == Apply(d, s.pending)
<1>1. IInv /\ TypeOK /\ HasLast
  BY DEF KeepsInv, IInv
<1>2. /\ pos[c] < Len(log) /\ requests' = requests
      /\ t = IF requests[u].whole THEN Replace(s, d) ELSE ApplyConfirmedDelta(s, u, d)
  BY <1>1 DEF Receive, TypeOK
<1>3. u \in Uids /\ d \in Delta /\ (requests[u].whole => DOMAIN d = Fields)
  <2>1. pos[c] + 1 \in 1..Len(log)
    BY ReceiveAwaits, <1>1
  <2>2. u \in Uids
    BY <2>1, <1>1, LogTyped
  <2> QED
    BY <2>2, <1>1, ChangeTyped
<1>4. s \in Stores /\ s.local = {v \in Unconfirmed(c) : ~requests[v].whole}
  BY <1>1, StoreTyped
<1>5. LastOf(c, f)' = LastOf(c, f) /\ \A v : IsLast(v, f)' <=> IsLast(v, f)
  BY <1>2 DEF LastOf, IsLast, ChangesOf, Uids
<1>6. /\ s.value[f] = LastOf(c, f)
      /\ f \in DOMAIN s.pending =>
           s.pending[f] = LastOf(c, f) \/ \E v \in s.local : IsLast(v, f)
  BY DEF KeepsInv, Keeps
<1>7. ~requests[u].whole
  BY <1>3 DEF Owns
<1>8. t = ApplyConfirmedDelta(s, u, d)
  BY <1>2, <1>7
<1>9. s.value \in Entity /\ s.pending \in Delta
  BY <1>4 DEF Stores
<1>18. s = [value |-> s.value, pending |-> s.pending, local |-> s.local]
  BY <1>4 DEF Stores
<1>10. /\ p \in Delta /\ DOMAIN p = DOMAIN d \cup DOMAIN s.pending
       /\ \A g \in DOMAIN d \cup DOMAIN s.pending :
            p[g] = IF g \in DOMAIN d THEN d[g] ELSE s.pending[g]
  BY <1>3, <1>9, ApplyToDelta
<1>11. f \in DOMAIN d =>
         /\ u \in s.local
         /\ \E w \in s.local : IsLast(w, f)
         /\ \A w : IsLast(w, f) => w \in s.local
  <2> SUFFICES ASSUME f \in DOMAIN d
               PROVE  /\ u \in s.local
                      /\ \E w \in s.local : IsLast(w, f)
                      /\ \A w : IsLast(w, f) => w \in s.local
    OBVIOUS
  <2>1. ASSUME NEW w, IsLast(w, f)
        PROVE  u \in s.local /\ w \in s.local
    BY <2>1, <1>2, LastWaits
  <2>2. ChangesOf(f) # {}
    BY <1>3 DEF ChangesOf
  <2>3. PICK w \in Uids : IsLast(w, f)
    BY <2>2, <1>1 DEF HasLast
  <2> QED
    BY <2>1, <2>3
<1>12. \A w : IsLast(w, f) => LastOf(c, f) = requests[w].delta[f] /\ f \in DOMAIN requests[w].delta
  BY LastValue DEF IsLast, ChangesOf
<1>13. d = requests[u].delta
  OBVIOUS
<1> HIDE DEF u, d, s, t, p
\* what pending_delta holds once the change is applied to it
<1>14. f \in DOMAIN p =>
         p[f] = LastOf(c, f) \/ \E v \in s.local \ {u} : IsLast(v, f)
  <2>1. CASE f \in DOMAIN d
    <3>1. PICK w \in s.local : IsLast(w, f)
      BY <2>1, <1>11
    <3>2. CASE w = u
      BY <2>1, <3>1, <3>2, <1>10, <1>12, <1>13
    <3>3. CASE w # u
      BY <3>1, <3>3
    <3> QED
      BY <3>2, <3>3
  <2>2. CASE f \notin DOMAIN d
    <3>1. \A w : IsLast(w, f) => w # u
      BY <2>2, <1>12, <1>13
    <3> QED
      BY <2>2, <3>1, <1>6, <1>10
  <2> QED
    BY <2>1, <2>2
<1>15. CASE u \in s.local /\ s.local \ {u} = {}
  <2>1. t = [value |-> Apply(p, s.value), pending |-> NoDelta, local |-> {}]
    BY <1>8, <1>15 DEF ApplyConfirmedDelta, p
  <2>2. Apply(p, s.value)[f] = IF f \in DOMAIN p THEN p[f] ELSE s.value[f]
    BY <1>9, <1>10, ApplyToEntity
  <2>3. t.value[f] = LastOf(c, f)
    BY <2>1, <2>2, <1>6, <1>14, <1>15
  <2>4. f \notin DOMAIN t.pending
    BY <2>1, DeltaFields
  <2> QED
    BY <2>3, <2>4, <1>5 DEF Keeps, t
<1>16. CASE u \in s.local /\ s.local \ {u} # {}
  <2>1. t.value = s.value /\ t.pending = p /\ t.local = s.local \ {u}
    BY <1>8, <1>16, <1>18 DEF ApplyConfirmedDelta, p
  <2> QED
    BY <2>1, <1>5, <1>6, <1>14 DEF Keeps, t
<1>17. CASE u \notin s.local
  <2>1. t.value = Apply(d, s.value) /\ t.pending = p /\ t.local = s.local
    BY <1>8, <1>17, <1>18 DEF ApplyConfirmedDelta, p
  <2>2. f \notin DOMAIN d
    BY <1>11, <1>17
  <2>3. t.value[f] = s.value[f]
    BY <2>1, <2>2, <1>3, <1>9, ApplyToEntity
  <2> QED
    BY <2>1, <2>3, <1>5, <1>6, <1>14 DEF Keeps, t
<1> QED
  BY <1>15, <1>16, <1>17

\* Every step of every client preserves the invariant.
LEMMA KeepsNext == KeepsInv /\ [Next]_vars => KeepsInv'
<1> SUFFICES ASSUME KeepsInv, [Next]_vars
             PROVE  KeepsInv'
  OBVIOUS
<1>0. IInv /\ TypeOK /\ InOrder /\ HasLast
  BY DEF KeepsInv, IInv
<1>1. IInv'
  BY <1>0, NextInv
<1>2. ASSUME NEW c \in Clients, Update(c)
      PROVE  KeepsInv'
  <2>1. PICK delta \in Deltas :
          /\ Record(c, FALSE, delta)
          /\ store' = [store EXCEPT ![c] =
               ApplyLocalDelta(store[c], Len(requests) + 1, delta)]
    BY <1>2 DEF Update
  <2>2. delta \in Delta
    BY LocalVersionAssumption
  <2>3. /\ store'[c] = ApplyLocalDelta(store[c], Len(requests) + 1, delta)
        /\ \A b \in Clients : b # c => store'[b] = store[b]
    BY <2>1, <1>0 DEF TypeOK
  <2>4. FALSE \in BOOLEAN
    OBVIOUS
  <2> QED
    BY <2>1, <2>2, <2>3, <2>4, <1>1, RecordKeepsField
<1>3. ASSUME NEW c \in Clients, Create(c)
      PROVE  KeepsInv'
  <2>1. PICK entity \in Entities :
          /\ Record(c, TRUE, entity)
          /\ store' = [store EXCEPT ![c] = Replace(store[c], entity)]
    BY <1>3 DEF Create
  <2>2. entity \in Entity /\ entity \in Delta
    BY LocalVersionAssumption, DeltaFields
  <2>3. DOMAIN entity = Fields
    BY <2>2 DEF Entity
  <2>4. \A b \in Clients : b # c => store'[b] = store[b]
    BY <2>1, <1>0 DEF TypeOK
  <2>5. TRUE \in BOOLEAN
    OBVIOUS
  <2> QED
    BY <2>1, <2>2, <2>3, <2>4, <2>5, <1>1, RecordKeepsField
<1>4. ASSUME requests' = requests
      PROVE  /\ HasLast'
             /\ \A b, f : Owns(b, f)' <=> Owns(b, f)
             /\ \A b, f : LastOf(b, f)' = LastOf(b, f)
             /\ \A u, f : IsLast(u, f)' <=> IsLast(u, f)
  BY <1>0, <1>4 DEF HasLast, IsLast, ChangesOf, Owns, LastOf, Uids
<1>5. ASSUME requests' = requests, NEW b \in Clients, store'[b] = store[b],
             NEW f \in Fields, Owns(b, f)'
      PROVE  Keeps(b, f)'
  <2>1. Keeps(b, f)
    BY <1>4, <1>5 DEF KeepsInv
  <2> QED
    BY <2>1, <1>4, <1>5 DEF Keeps
<1>6. ASSUME NEW c \in Clients, Confirm(c)
      PROVE  KeepsInv'
  <2>1. requests' = requests /\ store' = store
    BY <1>6 DEF Confirm
  <2>2. InOrder'
    BY <1>0, <1>6, ConfirmOrder
  <2> QED
    BY <2>1, <2>2, <1>1, <1>4, <1>5 DEF KeepsInv
<1>7. ASSUME NEW c \in Clients, Receive(c)
      PROVE  KeepsInv'
  <2>1. requests' = requests /\ up' = up /\ log' = log
    BY <1>7 DEF Receive
  <2>2. \A b \in Clients : b # c => store'[b] = store[b]
    BY <1>0, <1>7 DEF Receive, TypeOK
  <2>3. InOrder'
    BY <2>1, <1>0 DEF InOrder
  <2>4. ASSUME NEW b \in Clients, NEW f \in Fields, Owns(b, f)'
        PROVE  Keeps(b, f)'
    <3>1. CASE b = c
      <4>1. Owns(c, f)
        BY <2>1, <2>4, <3>1, <1>4
      <4> QED
        BY <3>1, <4>1, <1>7, ReceiveKeepsField
    <3>2. CASE b # c
      BY <2>1, <2>2, <2>4, <3>2, <1>5
    <3> QED
      BY <3>1, <3>2
  <2> QED
    BY <2>1, <2>3, <2>4, <1>1, <1>4 DEF KeepsInv
<1>8. CASE UNCHANGED vars
  <2>1. requests' = requests /\ store' = store /\ up' = up /\ log' = log
    BY <1>8 DEF vars
  <2>2. InOrder'
    BY <2>1, <1>0 DEF InOrder
  <2> QED
    BY <2>1, <2>2, <1>1, <1>4, <1>5 DEF KeepsInv
<1> QED
  BY <1>2, <1>3, <1>6, <1>7, <1>8 DEF Next

\* The invariant holds before anything is changed.
LEMMA KeepsInit == Init => KeepsInv
<1> SUFFICES ASSUME Init PROVE KeepsInv
  OBVIOUS
<1>1. Uids = {}
  BY DEF Init, Uids
<1>2. IInv
  BY InitInv
<1>3. HasLast
  BY <1>1 DEF HasLast, ChangesOf
<1>4. InOrder
  BY DEF Init, InOrder
<1>5. ASSUME NEW c \in Clients, NEW f \in Fields
      PROVE  Keeps(c, f)
  <2>1. store[c].value = Initial /\ store[c].pending = NoDelta
    BY DEF Init
  <2>2. LastOf(c, f) = Initial[f]
    BY <1>1 DEF LastOf
  <2> QED
    BY <2>1, <2>2, DeltaFields DEF Keeps
<1> QED
  BY <1>2, <1>3, <1>4, <1>5 DEF KeepsInv

-----------------------------------------------------------------------------
(* The theorems *)

\* The invariant holds in every reachable state.
THEOREM KeepsInvariant == Spec => []KeepsInv
  BY KeepsInit, KeepsNext, PTL DEF Spec

\* The changes a client makes to a field of its own are shown at once and are
\* not reverted in any intermediate state, whatever is confirmed meanwhile.
THEOREM OwnNotReverted == Spec => []NotReverted
<1>1. KeepsInv => NotReverted
  BY DEF KeepsInv, Keeps, NotReverted
<1> QED
  BY <1>1, KeepsInvariant, PTL
=============================================================================
