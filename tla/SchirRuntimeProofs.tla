------------------------- MODULE SchirRuntimeProofs -------------------------
(***************************************************************************)
(* Proofs about SchirRuntime, for every number of user operations.         *)
(***************************************************************************)
EXTENDS SchirRuntimeProps, SequenceTheorems, TLAPS

-----------------------------------------------------------------------------
(* The continuation stack *)

\* Pushing a frame that belongs on top keeps the stack in order.
LEMMA PushStacked ==
  ASSUME NEW S, NEW s \in Seq(S), NEW W, NEW C,
         NEW p, NEW d, Closure(p, d) \in S,
         Stacked(s, W, C), Placed(Closure(p, d), W, C), Above(Closure(p, d), Top(s))
  PROVE  /\ Push(s, p, d) \in Seq(S)
         /\ Stacked(Push(s, p, d), W, C)
         /\ Top(Push(s, p, d)) = Closure(p, d)
<1> DEFINE f == Closure(p, d)
           t == Append(s, f)
<1> HIDE DEF f
<1>1. t \in Seq(S) /\ Len(t) = Len(s) + 1 /\ Len(s) \in Nat /\ t # <<>>
  BY AppendProperties, LenProperties DEF f
<1>2. \A i \in 1..Len(s) : t[i] = s[i]
  BY AppendProperties DEF f
<1>3. t[Len(s) + 1] = f
  BY AppendProperties DEF f
<1>4. Top(t) = f
  BY <1>1, <1>3 DEF Top
<1>5. ASSUME NEW i \in 1..Len(t)
      PROVE  Placed(t[i], W, C) /\ Above(t[i], Below(t, i))
  <2>1. CASE i = Len(s) + 1
    <3>1. Below(t, i) = Top(s)
      <4>1. CASE s = <<>>
        BY <2>1, <4>1 DEF Below, Top
      <4>2. CASE s # <<>>
        <5>1. Len(s) # 0
          BY <4>2, EmptySeq
        <5>2. i # 1 /\ i - 1 = Len(s) /\ i - 1 \in 1..Len(s)
          BY <5>1, <2>1, <1>1
        <5> QED BY <5>2, <4>2, <1>2 DEF Below, Top
      <4> QED BY <4>1, <4>2
    <3> QED BY <3>1, <2>1, <1>3 DEF f
  <2>2. CASE i # Len(s) + 1
    <3>1. i \in 1..Len(s) /\ (i # 1 => i - 1 \in 1..Len(s))
      BY <2>2, <1>1
    <3>2. Below(t, i) = Below(s, i)
      BY <3>1, <1>2 DEF Below
    <3> QED BY <3>1, <3>2, <1>2 DEF Stacked
  <2> QED BY <2>1, <2>2
<1> QED BY <1>1, <1>4, <1>5 DEF Push, Stacked, f

\* What is popped belongs on top of what is left.
LEMMA PopStacked ==
  ASSUME NEW S, NEW s \in Seq(S), NEW W, NEW C, Stacked(s, W, C)
  PROVE  /\ Pop(s) \in Seq(S)
         /\ Stacked(Pop(s), W, C)
         /\ Placed(Top(s), W, C)
         /\ Above(Top(s), Top(Pop(s)))
         /\ Top(s) \in S \cup {Bottom}
         /\ s = <<>> => Pop(s) = <<>>
         /\ s # <<>> => Top(s) \in S
<1>1. CASE s = <<>>
  BY <1>1, EmptySeq DEF Pop, Top, Stacked, Placed, Above, LeadsTo, Bottom, Closure
<1>2. CASE s # <<>>
  <2> DEFINE n == Len(s)
             t == SubSeq(s, 1, n - 1)
  <2>1. n \in Nat /\ n # 0
    BY <1>2, EmptySeq, LenProperties
  <2>2. \A i \in 1..n : s[i] \in S
    BY ElementOfSeq
  <2>3. t \in Seq(S) /\ Len(t) = n - 1 /\ \A i \in 1..(n - 1) : t[i] = s[i]
    <3>1. \A i \in 1..(n - 1) : s[i] \in S
      BY <2>2, <2>1
    <3>2. n - 1 \in Int /\ 1 \in Int
      BY <2>1
    <3> HIDE DEF n
    <3>3. /\ t \in Seq(S)
          /\ Len(t) = IF 1 <= n - 1 THEN n - 1 - 1 + 1 ELSE 0
          /\ \A i \in 1..(n - 1 - 1 + 1) : t[i] = s[1 + i - 1]
      BY <3>1, <3>2, SubSeqProperties
    <3> QED BY <3>3, <2>1
  <2>4. Pop(s) = t /\ Top(s) = s[n]
    BY <1>2 DEF Pop, Top
  <2>5. Top(t) = Below(s, n)
    <3>1. CASE n = 1
      <4>1. t = <<>>
        BY <3>1, <2>3, EmptySeq
      <4> QED BY <4>1, <3>1 DEF Top, Below
    <3>2. CASE n # 1
      <4>1. n - 1 \in 1..(n - 1) /\ n - 1 # 0
        <5> HIDE DEF t, n
        <5> QED BY <3>2, <2>1
      <4>2. t # <<>>
        <5> HIDE DEF t, n
        <5> QED BY <4>1, <2>3, EmptySeq
      <4>3. Top(t) = t[n - 1]
        BY <4>2, <2>3 DEF Top
      <4>4. t[n - 1] = s[n - 1]
        BY <4>1, <2>3
      <4> QED BY <4>3, <4>4, <3>2 DEF Below
    <3> QED BY <3>1, <3>2
  <2>6. Stacked(t, W, C)
    <3> SUFFICES ASSUME NEW i \in 1..(n - 1)
                 PROVE  Placed(t[i], W, C) /\ Above(t[i], Below(t, i))
      BY <2>3 DEF Stacked
    <3>1. i \in 1..n /\ (i # 1 => i - 1 \in 1..(n - 1))
      BY <2>1
    <3>2. t[i] = s[i] /\ Below(t, i) = Below(s, i)
      BY <3>1, <2>3 DEF Below
    <3> QED BY <3>1, <3>2 DEF Stacked
  <2>7. Placed(s[n], W, C) /\ Above(s[n], Below(s, n)) /\ s[n] \in S
    BY <2>1, <2>2 DEF Stacked
  <2> QED BY <2>3, <2>4, <2>5, <2>6, <2>7, <1>2
<1> QED BY <1>1, <1>2

-----------------------------------------------------------------------------
(* The types grow with the windings, objects and continuations *)

\* What could be a handler, a thunk or a frame still can when there is more to
\* refer to.
LEMMA TypesGrow ==
  ASSUME NEW n \in Nat, NEW n2 \in Nat, n <= n2,
         NEW m \in Nat, NEW m2 \in Nat, m <= m2,
         NEW k \in Nat, NEW k2 \in Nat, k <= k2
  PROVE  /\ Handlers(m) \subseteq Handlers(m2)
         /\ Thunks(m) \subseteq Thunks(m2)
         /\ Continuations(n, m, k) \subseteq Continuations(n2, m2, k2)
         /\ Pending(n, m, k) \subseteq Pending(n2, m2, k2)
         /\ Frames(n, m, k) \subseteq Frames(n2, m2, k2)
         /\ Windings(n, m) \subseteq Windings(n2, m2)
         /\ SavedStacks(n, m, k) \subseteq SavedStacks(n2, m2, k2)
         /\ Objects(m) \subseteq Objects(m2)
<1>1. 1..n \subseteq 1..n2 /\ 0..n \subseteq 0..n2
  OBVIOUS
<1>2. 1..m \subseteq 1..m2 /\ 0..m \subseteq 0..m2
  OBVIOUS
<1>3. 1..k \subseteq 1..k2
  OBVIOUS
<1>4. Handlers(m) \subseteq Handlers(m2)
  BY <1>2 DEF Handlers
<1>5. Seq(Handlers(m)) \subseteq Seq(Handlers(m2))
  BY <1>4, SeqMonotonic
<1>6. Thunks(m) \subseteq Thunks(m2)
  <2> DEFINE Users == [fn : {"User"}, role : Roles]
             Installs(x) == [fn : {"SetHandlers"}, hs : Seq(Handlers(x))]
             Envs(x) == [fn : {"SetEnv"}, e : 0..x]
             Safe(x) == [fn : {"SafeBefore", "SafeAfter", "ErrorThunk"}, o : 1..x]
             Calls(x) == [fn : {"HandlerThunk"}, h : Handlers(x), continuable : BOOLEAN]
  <2>1. Installs(m) \subseteq Installs(m2)
    BY <1>5
  <2>2. Envs(m) \subseteq Envs(m2)
    BY <1>2
  <2>3. Safe(m) \subseteq Safe(m2)
    BY <1>2
  <2>4. Calls(m) \subseteq Calls(m2)
    BY <1>4
  <2>5. \A x : Thunks(x) = Users \cup Installs(x) \cup Envs(x) \cup Safe(x) \cup Calls(x)
    BY DEF Thunks
  <2> HIDE DEF Users, Installs, Envs, Safe, Calls
  <2> QED BY <2>1, <2>2, <2>3, <2>4, <2>5
<1>7. Continuations(n, m, k) \subseteq Continuations(n2, m2, k2)
  <2> DEFINE A == [fn : {"User"}, role : Roles]
             B(x) == [fn : {"WindBody"}, before : Thunks(x), thunk : Thunks(x), after : Thunks(x)]
             D(y, x) == [fn : {"WindExit"}, after : Thunks(x), prev : 0..y]
             E(y) == [fn : {"EnterWind", "SetDW"}, dest : 1..y]
             F(y) == [fn : {"ContinueUp"}, src : 1..y, dest : 0..y]
             G(z) == [fn : {"Restore"}, k : 1..z]
             H(x) == [fn : {"ClearMark", "Destroy"}, o : 1..x]
             I == [fn : {"Forward", "RaiseAgain"}]
  <2>1. B(m) \subseteq B(m2)
    BY <1>6
  <2>2. D(n, m) \subseteq D(n2, m2)
    BY <1>1, <1>6
  <2>3. E(n) \subseteq E(n2)
    BY <1>1
  <2>4. F(n) \subseteq F(n2)
    BY <1>1
  <2>5. G(k) \subseteq G(k2)
    BY <1>3
  <2>6. H(m) \subseteq H(m2)
    BY <1>2
  <2>7. \A y, x, z : Continuations(y, x, z) =
          A \cup B(x) \cup D(y, x) \cup E(y) \cup F(y) \cup G(z) \cup H(x) \cup I
    BY DEF Continuations
  <2> HIDE DEF A, B, D, E, F, G, H, I
  <2> QED BY <2>1, <2>2, <2>3, <2>4, <2>5, <2>6, <2>7
<1>8. Pending(n, m, k) \subseteq Pending(n2, m2, k2)
  <2> DEFINE T(y) == [fn : {"Traverse"}, src : 0..y, dest : 0..y]
             K(z) == [fn : {"Escape"}, k : 1..z]
             R == [fn : {"Raise", "Bottom"}]
  <2>1. T(n) \subseteq T(n2)
    BY <1>1
  <2>2. K(k) \subseteq K(k2)
    BY <1>3
  <2>3. \A y, x, z : Pending(y, x, z) =
          Handlers(x) \cup Thunks(x) \cup Continuations(y, x, z) \cup T(y) \cup K(z) \cup R
    BY DEF Pending
  <2> HIDE DEF T, K, R
  <2> QED BY <2>1, <2>2, <2>3, <1>4, <1>6, <1>7
<1>9. Frames(n, m, k) \subseteq Frames(n2, m2, k2)
  BY <1>1, <1>7 DEF Frames
<1>10. Windings(n, m) \subseteq Windings(n2, m2)
  BY <1>1, <1>6 DEF Windings
<1>11. Seq(Frames(n, m, k)) \subseteq Seq(Frames(n2, m2, k2))
  BY <1>9, SeqMonotonic
<1>12. SavedStacks(n, m, k) \subseteq SavedStacks(n2, m2, k2)
  BY <1>1, <1>11 DEF SavedStacks
<1>13. Objects(m) \subseteq Objects(m2)
  BY <1>6 DEF Objects
<1> QED BY <1>4, <1>6, <1>7, <1>8, <1>9, <1>10, <1>12, <1>13

\* Sequences of them grow as well.
LEMMA SeqsGrow ==
  ASSUME NEW n \in Nat, NEW n2 \in Nat, n <= n2,
         NEW m \in Nat, NEW m2 \in Nat, m <= m2,
         NEW k \in Nat, NEW k2 \in Nat, k <= k2
  PROVE  /\ Seq(Handlers(m)) \subseteq Seq(Handlers(m2))
         /\ Seq(Frames(n, m, k)) \subseteq Seq(Frames(n2, m2, k2))
         /\ Seq(Windings(n, m)) \subseteq Seq(Windings(n2, m2))
         /\ Seq(SavedStacks(n, m, k)) \subseteq Seq(SavedStacks(n2, m2, k2))
         /\ Seq(Objects(m)) \subseteq Seq(Objects(m2))
<1>1. \A S, T : S \subseteq T => Seq(S) \subseteq Seq(T)
  BY SeqMonotonic
<1> QED BY <1>1, TypesGrow

\* What each kind of procedure captures.
LEMMA Captures ==
  ASSUME NEW n \in Nat, NEW m \in Nat, NEW k \in Nat, NEW p \in Pending(n, m, k)
  PROVE  /\ p.fn = "WindBody" => /\ p.before \in Thunks(m)
                                 /\ p.thunk \in Thunks(m)
                                 /\ p.after \in Thunks(m)
         /\ p.fn = "WindExit" => p.after \in Thunks(m) /\ p.prev \in 0..n
         /\ p.fn \in {"EnterWind", "SetDW"} => p.dest \in 1..n
         /\ p.fn = "ContinueUp" => p.src \in 1..n /\ p.dest \in 0..n
         /\ p.fn \in {"Restore", "Escape"} => p.k \in 1..k
         /\ p.fn \in {"ClearMark", "Destroy", "SafeBefore", "SafeAfter",
                      "ErrorThunk", "ErrorHandler"} => p.o \in 1..m
         /\ p.fn = "Traverse" => p.src \in 0..n /\ p.dest \in 0..n
         /\ p.fn = "SetHandlers" => p.hs \in Seq(Handlers(m))
         /\ p.fn = "SetEnv" => p.e \in 0..m
         /\ p.fn = "HandlerThunk" => p.h \in Handlers(m) /\ p.continuable \in BOOLEAN
<1>1. CASE p \in Handlers(m)
  BY <1>1 DEF Handlers
<1>2. CASE p \in Thunks(m)
  BY <1>2 DEF Thunks
<1>3. CASE p \in Continuations(n, m, k)
  <2> HIDE DEF Thunks
  <2> QED BY <1>3 DEF Continuations
<1>4. CASE p \in [fn : {"Traverse"}, src : 0..n, dest : 0..n]
  BY <1>4
<1>5. CASE p \in [fn : {"Escape"}, k : 1..k]
  BY <1>5
<1>6. CASE p \in [fn : {"Raise", "Bottom"}]
  BY <1>6
<1> QED BY <1>1, <1>2, <1>3, <1>4, <1>5, <1>6 DEF Pending

\* A closure whose captures say nothing about extents: it leads to the extent
\* it belongs to.
Plain(p) == p.fn \notin {"EnterWind", "SetDW", "ContinueUp", "Traverse",
                         "Restore", "WindExit"}

\* Handlers and thunks are plain.
LEMMA PlainThunks ==
  ASSUME NEW m \in Nat
  PROVE  /\ \A p \in Thunks(m) : Plain(p) /\ p.fn # "Bottom"
         /\ \A p \in Handlers(m) : Plain(p) /\ p.fn # "Bottom"
<1>1. ASSUME NEW p \in Thunks(m) PROVE Plain(p) /\ p.fn # "Bottom"
  BY <1>1 DEF Thunks, Plain
<1>2. ASSUME NEW p \in Handlers(m) PROVE Plain(p) /\ p.fn # "Bottom"
  BY <1>2 DEF Handlers, Plain
<1> QED BY <1>1, <1>2

-----------------------------------------------------------------------------
(* The parts of the inductive invariant *)

InOrder(s, W, C, m) == s \in Seq(Frames(Len(W), m, Len(C))) /\ Stacked(s, W, C)

\* The closure c may run with s as the stack.
Runs(c, s, W, C, m) ==
  /\ c \in [run : Pending(Len(W), m, Len(C)), at : 0..Len(W)]
  /\ Placed(c, W, C)
  /\ Above(c, Top(s))
  /\ c.run.fn = "Bottom" => s = <<>>

\* What IInv says of the variables other than stack and call.
Data ==
  /\ bottomDW = 0
  /\ winds \in Seq(Windings(Len(winds), Len(objs)))
  /\ WindingTree
  /\ handlers \in Seq(Handlers(Len(objs)))
  /\ conts \in Seq(SavedStacks(Len(winds), Len(objs), Len(conts)))
  /\ Saved(conts, winds)
  /\ objs \in Seq(Objects(Len(objs)))
  /\ env \in 0..Len(objs)
  /\ fuel \in 0..MaxOps

\* The parts follow from the invariant.
LEMMA Parts ==
  ASSUME IInv
  PROVE  /\ Data
         /\ InOrder(stack, winds, conts, Len(objs))
         /\ Runs(call, stack, winds, conts, Len(objs))
         /\ call.at = curDW
         /\ curDW \in 0..Len(winds)
         /\ Len(winds) \in Nat /\ Len(conts) \in Nat /\ Len(objs) \in Nat
         /\ call.run \in Pending(Len(winds), Len(objs), Len(conts))
         /\ Plain(call.run) => Top(stack).at = curDW
<1>1. /\ Data
      /\ InOrder(stack, winds, conts, Len(objs))
      /\ Runs(call, stack, winds, conts, Len(objs))
      /\ call.at = curDW
      /\ curDW \in 0..Len(winds)
  BY DEF IInv, TypeOK, Data, InOrder, Runs, Halted, Calling
<1>2. Len(winds) \in Nat /\ Len(conts) \in Nat /\ Len(objs) \in Nat
  BY <1>1, LenProperties DEF Data
<1>3. call.run \in Pending(Len(winds), Len(objs), Len(conts))
  BY <1>1 DEF Runs
<1>4. Plain(call.run) => Top(stack).at = curDW
  BY <1>1 DEF Runs, Above, LeadsTo, Plain
<1> QED BY <1>1, <1>2, <1>3, <1>4

\* The parts give the invariant, here of the next state.
LEMMA Assemble ==
  ASSUME Data',
         InOrder(stack', winds', conts', Len(objs')),
         Runs(call', stack', winds', conts', Len(objs')),
         call'.at = curDW'
  PROVE  IInv'
<1>1. 0 \in 0..Len(winds')
  BY LenProperties DEF Data
<1>2. TypeOK'
  BY <1>1 DEF TypeOK, Data, InOrder, Runs
<1> QED BY <1>2 DEF IInv, Data, InOrder, Runs, Halted, Calling

\* Steps that leave the windings and the saved continuations alone.
LEMMA DataKept ==
  ASSUME Data, UNCHANGED <<winds, conts, bottomDW>>,
         objs' \in Seq(Objects(Len(objs))), Len(objs') = Len(objs),
         handlers' \in Seq(Handlers(Len(objs))),
         env' \in 0..Len(objs), fuel' \in 0..MaxOps
  PROVE  Data'
<1>1. WindingTree'
  BY DEF Data, WindingTree, Depth
<1> QED BY <1>1 DEF Data

\* Steps of which only stack, call and curDW take part.
LEMMA DataSame ==
  ASSUME Data, UNCHANGED <<winds, conts, bottomDW, handlers, objs, env>>,
         fuel' \in 0..MaxOps
  PROVE  Data'
BY DataKept DEF Data

-----------------------------------------------------------------------------
(* Building blocks of the steps *)

LEMMA PushInOrder ==
  ASSUME NEW W, NEW C, NEW m, NEW s, InOrder(s, W, C, m),
         NEW p \in Continuations(Len(W), m, Len(C)), NEW d \in 0..Len(W),
         Placed(Closure(p, d), W, C), Above(Closure(p, d), Top(s))
  PROVE  /\ InOrder(Push(s, p, d), W, C, m)
         /\ Top(Push(s, p, d)) = Closure(p, d)
         /\ Top(Push(s, p, d)).at = d
<1>1. Closure(p, d) \in Frames(Len(W), m, Len(C))
  BY DEF Closure, Frames
<1>2. s \in Seq(Frames(Len(W), m, Len(C))) /\ Stacked(s, W, C)
  BY DEF InOrder
<1>3. /\ Push(s, p, d) \in Seq(Frames(Len(W), m, Len(C)))
      /\ Stacked(Push(s, p, d), W, C)
      /\ Top(Push(s, p, d)) = Closure(p, d)
  BY <1>1, <1>2, PushStacked
<1> QED BY <1>3 DEF InOrder, Closure

LEMMA PlainPlaced ==
  ASSUME NEW p, Plain(p), NEW d, NEW W, NEW C
  PROVE  Placed(Closure(p, d), W, C) /\ LeadsTo(Closure(p, d)) = d
BY DEF Plain, Placed, LeadsTo, Closure

\* A plain continuation of the extent on top goes on top of it.
LEMMA PushPlain ==
  ASSUME NEW W, NEW C, NEW m, NEW s, InOrder(s, W, C, m),
         NEW p \in Continuations(Len(W), m, Len(C)), Plain(p),
         NEW d \in 0..Len(W), Top(s).at = d
  PROVE  /\ InOrder(Push(s, p, d), W, C, m)
         /\ Top(Push(s, p, d)).at = d
BY PushInOrder, PlainPlaced DEF Above

\* Cont(s): the frame on top may run.
LEMMA ContRuns ==
  ASSUME NEW W, NEW C, NEW m, NEW s, InOrder(s, W, C, m), Len(W) \in Nat
  PROVE  /\ InOrder(Pop(s), W, C, m)
         /\ Runs(Top(s), Pop(s), W, C, m)
<1> DEFINE F == Frames(Len(W), m, Len(C))
<1>1. s \in Seq(F) /\ Stacked(s, W, C)
  BY DEF InOrder
<1>2. /\ Pop(s) \in Seq(F)
      /\ Stacked(Pop(s), W, C)
      /\ Placed(Top(s), W, C)
      /\ Above(Top(s), Top(Pop(s)))
      /\ s = <<>> => Pop(s) = <<>>
      /\ s # <<>> => Top(s) \in F
  <2> HIDE DEF F
  <2> QED BY <1>1, PopStacked
<1>3. CASE s = <<>>
  <2>1. Top(s) = Bottom
    BY <1>3 DEF Top
  <2>2. Bottom \in [run : Pending(Len(W), m, Len(C)), at : 0..Len(W)]
    BY DEF Bottom, Closure, Pending
  <2> QED BY <2>1, <2>2, <1>2, <1>3 DEF InOrder, Runs
<1>4. CASE s # <<>>
  <2>1. Top(s) \in [run : Continuations(Len(W), m, Len(C)), at : 0..Len(W)]
    BY <1>2, <1>4 DEF Frames
  <2>2. Top(s).run \in Continuations(Len(W), m, Len(C))
    BY <2>1
  <2>3. Top(s).run.fn # "Bottom"
    BY <2>2 DEF Continuations
  <2>4. Top(s) \in [run : Pending(Len(W), m, Len(C)), at : 0..Len(W)]
    BY <2>1 DEF Pending
  <2> QED BY <2>3, <2>4, <1>2 DEF InOrder, Runs
<1> QED BY <1>3, <1>4

\* A plain procedure called in the extent of the frame on top may run.
LEMMA CallPlain ==
  ASSUME NEW W, NEW C, NEW m, NEW s,
         NEW p \in Pending(Len(W), m, Len(C)), Plain(p), p.fn # "Bottom",
         NEW d \in 0..Len(W), Top(s).at = d
  PROVE  /\ Runs(Closure(p, d), s, W, C, m)
         /\ Closure(p, d).at = d
<1>1. Closure(p, d) \in [run : Pending(Len(W), m, Len(C)), at : 0..Len(W)]
  BY DEF Closure
<1>2. Closure(p, d).run.fn # "Bottom" /\ Closure(p, d).at = d
  BY DEF Closure
<1> QED BY <1>1, <1>2, PlainPlaced DEF Runs, Above

\* DynamicWind pushes its body and calls Before.
LEMMA DynamicWindRuns ==
  ASSUME NEW W, NEW C, NEW m \in Nat, NEW s, InOrder(s, W, C, m),
         NEW d \in 0..Len(W), Top(s).at = d,
         NEW before \in Thunks(m), NEW thunk \in Thunks(m), NEW after \in Thunks(m)
  PROVE  LET body == [fn |-> "WindBody", before |-> before, thunk |-> thunk,
                      after |-> after]
         IN /\ InOrder(Push(s, body, d), W, C, m)
            /\ Runs(Closure(before, d), Push(s, body, d), W, C, m)
            /\ Closure(before, d).at = d
<1> DEFINE body == [fn |-> "WindBody", before |-> before, thunk |-> thunk,
                    after |-> after]
<1>1. body \in Continuations(Len(W), m, Len(C)) /\ Plain(body)
  BY DEF Continuations, Plain
<1> HIDE DEF body
<1>2. InOrder(Push(s, body, d), W, C, m) /\ Top(Push(s, body, d)).at = d
  BY <1>1, PushPlain
<1>3. before \in Pending(Len(W), m, Len(C)) /\ Plain(before) /\ before.fn # "Bottom"
  BY PlainThunks DEF Pending
<1>4. Runs(Closure(before, d), Push(s, body, d), W, C, m) /\ Closure(before, d).at = d
  BY <1>2, <1>3, CallPlain
<1> QED BY <1>2, <1>4 DEF body

-----------------------------------------------------------------------------
(* The invariant holds initially and every step keeps it *)

LEMMA InitIInv == Init => IInv
<1> SUFFICES ASSUME Init PROVE IInv
  OBVIOUS
<1>1. Len(winds) = 0 /\ Len(objs) = 0 /\ Len(conts) = 0 /\ Len(stack) = 0
  BY EmptySeq DEF Init
<1>2. TypeOK
  <2>1. Bottom \in [run : Pending(0, 0, 0), at : 0..0]
    BY DEF Bottom, Closure, Pending
  <2>2. /\ stack \in Seq(Frames(0, 0, 0)) /\ winds \in Seq(Windings(0, 0))
        /\ handlers \in Seq(Handlers(0)) /\ conts \in Seq(SavedStacks(0, 0, 0))
        /\ objs \in Seq(Objects(0))
    BY EmptySeq DEF Init
  <2> QED BY <1>1, <2>1, <2>2, OpsAssumption DEF Init, TypeOK
<1>3. WindingTree
  <2>1. \A w \in DOMAIN winds : FALSE
    BY <1>1, LenProperties, <1>2 DEF TypeOK
  <2> QED BY <2>1 DEF WindingTree
<1>4. Stacked(stack, winds, conts) /\ Saved(conts, winds)
  BY <1>1 DEF Stacked, Saved
<1>5. call.at = curDW /\ Placed(call, winds, conts) /\ Above(call, Top(stack))
  BY DEF Init, Bottom, Closure, Placed, Above, LeadsTo, Top
<1> QED BY <1>2, <1>3, <1>4, <1>5 DEF Init, IInv

\* Cont of the current stack from an extent the pending call leads to.
LEMMA ContStep ==
  ASSUME IInv, Data', Cont(stack), UNCHANGED <<winds, conts>>, Len(objs') = Len(objs),
         curDW' = Top(stack).at
  PROVE  IInv'
<1>1. /\ InOrder(stack', winds', conts', Len(objs'))
      /\ Runs(call', stack', winds', conts', Len(objs'))
  BY Parts, ContRuns DEF Cont
<1>2. call'.at = curDW'
  BY DEF Cont
<1> QED BY <1>1, <1>2, Assemble

\* A plain procedure is called, with the stack as it is.
LEMMA CallStep ==
  ASSUME IInv, Data', Plain(call.run), UNCHANGED <<stack, curDW, winds, conts>>,
         Len(objs') = Len(objs),
         NEW p \in Pending(Len(winds), Len(objs), Len(conts)), Plain(p), p.fn # "Bottom",
         Apply(p, curDW)
  PROVE  IInv'
<1>1. Top(stack).at = curDW /\ curDW \in 0..Len(winds)
  BY Parts
<1>2. Runs(Closure(p, curDW), stack, winds, conts, Len(objs)) /\ Closure(p, curDW).at = curDW
  BY <1>1, CallPlain
<1>3. InOrder(stack, winds, conts, Len(objs))
  BY Parts
<1> QED BY <1>2, <1>3, Assemble DEF Apply

\* A plain continuation is pushed and a plain procedure called.
LEMMA PushCallStep ==
  ASSUME IInv, Data', Plain(call.run), UNCHANGED <<curDW, winds, conts>>,
         Len(objs') = Len(objs),
         NEW q \in Continuations(Len(winds), Len(objs), Len(conts)), Plain(q),
         stack' = Push(stack, q, curDW),
         NEW p \in Pending(Len(winds), Len(objs), Len(conts)), Plain(p), p.fn # "Bottom",
         Apply(p, curDW)
  PROVE  IInv'
<1>1. Top(stack).at = curDW /\ curDW \in 0..Len(winds)
  BY Parts
<1>2. /\ InOrder(Push(stack, q, curDW), winds, conts, Len(objs))
      /\ Top(Push(stack, q, curDW)).at = curDW
  BY <1>1, Parts, PushPlain
<1>3. Runs(Closure(p, curDW), stack', winds, conts, Len(objs)) /\ Closure(p, curDW).at = curDW
  BY <1>1, <1>2, CallPlain
<1> QED BY <1>2, <1>3, Assemble DEF Apply

\* DynamicWind(s, ...) for a stack s with the current extent on top.
LEMMA DynamicWindStep ==
  ASSUME IInv, Data', UNCHANGED <<curDW, winds, conts>>,
         NEW m \in Nat, Len(objs') = m,
         NEW s, InOrder(s, winds, conts, m), Top(s).at = curDW,
         NEW before \in Thunks(m), NEW thunk \in Thunks(m), NEW after \in Thunks(m),
         DynamicWind(s, before, thunk, after)
  PROVE  IInv'
<1> DEFINE body == [fn |-> "WindBody", before |-> before, thunk |-> thunk,
                    after |-> after]
<1>1. curDW \in 0..Len(winds)
  BY Parts
<1>2. /\ InOrder(Push(s, body, curDW), winds, conts, m)
      /\ Runs(Closure(before, curDW), Push(s, body, curDW), winds, conts, m)
      /\ Closure(before, curDW).at = curDW
  BY <1>1, DynamicWindRuns
<1>3. stack' = Push(s, body, curDW) /\ call' = Closure(before, curDW)
  BY DEF DynamicWind, Apply
<1> QED BY <1>2, <1>3, Assemble

\* WithExceptionHandlers(s, hs, thunk) for such a stack.
LEMMA WithHandlersStep ==
  ASSUME IInv, Data', UNCHANGED <<curDW, winds, conts>>,
         NEW m \in Nat, Len(objs') = m, Len(objs) <= m,
         NEW s, InOrder(s, winds, conts, m), Top(s).at = curDW,
         NEW hs \in Seq(Handlers(m)), NEW thunk \in Thunks(m),
         WithExceptionHandlers(s, hs, thunk)
  PROVE  IInv'
<1>1. handlers \in Seq(Handlers(m))
  <2>1. Len(objs) \in Nat /\ handlers \in Seq(Handlers(Len(objs)))
    BY Parts DEF Data
  <2>2. Handlers(Len(objs)) \subseteq Handlers(m)
    BY <2>1, TypesGrow
  <2> QED BY <2>1, <2>2, SeqMonotonic
<1>2. SetHandlers(hs) \in Thunks(m) /\ SetHandlers(handlers) \in Thunks(m)
  BY <1>1 DEF SetHandlers, Thunks
<1>3. DynamicWind(s, SetHandlers(hs), thunk, SetHandlers(handlers))
  BY DEF WithExceptionHandlers
<1> QED BY <1>2, <1>3, DynamicWindStep

-----------------------------------------------------------------------------
(* Windings, objects and continuations are only ever added *)

GrowsTo(a, b) == /\ Len(a) \in Nat /\ Len(b) \in Nat /\ Len(a) <= Len(b)
                 /\ \A i \in 1..Len(a) : b[i] = a[i]

\* A stack in order stays so when windings, objects or continuations are
\* added, since its frames only refer to those there are.
LEMMA InOrderGrows ==
  ASSUME NEW W, NEW C, NEW m \in Nat, NEW W2, NEW C2, NEW m2 \in Nat,
         GrowsTo(W, W2), GrowsTo(C, C2), m <= m2,
         NEW s, InOrder(s, W, C, m)
  PROVE  InOrder(s, W2, C2, m2)
<1>1. s \in Seq(Frames(Len(W), m, Len(C)))
  BY DEF InOrder
<1>2. s \in Seq(Frames(Len(W2), m2, Len(C2)))
  BY <1>1, TypesGrow, SeqMonotonic DEF GrowsTo
<1>3. ASSUME NEW i \in 1..Len(s)
      PROVE  Placed(s[i], W2, C2) /\ Above(s[i], Below(s, i))
  <2>1. Placed(s[i], W, C) /\ Above(s[i], Below(s, i))
    BY DEF InOrder, Stacked
  <2>2. s[i] \in Frames(Len(W), m, Len(C))
    BY <1>1, ElementOfSeq
  <2>3. s[i].run \in Pending(Len(W), m, Len(C)) /\ s[i].at \in 0..Len(W)
    BY <2>2 DEF Frames, Pending
  <2>4. /\ s[i].run.fn \in {"EnterWind", "SetDW"} => s[i].run.dest \in 1..Len(W)
        /\ s[i].run.fn = "ContinueUp" => s[i].run.src \in 1..Len(W)
        /\ s[i].run.fn = "Restore" => s[i].run.k \in 1..Len(C)
    BY <2>3, Captures DEF GrowsTo
  <2>5. s[i].at # 0 => s[i].at \in 1..Len(W)
    BY <2>3
  <2>6. Placed(s[i], W2, C2)
    BY <2>1, <2>4, <2>5 DEF Placed, Up, GrowsTo
  <2> QED BY <2>1, <2>6
<1> QED BY <1>2, <1>3 DEF InOrder, Stacked

\* So do the saved continuations.
LEMMA SavedGrows ==
  ASSUME NEW W, NEW C, NEW m \in Nat, NEW W2, NEW C2, NEW m2 \in Nat,
         GrowsTo(W, W2), GrowsTo(C, C2), m <= m2,
         C \in Seq(SavedStacks(Len(W), m, Len(C))), Saved(C, W)
  PROVE  \A k \in 1..Len(C) :
           InOrder(C2[k].stack, W2, C2, m2) /\ Top(C2[k].stack).at = C2[k].dw
<1> SUFFICES ASSUME NEW k \in 1..Len(C)
             PROVE  InOrder(C2[k].stack, W2, C2, m2) /\ Top(C2[k].stack).at = C2[k].dw
  OBVIOUS
<1>1. C2[k] = C[k] /\ Stacked(C[k].stack, W, C) /\ Top(C[k].stack).at = C[k].dw
  BY DEF Saved, GrowsTo
<1>2. C[k] \in SavedStacks(Len(W), m, Len(C))
  BY ElementOfSeq
<1>3. InOrder(C[k].stack, W, C, m)
  BY <1>1, <1>2 DEF SavedStacks, InOrder
<1>4. InOrder(C[k].stack, W2, C2, m2)
  BY <1>3, InOrderGrows
<1> QED BY <1>1, <1>4

-----------------------------------------------------------------------------
(* Steps of dynamic-wind *)

LEMMA WindBodyStep == ASSUME IInv, WindBody PROVE IInv'
<1> DEFINE n == Len(winds)
           m == Len(objs)
           k == Len(conts)
           w == n + 1
           new == [depth |-> Depth(curDW) + 1, parent |-> curDW,
                   before |-> call.run.before, after |-> call.run.after]
           exit == [fn |-> "WindExit", after |-> call.run.after, prev |-> curDW]
<1>1. /\ n \in Nat /\ m \in Nat /\ k \in Nat
      /\ Data /\ curDW \in 0..n
      /\ call.run \in Pending(n, m, k)
      /\ InOrder(stack, winds, conts, m)
  BY Parts
<1>2. /\ call.run.before \in Thunks(m) /\ call.run.thunk \in Thunks(m)
      /\ call.run.after \in Thunks(m)
  BY <1>1, Captures DEF WindBody, Calling
<1>3. Top(stack).at = curDW
  BY Parts DEF WindBody, Calling, Plain
<1>4. w \in Nat /\ n <= w /\ 0..n \subseteq 0..w
  BY <1>1
<1>5. /\ winds' = Append(winds, new) /\ curDW' = w
      /\ stack' = Push(stack, exit, w)
      /\ call' = Closure(call.run.thunk, w)
      /\ UNCHANGED <<bottomDW, handlers, conts, objs, env, fuel>>
  BY DEF WindBody, Apply
<1>6. winds \in Seq(Windings(n, m)) /\ WindingTree
  BY <1>1 DEF Data
<1>7. Depth(curDW) \in Nat
  <2>1. curDW # 0 => winds[curDW] \in Windings(n, m)
    BY <1>1, <1>6, ElementOfSeq
  <2> QED BY <2>1 DEF Depth, Windings
<1>8. new \in Windings(w, m)
  BY <1>1, <1>2, <1>4, <1>7 DEF Windings
<1>9. winds \in Seq(Windings(w, m))
  BY <1>1, <1>4, <1>6, TypesGrow, SeqMonotonic
<1>10. /\ winds' \in Seq(Windings(w, m)) /\ Len(winds') = w
       /\ \A i \in 1..n : winds'[i] = winds[i]
       /\ winds'[w] = new
  <2> HIDE DEF new
  <2> QED BY <1>5, <1>8, <1>9, AppendProperties
<1> HIDE DEF n, m, k, w
<1>11. GrowsTo(winds, winds') /\ GrowsTo(conts, conts) /\ m <= m
  BY <1>1, <1>4, <1>10 DEF GrowsTo, n, m, k
<1>12. conts \in Seq(SavedStacks(n, m, k)) /\ Saved(conts, winds)
  BY <1>1 DEF Data, n, m, k
<1>13. Saved(conts, winds') /\ InOrder(stack, winds', conts, m)
  <2>1. \A i \in 1..Len(conts) :
          InOrder(conts[i].stack, winds', conts, m) /\ Top(conts[i].stack).at = conts[i].dw
    BY <1>1, <1>11, <1>12, SavedGrows DEF n, k
  <2>2. InOrder(stack, winds', conts, m)
    BY <1>1, <1>11, InOrderGrows
  <2> QED BY <2>1, <2>2 DEF Saved, InOrder
<1>14. conts \in Seq(SavedStacks(w, m, k))
  BY <1>1, <1>4, <1>12, TypesGrow, SeqMonotonic
<1>15. WindingTree'
  <2>1. DOMAIN winds' = 1..w
    BY <1>10, LenProperties
  <2>2. \A j \in 0..n : (IF j = 0 THEN 0 ELSE winds'[j].depth) = Depth(j)
    BY <1>1, <1>10 DEF Depth
  <2>3. ASSUME NEW i \in 1..w
        PROVE  /\ winds'[i].parent \in 0..(i - 1)
               /\ winds'[i].depth = (IF winds'[i].parent = 0 THEN 0
                                     ELSE winds'[winds'[i].parent].depth) + 1
    <3>1. CASE i = w
      BY <3>1, <2>2, <1>1, <1>10 DEF n, w
    <3>2. CASE i # w
      <4>1. i \in 1..n /\ winds'[i] = winds[i]
        BY <3>2, <1>1, <1>10 DEF w
      <4>2. winds[i].parent \in 0..(i - 1) /\ winds[i].depth = Depth(winds[i].parent) + 1
        BY <4>1, <1>6, LenProperties DEF WindingTree, n
      <4>3. winds[i].parent \in 0..n
        BY <4>1, <4>2, <1>1
      <4> QED BY <4>1, <4>2, <4>3, <2>2
    <3> QED BY <3>1, <3>2
  <2> QED BY <2>1, <2>3 DEF WindingTree, Depth
<1>16. Data'
  BY <1>1, <1>5, <1>10, <1>13, <1>14, <1>15 DEF Data, m, k
<1>17. exit \in Continuations(w, m, k) /\ curDW \in 0..w /\ w \in 0..w /\ w # 0
  BY <1>1, <1>2, <1>4 DEF Continuations, n, w
<1>18. Placed(Closure(exit, w), winds', conts)
  BY <1>10, <1>17 DEF Placed, Closure, Up
<1>19. Above(Closure(exit, w), Top(stack))
  BY <1>3 DEF Above, LeadsTo, Closure
<1>20. InOrder(stack', winds', conts, m) /\ Top(stack').at = w
  <2>1. exit \in Continuations(Len(winds'), m, Len(conts)) /\ w \in 0..Len(winds')
    BY <1>10, <1>17 DEF k
  <2> HIDE DEF exit
  <2>2. InOrder(Push(stack, exit, w), winds', conts, m) /\ Top(Push(stack, exit, w)).at = w
    BY <2>1, <1>13, <1>18, <1>19, PushInOrder
  <2> QED BY <1>5, <2>2
<1>21. Runs(call', stack', winds', conts, m) /\ call'.at = w
  <2>1. /\ call.run.thunk \in Pending(w, m, k)
        /\ Plain(call.run.thunk) /\ call.run.thunk.fn # "Bottom"
    BY <1>1, <1>2, PlainThunks DEF Pending
  <2>2. call.run.thunk \in Pending(Len(winds'), m, Len(conts)) /\ w \in 0..Len(winds')
    BY <2>1, <1>10, <1>17 DEF k
  <2>3. /\ Runs(Closure(call.run.thunk, w), stack', winds', conts, m)
        /\ Closure(call.run.thunk, w).at = w
    BY <2>1, <2>2, <1>20, CallPlain
  <2> QED BY <2>3, <1>5
<1> QED BY <1>5, <1>16, <1>20, <1>21, Assemble DEF m

LEMMA WindExitStep == ASSUME IInv, WindExit PROVE IInv'
<1>1. /\ Data /\ InOrder(stack, winds, conts, Len(objs))
      /\ Runs(call, stack, winds, conts, Len(objs))
      /\ Len(winds) \in Nat /\ Len(conts) \in Nat /\ Len(objs) \in Nat
      /\ call.run \in Pending(Len(winds), Len(objs), Len(conts))
  BY Parts
<1>2. call.run.after \in Thunks(Len(objs)) /\ call.run.prev \in 0..Len(winds)
  BY <1>1, Captures DEF WindExit, Calling
<1>3. Data'
  BY <1>1, DataSame DEF WindExit, Data
<1>4. Top(stack).at = call.run.prev
  BY <1>1 DEF Runs, Above, LeadsTo, WindExit, Calling
<1> DEFINE t == Push(stack, [fn |-> "Forward"], call.run.prev)
<1>5. [fn |-> "Forward"] \in Continuations(Len(winds), Len(objs), Len(conts))
  BY DEF Continuations
<1>6. Plain([fn |-> "Forward"])
  BY DEF Plain
<1>7. InOrder(t, winds, conts, Len(objs)) /\ Top(t).at = call.run.prev
  BY <1>1, <1>2, <1>4, <1>5, <1>6, PushPlain
<1>8. /\ call.run.after \in Pending(Len(winds), Len(objs), Len(conts))
      /\ Plain(call.run.after) /\ call.run.after.fn # "Bottom"
  BY <1>1, <1>2, PlainThunks DEF Pending
<1>9. /\ Runs(Closure(call.run.after, call.run.prev), t, winds, conts, Len(objs))
      /\ Closure(call.run.after, call.run.prev).at = call.run.prev
  BY <1>2, <1>7, <1>8, CallPlain
<1> QED BY <1>3, <1>7, <1>9, Assemble DEF WindExit, Apply

LEMMA ForwardStep == ASSUME IInv, Forward PROVE IInv'
<1>1. Data'
  BY Parts, DataSame DEF Forward, Data
<1>2. Top(stack).at = curDW
  BY Parts DEF Forward, Calling, Plain
<1> QED BY <1>1, <1>2, ContStep DEF Forward

-----------------------------------------------------------------------------
(* Steps of TraverseWindings *)

\* What is known while a closure that names extents is about to run.
LEMMA Travelling ==
  ASSUME IInv, call.run.fn \in {"Traverse", "ContinueUp", "EnterWind", "SetDW"}
  PROVE  /\ Data /\ InOrder(stack, winds, conts, Len(objs))
         /\ Len(winds) \in Nat /\ Len(conts) \in Nat /\ Len(objs) \in Nat
         /\ curDW \in 0..Len(winds)
         /\ call.run.dest \in 0..Len(winds)
         /\ Top(stack).at = call.run.dest
         /\ call.run.fn = "Traverse" => call.run.src = curDW
         /\ call.run.fn = "ContinueUp" => /\ call.run.src \in 1..Len(winds)
                                          /\ curDW = Parent(call.run.src)
         /\ call.run.fn \in {"EnterWind", "SetDW"} =>
              call.run.dest \in 1..Len(winds) /\ curDW = Parent(call.run.dest)
<1>1. /\ Data /\ InOrder(stack, winds, conts, Len(objs))
      /\ Len(winds) \in Nat /\ Len(conts) \in Nat /\ Len(objs) \in Nat
      /\ curDW \in 0..Len(winds)
      /\ Runs(call, stack, winds, conts, Len(objs)) /\ call.at = curDW
      /\ call.run \in Pending(Len(winds), Len(objs), Len(conts))
  BY Parts
<1>2. /\ call.run.fn \in {"EnterWind", "SetDW"} => call.run.dest \in 1..Len(winds)
      /\ call.run.fn = "ContinueUp" => /\ call.run.src \in 1..Len(winds)
                                       /\ call.run.dest \in 0..Len(winds)
      /\ call.run.fn = "Traverse" => call.run.dest \in 0..Len(winds)
  BY <1>1, Captures
<1>3. Top(stack).at = call.run.dest
  BY <1>1 DEF Runs, Above, LeadsTo
<1> QED BY <1>1, <1>2, <1>3 DEF Runs, Placed, Up, Parent

\* What a winding holds.
LEMMA Winding ==
  ASSUME Data, Len(winds) \in Nat, Len(objs) \in Nat, NEW w \in 1..Len(winds)
  PROVE  /\ winds[w].before \in Thunks(Len(objs))
         /\ winds[w].after \in Thunks(Len(objs))
         /\ Parent(w) = winds[w].parent
         /\ Parent(w) \in 0..Len(winds)
         /\ Parent(w) \in 0..(w - 1)
         /\ Depth(w) \in Nat \ {0}
         /\ Depth(w) = Depth(Parent(w)) + 1
<1>1. winds \in Seq(Windings(Len(winds), Len(objs))) /\ WindingTree
  BY DEF Data
<1>2. winds[w] \in Windings(Len(winds), Len(objs))
  BY <1>1, ElementOfSeq
<1>3. winds[w].parent \in 0..(w - 1) /\ winds[w].depth = Depth(winds[w].parent) + 1
  BY <1>1, LenProperties DEF WindingTree
<1>4. w # 0
  OBVIOUS
<1> QED BY <1>2, <1>3, <1>4 DEF Windings, Parent, Depth

\* TraverseWindings is called for extents there are.
LEMMA TraverseRuns ==
  ASSUME NEW W, NEW C, NEW m, NEW s,
         NEW src \in 0..Len(W), NEW dest \in 0..Len(W), Top(s).at = dest
  PROVE  /\ Runs(Closure(Traverse(src, dest), src), s, W, C, m)
         /\ Closure(Traverse(src, dest), src).at = src
<1> DEFINE c == Closure(Traverse(src, dest), src)
<1>1. Traverse(src, dest) \in Pending(Len(W), m, Len(C))
  BY DEF Traverse, Pending
<1>2. c \in [run : Pending(Len(W), m, Len(C)), at : 0..Len(W)] /\ c.at = src
  BY <1>1 DEF Closure
<1>3. Placed(c, W, C) /\ LeadsTo(c) = dest /\ c.run.fn # "Bottom"
  BY DEF Closure, Traverse, Placed, LeadsTo
<1> QED BY <1>2, <1>3 DEF Runs, Above

LEMMA TraverseArriveStep == ASSUME IInv, TraverseArrive PROVE IInv'
<1>1. Data /\ Top(stack).at = curDW
  BY Travelling DEF TraverseArrive, Calling
<1>2. Data'
  BY <1>1, DataSame DEF TraverseArrive, Data
<1> QED BY <1>1, <1>2, ContStep DEF TraverseArrive

LEMMA TraverseDownStep == ASSUME IInv, TraverseDown PROVE IInv'
<1> DEFINE dest == call.run.dest
           enter == [fn |-> "EnterWind", dest |-> dest]
           t == Push(stack, enter, Parent(dest))
<1>1. /\ Data /\ InOrder(stack, winds, conts, Len(objs))
      /\ Len(winds) \in Nat /\ Len(conts) \in Nat /\ Len(objs) \in Nat
      /\ curDW \in 0..Len(winds) /\ dest \in 0..Len(winds)
      /\ Top(stack).at = dest /\ call.run.src = curDW
  BY Travelling DEF TraverseDown, Calling
<1>2. dest # 0
  <2>1. CASE curDW = 0
    BY <2>1, <1>1 DEF TraverseDown
  <2>2. CASE curDW # 0
    <3>1. Depth(curDW) \in Nat \ {0}
      BY <2>2, <1>1, Winding
    <3> QED BY <3>1, <1>1 DEF TraverseDown, Depth
  <2> QED BY <2>1, <2>2
<1>3. dest \in 1..Len(winds)
  BY <1>1, <1>2
<1>4. Parent(dest) \in 0..Len(winds) /\ Parent(dest) = Up(winds, dest)
  BY <1>1, <1>3, Winding DEF Up, Parent
<1>5. enter \in Continuations(Len(winds), Len(objs), Len(conts))
  BY <1>3 DEF Continuations
<1>6. Placed(Closure(enter, Parent(dest)), winds, conts)
  BY <1>4 DEF Placed, Closure
<1>7. Above(Closure(enter, Parent(dest)), Top(stack))
  BY <1>1 DEF Above, LeadsTo, Closure
<1> HIDE DEF enter
<1>8. InOrder(t, winds, conts, Len(objs)) /\ Top(t).at = Parent(dest)
  BY <1>1, <1>4, <1>5, <1>6, <1>7, PushInOrder
<1>9. /\ Runs(Closure(Traverse(curDW, Parent(dest)), curDW), t, winds, conts, Len(objs))
      /\ Closure(Traverse(curDW, Parent(dest)), curDW).at = curDW
  <2> DEFINE parent == Parent(dest)
  <2>1. curDW \in 0..Len(winds) /\ parent \in 0..Len(winds) /\ Top(t).at = parent
    BY <1>1, <1>4, <1>8
  <2> HIDE DEF t, parent
  <2>2. /\ Runs(Closure(Traverse(curDW, parent), curDW), t, winds, conts, Len(objs))
        /\ Closure(Traverse(curDW, parent), curDW).at = curDW
    BY <2>1, TraverseRuns
  <2> QED BY <2>2 DEF parent
<1>10. Data'
  BY <1>1, DataSame DEF TraverseDown, Data
<1>11. /\ stack' = t /\ call' = Closure(Traverse(curDW, Parent(dest)), curDW)
       /\ UNCHANGED <<curDW, winds, conts, objs>>
  BY <1>1 DEF TraverseDown, Apply, enter
<1> QED BY <1>8, <1>9, <1>10, <1>11, Assemble

\* TraverseWindings does not go up from the null winding.
LEMMA LeavesWinding == ASSUME IInv, TraverseUp PROVE call.run.src # 0
<1> DEFINE src == call.run.src
           dest == call.run.dest
<1>1. /\ Data /\ Len(winds) \in Nat /\ Len(objs) \in Nat
      /\ dest \in 0..Len(winds)
  BY Travelling DEF TraverseUp, Calling
<1>2. CASE dest = 0
  BY <1>2 DEF TraverseUp
<1>3. CASE dest # 0
  <2>1. Depth(dest) \in Nat \ {0}
    BY <1>3, <1>1, Winding
  <2>2. Depth(src) >= Depth(dest)
    BY DEF TraverseUp
  <2> QED BY <2>1, <2>2 DEF Depth
<1> QED BY <1>2, <1>3

LEMMA TraverseUpStep == ASSUME IInv, TraverseUp PROVE IInv'
<1> DEFINE src == call.run.src
           dest == call.run.dest
           up == [fn |-> "ContinueUp", src |-> src, dest |-> dest]
           t == Push(stack, up, Parent(src))
           after == winds[src].after
<1>1. /\ Data /\ InOrder(stack, winds, conts, Len(objs))
      /\ Len(winds) \in Nat /\ Len(conts) \in Nat /\ Len(objs) \in Nat
      /\ src \in 0..Len(winds) /\ dest \in 0..Len(winds)
      /\ Top(stack).at = dest /\ src = curDW
  BY Travelling DEF TraverseUp, Calling
<1>2. src # 0
  BY LeavesWinding
<1>3. src \in 1..Len(winds)
  BY <1>1, <1>2
<1>4. /\ Parent(src) \in 0..Len(winds) /\ Parent(src) = Up(winds, src)
      /\ after \in Thunks(Len(objs))
  BY <1>1, <1>3, Winding DEF Up, Parent
<1>5. up \in Continuations(Len(winds), Len(objs), Len(conts))
  BY <1>1, <1>3 DEF Continuations
<1>6. Placed(Closure(up, Parent(src)), winds, conts)
  BY <1>4 DEF Placed, Closure
<1>7. Above(Closure(up, Parent(src)), Top(stack))
  BY <1>1 DEF Above, LeadsTo, Closure
<1>8. InOrder(t, winds, conts, Len(objs)) /\ Top(t).at = Parent(src)
  <2> HIDE DEF up
  <2> QED BY <1>1, <1>4, <1>5, <1>6, <1>7, PushInOrder
<1>9. /\ after \in Pending(Len(winds), Len(objs), Len(conts))
      /\ Plain(after) /\ after.fn # "Bottom"
  BY <1>1, <1>4, PlainThunks DEF Pending
<1>10. Data'
  BY <1>1, DataSame DEF TraverseUp, Data
<1>11. /\ stack' = t /\ curDW' = Parent(src) /\ call' = Closure(after, Parent(src))
       /\ UNCHANGED <<winds, conts, objs>>
  BY DEF TraverseUp, Apply
<1> HIDE DEF t, after
<1>12. /\ Runs(Closure(after, Parent(src)), t, winds, conts, Len(objs))
       /\ Closure(after, Parent(src)).at = Parent(src)
  BY <1>4, <1>8, <1>9, CallPlain
<1> QED BY <1>8, <1>10, <1>11, <1>12, Assemble

LEMMA ContinueUpStep == ASSUME IInv, ContinueUp PROVE IInv'
<1>1. /\ Data /\ InOrder(stack, winds, conts, Len(objs))
      /\ curDW \in 0..Len(winds) /\ call.run.dest \in 0..Len(winds)
      /\ Top(stack).at = call.run.dest /\ curDW = Parent(call.run.src)
  BY Travelling DEF ContinueUp, Calling
<1>2. Data'
  BY <1>1, DataSame DEF ContinueUp, Data
<1>3. /\ Runs(Closure(Traverse(curDW, call.run.dest), curDW), stack, winds, conts, Len(objs))
      /\ Closure(Traverse(curDW, call.run.dest), curDW).at = curDW
  BY <1>1, TraverseRuns
<1>4. /\ call' = Closure(Traverse(curDW, call.run.dest), curDW)
      /\ UNCHANGED <<stack, curDW, winds, conts, objs>>
  BY <1>1 DEF ContinueUp, Apply
<1> QED BY <1>1, <1>2, <1>3, <1>4, Assemble

LEMMA EnterWindStep == ASSUME IInv, EnterWind PROVE IInv'
<1> DEFINE dest == call.run.dest
           set == [fn |-> "SetDW", dest |-> dest]
           t == Push(stack, set, curDW)
           before == winds[dest].before
<1>1. /\ Data /\ InOrder(stack, winds, conts, Len(objs))
      /\ Len(winds) \in Nat /\ Len(conts) \in Nat /\ Len(objs) \in Nat
      /\ curDW \in 0..Len(winds) /\ dest \in 1..Len(winds)
      /\ Top(stack).at = dest /\ curDW = Parent(dest)
  BY Travelling DEF EnterWind, Calling
<1>2. before \in Thunks(Len(objs)) /\ curDW = Up(winds, dest)
  BY <1>1, Winding DEF Up, Parent
<1>3. set \in Continuations(Len(winds), Len(objs), Len(conts))
  BY <1>1 DEF Continuations
<1>4. Placed(Closure(set, curDW), winds, conts)
  BY <1>2 DEF Placed, Closure
<1>5. Above(Closure(set, curDW), Top(stack))
  BY <1>1 DEF Above, LeadsTo, Closure
<1>6. InOrder(t, winds, conts, Len(objs)) /\ Top(t).at = curDW
  <2> HIDE DEF set
  <2> QED BY <1>1, <1>3, <1>4, <1>5, PushInOrder
<1>7. /\ before \in Pending(Len(winds), Len(objs), Len(conts))
      /\ Plain(before) /\ before.fn # "Bottom"
  BY <1>1, <1>2, PlainThunks DEF Pending
<1>8. Data'
  BY <1>1, DataSame DEF EnterWind, Data
<1>9. /\ stack' = t /\ call' = Closure(before, curDW)
      /\ UNCHANGED <<curDW, winds, conts, objs>>
  BY DEF EnterWind, Apply
<1> HIDE DEF t, before
<1>10. /\ Runs(Closure(before, curDW), t, winds, conts, Len(objs))
       /\ Closure(before, curDW).at = curDW
  BY <1>1, <1>6, <1>7, CallPlain
<1> QED BY <1>6, <1>8, <1>9, <1>10, Assemble

LEMMA SetDWStep == ASSUME IInv, SetDW PROVE IInv'
<1>1. Data /\ Top(stack).at = call.run.dest
  BY Travelling DEF SetDW, Calling
<1>2. Data'
  BY <1>1, DataSame DEF SetDW, Data
<1> QED BY <1>1, <1>2, ContStep DEF SetDW

-----------------------------------------------------------------------------
(* Steps of escape procedures *)

\* What a saved continuation holds.
LEMMA SavedCont ==
  ASSUME Data, NEW k \in 1..Len(conts)
  PROVE  /\ InOrder(conts[k].stack, winds, conts, Len(objs))
         /\ conts[k].dw \in 0..Len(winds)
         /\ Top(conts[k].stack).at = conts[k].dw
<1>1. conts \in Seq(SavedStacks(Len(winds), Len(objs), Len(conts))) /\ Saved(conts, winds)
  BY DEF Data
<1>2. conts[k] \in SavedStacks(Len(winds), Len(objs), Len(conts))
  BY <1>1, ElementOfSeq
<1> QED BY <1>1, <1>2 DEF Saved, SavedStacks, InOrder

LEMMA CallEscapeStep == ASSUME IInv, CallEscape PROVE IInv'
<1> DEFINE k == call.run.k
           dw == conts[k].dw
           restore == [fn |-> "Restore", k |-> k]
           t == Push(stack, restore, dw)
<1>1. /\ Data /\ InOrder(stack, winds, conts, Len(objs))
      /\ Len(winds) \in Nat /\ Len(conts) \in Nat /\ Len(objs) \in Nat
      /\ curDW \in 0..Len(winds)
      /\ call.run \in Pending(Len(winds), Len(objs), Len(conts))
  BY Parts
<1>2. k \in 1..Len(conts)
  BY <1>1, Captures DEF CallEscape, Calling
<1>3. dw \in 0..Len(winds)
  BY <1>1, <1>2, SavedCont
<1>4. restore \in Continuations(Len(winds), Len(objs), Len(conts))
  BY <1>2 DEF Continuations
<1>5. Placed(Closure(restore, dw), winds, conts) /\ Above(Closure(restore, dw), Top(stack))
  BY DEF Placed, Above, Closure
<1> HIDE DEF restore, dw
<1>6. InOrder(t, winds, conts, Len(objs)) /\ Top(t).at = dw
  BY <1>1, <1>3, <1>4, <1>5, PushInOrder
<1>7. /\ Runs(Closure(Traverse(curDW, dw), curDW), t, winds, conts, Len(objs))
      /\ Closure(Traverse(curDW, dw), curDW).at = curDW
  <2> HIDE DEF t
  <2> QED BY <1>1, <1>3, <1>6, TraverseRuns
<1>8. Data'
  BY <1>1, DataSame DEF CallEscape, Data
<1>9. /\ stack' = t /\ call' = Closure(Traverse(curDW, dw), curDW)
      /\ UNCHANGED <<curDW, winds, conts, objs>>
  BY DEF CallEscape, Apply, restore, dw
<1> QED BY <1>6, <1>7, <1>8, <1>9, Assemble

LEMMA RestoreStep == ASSUME IInv, Restore PROVE IInv'
<1> DEFINE k == call.run.k
           s == conts[k].stack
<1>1. /\ Data /\ Len(winds) \in Nat /\ Len(conts) \in Nat /\ Len(objs) \in Nat
      /\ Runs(call, stack, winds, conts, Len(objs)) /\ call.at = curDW
      /\ call.run \in Pending(Len(winds), Len(objs), Len(conts))
  BY Parts
<1>2. k \in 1..Len(conts)
  BY <1>1, Captures DEF Restore, Calling
<1>3. InOrder(s, winds, conts, Len(objs)) /\ Top(s).at = conts[k].dw
  BY <1>1, <1>2, SavedCont
<1>4. curDW = conts[k].dw
  BY <1>1 DEF Runs, Placed, Restore, Calling
<1>5. /\ stack' = Pop(s) /\ call' = Top(s) /\ UNCHANGED <<curDW, winds, conts, objs>>
  BY DEF Restore, Cont
<1> HIDE DEF s
<1>6. InOrder(Pop(s), winds, conts, Len(objs)) /\ Runs(Top(s), Pop(s), winds, conts, Len(objs))
  BY <1>1, <1>3, ContRuns
<1>7. Data'
  BY <1>1, DataSame DEF Restore, Data
<1> QED BY <1>3, <1>4, <1>5, <1>6, <1>7, Assemble

-----------------------------------------------------------------------------
(* Steps of exceptions *)

\* What is known while a plain closure is about to run.
LEMMA PlainRunning ==
  ASSUME IInv, Plain(call.run)
  PROVE  /\ Data /\ InOrder(stack, winds, conts, Len(objs))
         /\ Len(winds) \in Nat /\ Len(conts) \in Nat /\ Len(objs) \in Nat
         /\ curDW \in 0..Len(winds) /\ Top(stack).at = curDW
         /\ call.run \in Pending(Len(winds), Len(objs), Len(conts))
         /\ fuel \in 0..MaxOps
         /\ handlers \in Seq(Handlers(Len(objs)))
         /\ objs \in Seq(Objects(Len(objs)))
BY Parts DEF Data

LEMMA CallSetHandlersStep == ASSUME IInv, CallSetHandlers PROVE IInv'
<1>1. Plain(call.run)
  BY DEF CallSetHandlers, Calling, Plain
<1>2. call.run.hs \in Seq(Handlers(Len(objs)))
  BY <1>1, PlainRunning, Captures DEF CallSetHandlers, Calling
<1>3. Data'
  BY <1>1, <1>2, PlainRunning, DataKept DEF CallSetHandlers, Data
<1> QED BY <1>1, <1>3, PlainRunning, ContStep DEF CallSetHandlers

LEMMA RaiseIsPending ==
  ASSUME NEW n, NEW m, NEW k
  PROVE  Raise \in Pending(n, m, k) /\ Plain(Raise) /\ Raise.fn # "Bottom"
BY DEF Raise, Pending, Plain

LEMMA RaiseUncaughtStep == ASSUME IInv, RaiseUncaught PROVE IInv'
<1>1. Plain(call.run)
  BY DEF RaiseUncaught, Calling, Plain
<1>2. /\ Data /\ curDW \in 0..Len(winds)
      /\ Len(winds) \in Nat /\ bottomDW = 0
  BY <1>1, PlainRunning DEF Data
<1>3. InOrder(<<>>, winds, conts, Len(objs)) /\ Top(<<>>).at = 0 /\ 0 \in 0..Len(winds)
  BY <1>2, EmptySeq DEF InOrder, Stacked, Top, Bottom, Closure
<1>4. /\ Runs(Closure(Traverse(curDW, 0), curDW), <<>>, winds, conts, Len(objs))
      /\ Closure(Traverse(curDW, 0), curDW).at = curDW
  BY <1>2, <1>3, TraverseRuns
<1>5. Data'
  BY <1>2, DataSame DEF RaiseUncaught, Data
<1> QED BY <1>2, <1>3, <1>4, <1>5, Assemble DEF RaiseUncaught, Apply

\* The handler called for an error and those in place while it runs.
LEMMA HandlerToCall ==
  ASSUME NEW m \in Nat, handlers \in Seq(Handlers(m)), IsPair(handlers),
         NEW continuable \in BOOLEAN
  PROVE  /\ Tail(handlers) \in Seq(Handlers(m))
         /\ HandlerThunk(Head(handlers), continuable) \in Thunks(m)
<1>1. Head(handlers) \in Handlers(m) /\ Tail(handlers) \in Seq(Handlers(m))
  BY HeadTailProperties DEF IsPair
<1> QED BY <1>1 DEF HandlerThunk, Thunks

LEMMA RaiseToHandlerStep == ASSUME IInv, RaiseToHandler PROVE IInv'
<1>1. Plain(call.run)
  BY DEF RaiseToHandler, Calling, Plain
<1>2. Data'
  BY <1>1, PlainRunning, DataSame DEF RaiseToHandler
<1>3. /\ Tail(handlers) \in Seq(Handlers(Len(objs)))
      /\ HandlerThunk(Head(handlers), FALSE) \in Thunks(Len(objs))
  BY <1>1, PlainRunning, HandlerToCall DEF RaiseToHandler
<1>4. /\ WithExceptionHandlers(stack, Tail(handlers), HandlerThunk(Head(handlers), FALSE))
      /\ UNCHANGED <<curDW, winds, conts, objs>>
  BY DEF RaiseToHandler
<1>5. Len(objs) \in Nat /\ Len(objs) <= Len(objs) /\ Len(objs') = Len(objs)
  BY <1>1, <1>4, PlainRunning
<1> QED BY <1>1, <1>2, <1>3, <1>4, <1>5, PlainRunning, WithHandlersStep

LEMMA CallHandlerThunkStep == ASSUME IInv, CallHandlerThunk PROVE IInv'
<1> DEFINE again == [fn |-> "RaiseAgain"]
<1>1. Plain(call.run)
  BY DEF CallHandlerThunk, Calling, Plain
<1>2. Data'
  BY <1>1, PlainRunning, DataSame DEF CallHandlerThunk
<1>3. /\ call.run.h \in Pending(Len(winds), Len(objs), Len(conts))
      /\ Plain(call.run.h) /\ call.run.h.fn # "Bottom"
  <2>1. call.run.h \in Handlers(Len(objs))
    BY <1>1, PlainRunning, Captures DEF CallHandlerThunk, Calling
  <2> QED BY <2>1, <1>1, PlainRunning, PlainThunks DEF Pending
<1>4. again \in Continuations(Len(winds), Len(objs), Len(conts)) /\ Plain(again)
  BY DEF Continuations, Plain
<1>5. Apply(call.run.h, curDW) /\ UNCHANGED <<curDW, winds, conts, objs>>
  BY DEF CallHandlerThunk
<1>6. CASE call.run.continuable
  <2>1. stack' = stack
    BY <1>6 DEF CallHandlerThunk
  <2> QED BY <2>1, <1>1, <1>2, <1>3, <1>5, CallStep
<1>7. CASE ~call.run.continuable
  <2>1. stack' = Push(stack, again, curDW)
    BY <1>7 DEF CallHandlerThunk
  <2> HIDE DEF again
  <2> QED BY <2>1, <1>1, <1>2, <1>3, <1>4, <1>5, PushCallStep
<1> QED BY <1>6, <1>7

LEMMA RaiseAgainStep == ASSUME IInv, RaiseAgain PROVE IInv'
<1>1. Plain(call.run)
  BY DEF RaiseAgain, Calling, Plain
<1>2. Data'
  BY <1>1, PlainRunning, DataSame DEF RaiseAgain
<1> QED BY <1>1, <1>2, RaiseIsPending, CallStep DEF RaiseAgain

\* RaiseContinuable(s) for a stack s with the current extent on top.
LEMMA RaiseContinuableStep ==
  ASSUME IInv, Data', UNCHANGED <<curDW, winds, conts>>, Len(objs') = Len(objs),
         NEW s, InOrder(s, winds, conts, Len(objs)), Top(s).at = curDW,
         RaiseContinuable(s)
  PROVE  IInv'
<1>1. /\ handlers \in Seq(Handlers(Len(objs)))
      /\ Len(objs) \in Nat /\ Len(objs) <= Len(objs) /\ curDW \in 0..Len(winds)
  BY Parts DEF Data
<1>2. CASE IsPair(handlers)
  <2>1. /\ Tail(handlers) \in Seq(Handlers(Len(objs)))
        /\ HandlerThunk(Head(handlers), TRUE) \in Thunks(Len(objs))
    BY <1>1, <1>2, HandlerToCall
  <2>2. WithExceptionHandlers(s, Tail(handlers), HandlerThunk(Head(handlers), TRUE))
    BY <1>2 DEF RaiseContinuable
  <2> QED BY <1>1, <2>1, <2>2, WithHandlersStep
<1>3. CASE ~IsPair(handlers)
  <2>1. stack' = s /\ call' = Closure(Raise, curDW)
    BY <1>3 DEF RaiseContinuable, Apply
  <2>2. /\ Runs(Closure(Raise, curDW), s, winds, conts, Len(objs))
        /\ Closure(Raise, curDW).at = curDW
    <3>1. /\ Raise \in Pending(Len(winds), Len(objs), Len(conts))
          /\ Plain(Raise) /\ Raise.fn # "Bottom"
      BY RaiseIsPending
    <3> QED BY <3>1, <1>1, CallPlain
  <2> QED BY <2>1, <2>2, Assemble
<1> QED BY <1>2, <1>3

-----------------------------------------------------------------------------
(* Steps of managed objects *)

\* What is known while a closure of an object is about to run.
LEMMA OfAnObject ==
  ASSUME IInv,
         call.run.fn \in {"ClearMark", "Destroy", "SafeBefore", "SafeAfter",
                          "ErrorThunk", "ErrorHandler"}
  PROVE  /\ Plain(call.run)
         /\ call.run.o \in 1..Len(objs)
         /\ objs \in Seq(Objects(Len(objs)))
         /\ objs[call.run.o] \in Objects(Len(objs))
<1>1. Plain(call.run)
  BY DEF Plain
<1>2. call.run.o \in 1..Len(objs)
  BY <1>1, PlainRunning, Captures
<1>3. objs \in Seq(Objects(Len(objs)))
  BY <1>1, PlainRunning
<1> QED BY <1>1, <1>2, <1>3, ElementOfSeq

\* Destroying or marking an object keeps the objects well typed.
LEMMA ObjectChanged ==
  ASSUME NEW m \in Nat, objs \in Seq(Objects(m)), NEW o \in 1..Len(objs),
         NEW b \in BOOLEAN
  PROVE  /\ [objs EXCEPT ![o].alive = b] \in Seq(Objects(m))
         /\ Len([objs EXCEPT ![o].alive = b]) = Len(objs)
         /\ [objs EXCEPT ![o].isError = b] \in Seq(Objects(m))
         /\ Len([objs EXCEPT ![o].isError = b]) = Len(objs)
<1>1. objs[o] \in Objects(m)
  BY ElementOfSeq
<1>2. [objs[o] EXCEPT !.alive = b] \in Objects(m)
  BY <1>1 DEF Objects
<1>3. [objs[o] EXCEPT !.isError = b] \in Objects(m)
  BY <1>1 DEF Objects
<1>4. /\ [objs EXCEPT ![o] = [objs[o] EXCEPT !.alive = b]] \in Seq(Objects(m))
      /\ Len([objs EXCEPT ![o] = [objs[o] EXCEPT !.alive = b]]) = Len(objs)
  BY <1>2, ExceptSeq
<1>5. /\ [objs EXCEPT ![o] = [objs[o] EXCEPT !.isError = b]] \in Seq(Objects(m))
      /\ Len([objs EXCEPT ![o] = [objs[o] EXCEPT !.isError = b]]) = Len(objs)
  BY <1>3, ExceptSeq
<1> QED BY <1>4, <1>5

LEMMA ErrorThunkStep == ASSUME IInv, ErrorThunk PROVE IInv'
<1> DEFINE o == call.run.o
           m == Len(objs)
<1>1. Plain(call.run) /\ o \in 1..m
  BY OfAnObject DEF ErrorThunk, Calling
<1>2. Data'
  BY <1>1, PlainRunning, DataSame DEF ErrorThunk
<1>3. /\ OfObject("SafeBefore", o) \in Thunks(m)
      /\ OfObject("SafeAfter", o) \in Thunks(m)
      /\ User("thunk") \in Thunks(m)
  BY <1>1 DEF OfObject, User, Roles, Thunks
<1>4. /\ DynamicWind(stack, OfObject("SafeBefore", o), User("thunk"), OfObject("SafeAfter", o))
      /\ UNCHANGED <<curDW, winds, conts, objs>>
  BY DEF ErrorThunk
<1>5. m \in Nat /\ Len(objs') = m
  BY <1>1, <1>4, PlainRunning
<1> QED BY <1>1, <1>2, <1>3, <1>4, <1>5, PlainRunning, DynamicWindStep

LEMMA SafeBeforeStep == ASSUME IInv, SafeBefore PROVE IInv'
<1> DEFINE obj == objs[call.run.o]
           p == IF obj.alive THEN obj.before ELSE Raise
<1>1. Plain(call.run) /\ obj \in Objects(Len(objs))
  BY OfAnObject DEF SafeBefore, Calling
<1>2. Data'
  BY <1>1, PlainRunning, DataSame DEF SafeBefore
<1>3. obj.before \in Thunks(Len(objs))
  BY <1>1 DEF Objects
<1>4. p \in Pending(Len(winds), Len(objs), Len(conts)) /\ Plain(p) /\ p.fn # "Bottom"
  <2>1. CASE obj.alive
    <3>1. p = obj.before
      BY <2>1
    <3> QED BY <3>1, <1>1, <1>3, PlainRunning, PlainThunks DEF Pending
  <2>2. CASE ~obj.alive
    BY <2>2, RaiseIsPending
  <2> QED BY <2>1, <2>2
<1>5. Apply(p, curDW) /\ UNCHANGED <<stack, curDW, winds, conts, objs>>
  BY DEF SafeBefore
<1> HIDE DEF p
<1> QED BY <1>1, <1>2, <1>4, <1>5, CallStep

LEMMA SafeAfterStep == ASSUME IInv, SafeAfter PROVE IInv'
<1> DEFINE o == call.run.o
           p == objs[o].after
           destroy == OfObject("Destroy", o)
<1>1. Plain(call.run) /\ o \in 1..Len(objs) /\ objs[o] \in Objects(Len(objs))
  BY OfAnObject DEF SafeAfter, Calling
<1>2. Data'
  BY <1>1, PlainRunning, DataSame DEF SafeAfter
<1>3. p \in Pending(Len(winds), Len(objs), Len(conts)) /\ Plain(p) /\ p.fn # "Bottom"
  <2>1. p \in Thunks(Len(objs))
    BY <1>1 DEF Objects
  <2> QED BY <2>1, <1>1, PlainRunning, PlainThunks DEF Pending
<1>4. destroy \in Continuations(Len(winds), Len(objs), Len(conts)) /\ Plain(destroy)
  BY <1>1 DEF OfObject, Continuations, Plain
<1>5. Apply(p, curDW) /\ UNCHANGED <<curDW, winds, conts, objs>>
  BY DEF SafeAfter
<1>6. stack' = IF objs[o].isError THEN Push(stack, destroy, curDW) ELSE stack
  BY DEF SafeAfter
<1> HIDE DEF p, destroy
<1>7. CASE objs[o].isError
  BY <1>1, <1>2, <1>3, <1>4, <1>5, <1>6, <1>7, PushCallStep
<1>8. CASE ~objs[o].isError
  BY <1>1, <1>2, <1>3, <1>5, <1>6, <1>8, CallStep
<1> QED BY <1>7, <1>8

LEMMA ErrorHandlerStep == ASSUME IInv, ErrorHandler PROVE IInv'
<1> DEFINE o == call.run.o
           clear == OfObject("ClearMark", o)
           s == Push(stack, clear, curDW)
<1>1. /\ Plain(call.run) /\ o \in 1..Len(objs) /\ objs \in Seq(Objects(Len(objs)))
      /\ Len(objs) \in Nat
  BY OfAnObject, Parts DEF ErrorHandler, Calling
<1>2. objs' \in Seq(Objects(Len(objs))) /\ Len(objs') = Len(objs)
  BY <1>1, ObjectChanged DEF ErrorHandler
<1>3. Data'
  BY <1>1, <1>2, PlainRunning, DataKept DEF ErrorHandler, Data
<1>4. clear \in Continuations(Len(winds), Len(objs), Len(conts)) /\ Plain(clear)
  BY <1>1 DEF OfObject, Continuations, Plain
<1> HIDE DEF clear
<1>5. InOrder(s, winds, conts, Len(objs)) /\ Top(s).at = curDW
  BY <1>1, <1>4, PlainRunning, PushPlain
<1>6. RaiseContinuable(s) /\ UNCHANGED <<curDW, winds, conts>>
  BY DEF ErrorHandler, clear
<1> HIDE DEF s
<1> QED BY <1>2, <1>3, <1>5, <1>6, RaiseContinuableStep

LEMMA ClearMarkStep == ASSUME IInv, ClearMark PROVE IInv'
<1>1. /\ Plain(call.run) /\ call.run.o \in 1..Len(objs)
      /\ objs \in Seq(Objects(Len(objs))) /\ Len(objs) \in Nat
  BY OfAnObject, Parts DEF ClearMark, Calling
<1>2. objs' \in Seq(Objects(Len(objs))) /\ Len(objs') = Len(objs)
  BY <1>1, ObjectChanged DEF ClearMark
<1>3. Data'
  BY <1>1, <1>2, PlainRunning, DataKept DEF ClearMark, Data
<1> QED BY <1>1, <1>2, <1>3, PlainRunning, ContStep DEF ClearMark

LEMMA DestroyStep == ASSUME IInv, Destroy PROVE IInv'
<1>1. /\ Plain(call.run) /\ call.run.o \in 1..Len(objs)
      /\ objs \in Seq(Objects(Len(objs))) /\ Len(objs) \in Nat
  BY OfAnObject, Parts DEF Destroy, Calling
<1>2. objs' \in Seq(Objects(Len(objs))) /\ Len(objs') = Len(objs)
  BY <1>1, ObjectChanged DEF Destroy
<1>3. Data'
  BY <1>1, <1>2, PlainRunning, DataKept DEF Destroy, Data
<1> QED BY <1>1, <1>2, <1>3, PlainRunning, ContStep DEF Destroy

LEMMA DestroyAgainStep == ASSUME IInv, DestroyAgain PROVE IInv'
<1>1. Plain(call.run)
  BY DEF DestroyAgain, Calling, Plain
<1>2. Data'
  BY <1>1, PlainRunning, DataSame DEF DestroyAgain
<1> QED BY <1>1, <1>2, RaiseIsPending, CallStep DEF DestroyAgain

LEMMA CallSetEnvStep == ASSUME IInv, CallSetEnv PROVE IInv'
<1>1. Plain(call.run)
  BY DEF CallSetEnv, Calling, Plain
<1>2. call.run.e \in 0..Len(objs)
  BY <1>1, PlainRunning, Captures DEF CallSetEnv, Calling
<1>3. Data'
  BY <1>1, <1>2, PlainRunning, DataKept DEF CallSetEnv, Data
<1> QED BY <1>1, <1>3, PlainRunning, ContStep DEF CallSetEnv

-----------------------------------------------------------------------------
(* Steps of user code *)

\* User procedures may be called anywhere and be on the stack anywhere.
LEMMA Users ==
  ASSUME NEW n, NEW m, NEW k, NEW role \in Roles
  PROVE  /\ User(role) \in Handlers(m)
         /\ User(role) \in Thunks(m)
         /\ User(role) \in Continuations(n, m, k)
         /\ User(role) \in Pending(n, m, k)
         /\ Plain(User(role)) /\ User(role).fn # "Bottom"
<1>1. User(role) \in Handlers(m)
  BY DEF User, Handlers
<1>2. User(role) \in Thunks(m)
  BY DEF User, Thunks
<1>3. User(role) \in Continuations(n, m, k)
  BY DEF User, Continuations
<1> QED BY <1>1, <1>2, <1>3 DEF Pending, Plain, User

\* What is known while user code is about to run.
LEMMA InUser ==
  ASSUME IInv, Calling("User")
  PROVE  /\ Plain(call.run) /\ Data
         /\ InOrder(stack, winds, conts, Len(objs))
         /\ Len(winds) \in Nat /\ Len(conts) \in Nat /\ Len(objs) \in Nat
         /\ curDW \in 0..Len(winds) /\ Top(stack).at = curDW
         /\ InOrder(Here, winds, conts, Len(objs)) /\ Top(Here).at = curDW
         /\ fuel \in 0..MaxOps /\ (fuel > 0 => fuel - 1 \in 0..MaxOps)
<1>1. Plain(call.run)
  BY DEF Calling, Plain
<1>2. /\ Data /\ InOrder(stack, winds, conts, Len(objs))
      /\ Len(winds) \in Nat /\ Len(conts) \in Nat /\ Len(objs) \in Nat
      /\ curDW \in 0..Len(winds) /\ Top(stack).at = curDW
      /\ fuel \in 0..MaxOps
  BY <1>1, PlainRunning
<1>3. User("main") \in Continuations(Len(winds), Len(objs), Len(conts)) /\ Plain(User("main"))
  BY Users DEF Roles
<1>4. InOrder(Here, winds, conts, Len(objs)) /\ Top(Here).at = curDW
  BY <1>2, <1>3, PushPlain DEF Here
<1>5. fuel > 0 => fuel - 1 \in 0..MaxOps
  BY <1>2, OpsAssumption
<1> QED BY <1>1, <1>2, <1>4, <1>5

LEMMA UserReturnStep == ASSUME IInv, UserReturn PROVE IInv'
<1>1. Data /\ Top(stack).at = curDW /\ fuel \in 0..MaxOps
  BY InUser DEF UserReturn
<1>2. Data'
  BY <1>1, DataSame DEF UserReturn
<1> QED BY <1>1, <1>2, ContStep DEF UserReturn

LEMMA UserWindStep == ASSUME IInv, UserWind PROVE IInv'
<1>1. Data'
  BY InUser, DataSame DEF UserWind, Use
<1>2. /\ User("before") \in Thunks(Len(objs)) /\ User("thunk") \in Thunks(Len(objs))
      /\ User("after") \in Thunks(Len(objs))
  BY Users DEF Roles
<1>3. /\ Len(objs) \in Nat /\ Len(objs') = Len(objs)
      /\ InOrder(Here, winds, conts, Len(objs)) /\ Top(Here).at = curDW
      /\ UNCHANGED <<curDW, winds, conts>>
      /\ DynamicWind(Here, User("before"), User("thunk"), User("after"))
  BY InUser DEF UserWind, Use
<1> QED BY <1>1, <1>2, <1>3, DynamicWindStep

LEMMA UserCallCCStep == ASSUME IInv, UserCallCC PROVE IInv'
<1> DEFINE n == Len(winds)
           m == Len(objs)
           k == Len(conts)
           saved == [stack |-> Here, dw |-> curDW]
<1>1. /\ Data /\ n \in Nat /\ m \in Nat /\ k \in Nat
      /\ curDW \in 0..n
      /\ InOrder(Here, winds, conts, m) /\ Top(Here).at = curDW
      /\ fuel - 1 \in 0..MaxOps
  BY InUser DEF UserCallCC, Use
<1>2. /\ conts' = Append(conts, saved) /\ stack' = Here
      /\ call' = Closure(User("thunk"), curDW)
      /\ UNCHANGED <<curDW, bottomDW, winds, handlers, objs, env>>
      /\ fuel' = fuel - 1
  BY DEF UserCallCC, Use, Apply
<1>3. conts \in Seq(SavedStacks(n, m, k)) /\ Saved(conts, winds)
  BY <1>1 DEF Data
<1>4. k + 1 \in Nat /\ k <= k + 1 /\ n <= n /\ m <= m
  BY <1>1
<1>5. Here \in Seq(Frames(n, m, k))
  BY <1>1 DEF InOrder
<1>6. conts \in Seq(SavedStacks(n, m, k + 1)) /\ Here \in Seq(Frames(n, m, k + 1))
  <2> DEFINE k2 == k + 1
  <2>1. k2 \in Nat /\ k <= k2
    BY <1>4
  <2> HIDE DEF n, m, k, k2
  <2>2. /\ Seq(SavedStacks(n, m, k)) \subseteq Seq(SavedStacks(n, m, k2))
        /\ Seq(Frames(n, m, k)) \subseteq Seq(Frames(n, m, k2))
    BY <1>1, <1>4, <2>1, SeqsGrow
  <2> QED BY <1>3, <1>5, <2>2 DEF k2
<1>7. saved \in SavedStacks(n, m, k + 1)
  BY <1>1, <1>6 DEF SavedStacks
<1>8. /\ conts' \in Seq(SavedStacks(n, m, k + 1)) /\ Len(conts') = k + 1
      /\ \A i \in 1..k : conts'[i] = conts[i]
      /\ conts'[k + 1] = saved
  <2> HIDE DEF saved
  <2> QED BY <1>2, <1>6, <1>7, AppendProperties
<1>9. GrowsTo(winds, winds) /\ GrowsTo(conts, conts') /\ m <= m
  BY <1>1, <1>4, <1>8 DEF GrowsTo
<1>10. InOrder(Here, winds, conts', m)
  <2> HIDE DEF n, m, k
  <2> QED BY <1>1, <1>9, InOrderGrows
<1>11. Saved(conts', winds)
  <2>1. \A i \in 1..k : InOrder(conts'[i].stack, winds, conts', m)
                        /\ Top(conts'[i].stack).at = conts'[i].dw
    <3>1. conts \in Seq(SavedStacks(Len(winds), m, Len(conts)))
      BY <1>3
    <3> HIDE DEF m
    <3>2. \A i \in 1..Len(conts) : InOrder(conts'[i].stack, winds, conts', m)
                                   /\ Top(conts'[i].stack).at = conts'[i].dw
      BY <1>1, <1>3, <1>9, <3>1, SavedGrows
    <3> QED BY <3>2
  <2>2. InOrder(conts'[k + 1].stack, winds, conts', m)
        /\ Top(conts'[k + 1].stack).at = conts'[k + 1].dw
    BY <1>1, <1>8, <1>10
  <2>3. \A i \in 1..Len(conts') : i \in 1..k \/ i = k + 1
    BY <1>1, <1>8
  <2> QED BY <2>1, <2>2, <2>3 DEF Saved, InOrder
<1>12. WindingTree'
  BY <1>1, <1>2 DEF Data, WindingTree, Depth
<1>13. Data'
  BY <1>1, <1>2, <1>8, <1>11, <1>12 DEF Data
<1>14. User("thunk") \in Pending(n, m, Len(conts'))
       /\ Plain(User("thunk")) /\ User("thunk").fn # "Bottom"
  BY Users DEF Roles
<1>15. /\ Runs(Closure(User("thunk"), curDW), Here, winds, conts', m)
       /\ Closure(User("thunk"), curDW).at = curDW
  BY <1>1, <1>14, CallPlain
<1> QED BY <1>2, <1>10, <1>13, <1>15, Assemble

LEMMA UserThrowStep == ASSUME IInv, UserThrow PROVE IInv'
<1>1. Data'
  BY InUser, DataSame DEF UserThrow, Use
<1>2. PICK k \in DOMAIN conts : Apply(Escape(k), curDW)
  BY DEF UserThrow
<1>3. k \in 1..Len(conts)
  BY <1>2, InUser, LenProperties DEF UserThrow, Use, Data
<1>4. /\ Escape(k) \in Pending(Len(winds), Len(objs), Len(conts))
      /\ Plain(Escape(k)) /\ Escape(k).fn # "Bottom"
  BY <1>3 DEF Escape, Pending, Plain
<1>5. Plain(call.run) /\ UNCHANGED <<stack, curDW, winds, conts, objs>>
  BY InUser DEF UserThrow, Use
<1> QED BY <1>1, <1>2, <1>4, <1>5, CallStep

LEMMA UserRaiseStep == ASSUME IInv, UserRaise PROVE IInv'
<1>1. Data'
  BY InUser, DataSame DEF UserRaise, Use
<1>2. Plain(call.run) /\ UNCHANGED <<stack, curDW, winds, conts, objs>> /\ Apply(Raise, curDW)
  BY InUser DEF UserRaise, Use
<1> QED BY <1>1, <1>2, RaiseIsPending, CallStep

LEMMA UserRaiseContinuableStep == ASSUME IInv, UserRaiseContinuable PROVE IInv'
<1>1. Data'
  BY InUser, DataSame DEF UserRaiseContinuable, Use
<1>2. /\ InOrder(Here, winds, conts, Len(objs)) /\ Top(Here).at = curDW
      /\ UNCHANGED <<curDW, winds, conts, objs>> /\ RaiseContinuable(Here)
  BY InUser DEF UserRaiseContinuable, Use
<1> QED BY <1>1, <1>2, RaiseContinuableStep

LEMMA UserHandlerStep == ASSUME IInv, UserHandler PROVE IInv'
<1> DEFINE m == Len(objs)
           hs == <<User("handler")>> \o handlers
<1>1. Data'
  BY InUser, DataSame DEF UserHandler, Use
<1>2. /\ m \in Nat /\ m <= m /\ Len(objs') = m
      /\ InOrder(Here, winds, conts, m) /\ Top(Here).at = curDW
      /\ UNCHANGED <<curDW, winds, conts>>
      /\ WithExceptionHandlers(Here, hs, User("thunk"))
  BY InUser DEF UserHandler, Use
<1>3. User("thunk") \in Thunks(m) /\ User("handler") \in Handlers(m)
  BY Users DEF Roles
<1>4. <<User("handler")>> \in Seq(Handlers(m)) /\ handlers \in Seq(Handlers(m))
  BY <1>3, InUser DEF UserHandler, Use, Data
<1>5. hs \in Seq(Handlers(m))
  BY <1>4, ConcatProperties
<1> HIDE DEF hs
<1> QED BY <1>1, <1>2, <1>3, <1>5, WithHandlersStep

\* ManagedObjectWind in user code, with thunks that may refer to the new object.
LEMMA ManagedStep ==
  ASSUME IInv, NEW op, Use(op), UNCHANGED conts,
         NEW before \in Thunks(Len(objs) + 1), NEW after \in Thunks(Len(objs) + 1),
         ManagedObjectWind(Here, before, after)
  PROVE  IInv'
<1> DEFINE n == Len(winds)
           m == Len(objs)
           k == Len(conts)
           o == m + 1
           obj == [alive |-> TRUE, isError |-> FALSE, before |-> before, after |-> after]
           destroy == OfObject("Destroy", o)
           s == Push(Here, destroy, curDW)
           hs == <<OfObject("ErrorHandler", o)>> \o handlers
<1>1. /\ Data /\ n \in Nat /\ m \in Nat /\ k \in Nat
      /\ curDW \in 0..n
      /\ InOrder(Here, winds, conts, m) /\ Top(Here).at = curDW
      /\ fuel - 1 \in 0..MaxOps
  BY InUser DEF Use
<1>2. /\ UNCHANGED <<curDW, bottomDW, winds, handlers, env, conts>>
      /\ fuel' = fuel - 1
      /\ objs' = Append(objs, obj)
      /\ WithExceptionHandlers(s, hs, OfObject("ErrorThunk", o))
  BY DEF Use, ManagedObjectWind
<1>3. o \in Nat /\ m <= o /\ o \in 1..o
  BY <1>1
<1>4. /\ objs \in Seq(Objects(o)) /\ handlers \in Seq(Handlers(o))
      /\ winds \in Seq(Windings(n, o)) /\ conts \in Seq(SavedStacks(n, o, k))
  <2>1. /\ objs \in Seq(Objects(m)) /\ handlers \in Seq(Handlers(m))
        /\ winds \in Seq(Windings(n, m)) /\ conts \in Seq(SavedStacks(n, m, k))
        /\ n <= n /\ k <= k
    BY <1>1 DEF Data
  <2> HIDE DEF n, m, k, o
  <2>2. /\ Seq(Objects(m)) \subseteq Seq(Objects(o))
        /\ Seq(Handlers(m)) \subseteq Seq(Handlers(o))
        /\ Seq(Windings(n, m)) \subseteq Seq(Windings(n, o))
        /\ Seq(SavedStacks(n, m, k)) \subseteq Seq(SavedStacks(n, o, k))
    BY <1>1, <1>3, <2>1, SeqsGrow
  <2> QED BY <2>1, <2>2
<1>5. obj \in Objects(o)
  BY DEF Objects
<1>6. objs' \in Seq(Objects(o)) /\ Len(objs') = o
  <2> HIDE DEF obj
  <2> QED BY <1>2, <1>4, <1>5, AppendProperties
<1>7. WindingTree'
  BY <1>1, <1>2 DEF Data, WindingTree, Depth
<1>8. Data'
  BY <1>1, <1>2, <1>3, <1>4, <1>6, <1>7 DEF Data
<1>9. GrowsTo(winds, winds) /\ GrowsTo(conts, conts)
  BY <1>1 DEF GrowsTo
<1>10. InOrder(Here, winds, conts, o)
  <2> HIDE DEF m, o
  <2> QED BY <1>1, <1>3, <1>9, InOrderGrows
<1>11. destroy \in Continuations(n, o, k) /\ Plain(destroy)
  BY <1>3 DEF OfObject, Continuations, Plain
<1>12. InOrder(s, winds, conts, o) /\ Top(s).at = curDW
  <2> HIDE DEF destroy, o
  <2> QED BY <1>1, <1>10, <1>11, PushPlain
<1>13. OfObject("ErrorThunk", o) \in Thunks(o)
  BY <1>3 DEF OfObject, Thunks
<1>14. <<OfObject("ErrorHandler", o)>> \in Seq(Handlers(o))
  BY <1>3 DEF OfObject, Handlers
<1>15. hs \in Seq(Handlers(o))
  <2> HIDE DEF o
  <2> QED BY <1>4, <1>14, ConcatProperties
<1> HIDE DEF s, hs, o
<1> QED BY <1>2, <1>3, <1>6, <1>8, <1>12, <1>13, <1>15, WithHandlersStep

LEMMA UserManagedStep == ASSUME IInv, UserManaged PROVE IInv'
<1>1. User("before") \in Thunks(Len(objs) + 1) /\ User("after") \in Thunks(Len(objs) + 1)
  BY Users DEF Roles
<1> QED BY <1>1, ManagedStep DEF UserManaged

LEMMA UserWithEnvStep == ASSUME IInv, UserWithEnv PROVE IInv'
<1>1. Len(objs) \in Nat /\ env \in 0..Len(objs)
  BY InUser DEF UserWithEnv, Use, Data
<1>2. /\ SetEnv(Len(objs) + 1) \in Thunks(Len(objs) + 1)
      /\ SetEnv(env) \in Thunks(Len(objs) + 1)
  BY <1>1 DEF SetEnv, Thunks
<1> QED BY <1>2, ManagedStep DEF UserWithEnv

LEMMA HostCallStep == ASSUME IInv, HostCall PROVE IInv'
<1>1. Plain(call.run)
  BY DEF HostCall, Halted, Calling, Plain
<1>2. Data /\ fuel \in 0..MaxOps
  BY <1>1, PlainRunning
<1>3. fuel' \in 0..MaxOps
  BY <1>2, OpsAssumption DEF HostCall
<1>4. Data'
  BY <1>2, <1>3, DataSame DEF HostCall
<1>5. /\ User("main") \in Pending(Len(winds), Len(objs), Len(conts))
      /\ Plain(User("main")) /\ User("main").fn # "Bottom"
  BY Users DEF Roles
<1> QED BY <1>1, <1>4, <1>5, CallStep DEF HostCall

-----------------------------------------------------------------------------
(* The theorems *)

LEMMA NextIInv == IInv /\ [Next]_vars => IInv'
<1> SUFFICES ASSUME IInv, [Next]_vars PROVE IInv'
  OBVIOUS
<1>1. CASE WindStep
  BY <1>1, WindBodyStep, WindExitStep, ForwardStep DEF WindStep
<1>2. CASE TraverseStep
  BY <1>2, TraverseArriveStep, TraverseDownStep, TraverseUpStep, ContinueUpStep,
     EnterWindStep, SetDWStep DEF TraverseStep
<1>3. CASE EscapeStep
  BY <1>3, CallEscapeStep, RestoreStep DEF EscapeStep
<1>4. CASE RaiseStep
  BY <1>4, CallSetHandlersStep, RaiseUncaughtStep, RaiseToHandlerStep,
     CallHandlerThunkStep, RaiseAgainStep DEF RaiseStep
<1>5. CASE ObjectStep
  BY <1>5, ErrorThunkStep, SafeBeforeStep, SafeAfterStep, ErrorHandlerStep,
     ClearMarkStep, DestroyStep, DestroyAgainStep, CallSetEnvStep DEF ObjectStep
<1>6. CASE UserStep
  BY <1>6, UserReturnStep, UserWindStep, UserCallCCStep, UserThrowStep, UserRaiseStep,
     UserRaiseContinuableStep, UserHandlerStep, UserManagedStep, UserWithEnvStep
     DEF UserStep
<1>7. CASE HostCall
  BY <1>7, HostCallStep
<1>8. CASE UNCHANGED vars
  <2>1. WindingTree'
    BY <1>8 DEF vars, IInv, WindingTree, Depth
  <2> QED BY <2>1, <1>8 DEF vars, IInv, TypeOK, Halted, Calling
<1> QED BY <1>1, <1>2, <1>3, <1>4, <1>5, <1>6, <1>7, <1>8 DEF Next, Turn

\* The inductive invariant of the run loop.
THEOREM Invariant == Spec => []IInv
BY InitIInv, NextIInv, PTL DEF Spec

\* Captures never dangle: whatever Scheme code does, a closure that is pending,
\* on the stack or saved refers to windings, objects and continuations there are.
THEOREM TypeCorrect == Spec => []TypeOK
<1>1. IInv => TypeOK
  BY DEF IInv
<1> QED BY <1>1, Invariant, PTL

\* Continuations are resumed in the dynamic extent they belong to, after any
\* number of escapes, re-entries and errors.
THEOREM Resumed == Spec => []ResumedInExtent
<1>1. IInv => ResumedInExtent
  BY DEF IInv, ResumedInExtent
<1> QED BY <1>1, Invariant, PTL

\* The windings form a tree in which depth counts the edges to the root.
THEOREM Tree == Spec => []WindingTree
<1>1. IInv => WindingTree
  BY DEF IInv
<1> QED BY <1>1, Invariant, PTL

\* The steps that stay in the current extent.
LEMMA StayInExtent ==
  ASSUME UNCHANGED <<winds, curDW>>
  PROVE  Extents!Next
BY DEF Extents!Next, Extents!Stay

\* DynamicWind opens an extent under the current one.
LEMMA OpenExtent ==
  ASSUME IInv, WindBody
  PROVE  Extents!Next
<1> DEFINE n == Len(winds)
           node(w) == [parent |-> winds[w].parent, after |-> winds[w].after]
           new == [depth |-> Depth(curDW) + 1, parent |-> curDW,
                   before |-> call.run.before, after |-> call.run.after]
<1>1. /\ winds \in Seq(Windings(n, Len(objs))) /\ n \in Nat
      /\ winds' = Append(winds, new) /\ curDW' = n + 1
  BY Parts DEF Data, WindBody
<1>2. IInv'
  BY WindBodyStep
<1>3. Len(winds') = n + 1 /\ DOMAIN winds = 1..n /\ DOMAIN winds' = 1..(n + 1)
  <2>1. winds' \in Seq(Windings(Len(winds'), Len(objs')))
    BY <1>2 DEF IInv, TypeOK
  <2>2. Len(winds') = n + 1
    <3> HIDE DEF new
    <3>1. winds \in Seq(Windings(n, Len(objs)) \cup {new})
      BY <1>1, SeqMonotonic
    <3> QED BY <1>1, <3>1, AppendProperties
  <2> QED BY <1>1, <2>1, <2>2, LenProperties
<1>4. (\A i \in 1..n : winds'[i] = winds[i]) /\ winds'[n + 1] = new
  <2> HIDE DEF new
  <2>1. winds \in Seq(Windings(n, Len(objs)) \cup {new})
    BY <1>1, SeqMonotonic
  <2> QED BY <1>1, <2>1, AppendProperties
<1>5. n + 1 \in 1..(n + 1) /\ n + 1 \notin 1..n /\ 1..(n + 1) = 1..n \cup {n + 1}
  BY <1>1
<1>6. Extents!Open
  BY <1>1, <1>3, <1>4, <1>5 DEF Extents!Open
<1> QED BY <1>6 DEF Extents!Next

\* A normal return and TraverseWindings leave for the parent and call the after
\* thunk of the extent they leave.
LEMMA LeaveExtent ==
  ASSUME IInv, WindExit \/ TraverseUp
  PROVE  Extents!Next
<1>1. /\ curDW \in 0..Len(winds) /\ DOMAIN winds = 1..Len(winds)
      /\ UNCHANGED winds
  BY Parts, LenProperties DEF Data, WindExit, TraverseUp
<1>2. CASE WindExit
  <2>1. /\ curDW # 0 /\ call.run.prev = Up(winds, curDW)
        /\ call.run.after = winds[curDW].after
    BY <1>2, Parts DEF WindExit, Calling, Runs, Placed
  <2>2. curDW' = call.run.prev /\ call'.run = call.run.after
    BY <1>2 DEF WindExit, Apply, Closure
  <2>3. Extents!Leave
    BY <1>1, <2>1, <2>2 DEF Extents!Leave, Extents!Up, Up
  <2> QED BY <2>3 DEF Extents!Next
<1>3. CASE TraverseUp
  <2>1. call.run.src = curDW
    BY <1>3, Travelling DEF TraverseUp, Calling
  <2>2. curDW' = Parent(curDW) /\ call'.run = winds[curDW].after
    BY <1>3, <2>1 DEF TraverseUp, Apply, Closure
  <2>3. curDW # 0
    BY <1>3, <2>1, LeavesWinding
  <2>4. Extents!Leave
    BY <1>1, <2>2, <2>3 DEF Extents!Leave, Extents!Up, Parent
  <2> QED BY <2>4 DEF Extents!Next
<1> QED BY <1>2, <1>3

\* TraverseWindings enters an extent from its parent.
LEMMA EnterExtent ==
  ASSUME IInv, SetDW
  PROVE  Extents!Next
<1>1. /\ call.run.dest \in 1..Len(winds) /\ curDW = Parent(call.run.dest)
  BY Travelling DEF SetDW, Calling
<1>2. DOMAIN winds = 1..Len(winds)
  BY Parts, LenProperties DEF Data
<1>3. UNCHANGED winds /\ curDW' = call.run.dest
  BY DEF SetDW
<1>4. Extents!Enter
  BY <1>1, <1>2, <1>3 DEF Extents!Enter, Extents!Up, Parent
<1> QED BY <1>4 DEF Extents!Next

LEMMA NextExtents == IInv /\ [Next]_vars => [Extents!Next]_(Extents!vars)
<1> SUFFICES ASSUME IInv, [Next]_vars PROVE Extents!Next
  OBVIOUS
<1>1. CASE WindBody
  BY <1>1, OpenExtent
<1>2. CASE WindExit \/ TraverseUp
  BY <1>2, LeaveExtent
<1>3. CASE SetDW
  BY <1>3, EnterExtent
<1>4. CASE Forward \/ TraverseArrive \/ TraverseDown \/ ContinueUp \/ EnterWind
           \/ EscapeStep \/ RaiseStep
  BY <1>4, StayInExtent DEF Forward, TraverseArrive, TraverseDown, ContinueUp,
     EnterWind, EscapeStep, CallEscape, Restore, RaiseStep, CallSetHandlers,
     RaiseUncaught, RaiseToHandler, CallHandlerThunk, RaiseAgain
<1>5. CASE ObjectStep
  BY <1>5, StayInExtent DEF ObjectStep, ErrorThunk, SafeBefore, SafeAfter,
     ErrorHandler, ClearMark, Destroy, DestroyAgain, CallSetEnv
<1>6. CASE UserStep \/ HostCall
  BY <1>6, StayInExtent DEF UserStep, Use, UserReturn, UserWind, UserCallCC,
     UserThrow, UserRaise, UserRaiseContinuable, UserHandler, UserManaged,
     UserWithEnv, HostCall
<1>7. CASE UNCHANGED vars
  BY <1>7, StayInExtent DEF vars
<1> QED BY <1>1, <1>2, <1>3, <1>4, <1>5, <1>6, <1>7
        DEF Next, Turn, WindStep, TraverseStep

\* The run loop keeps the promise of dynamic-wind: control moves along the edges
\* of the tree of extents and each exit is followed by the after thunk.
THEOREM Refinement == Spec => RefinesExtents
<1>1. Init => Extents!Init
  <2> SUFFICES ASSUME Init PROVE Extents!Init
    OBVIOUS
  <2>1. winds \in Seq({}) /\ Len(winds) = 0
    BY EmptySeq DEF Init
  <2>2. DOMAIN winds = {}
    BY <2>1, LenProperties
  <2> QED BY <2>2 DEF Init, Extents!Init
<1>2. IInv /\ [Next]_vars => [Extents!Next]_(Extents!vars)
  BY NextExtents
<1> QED BY <1>1, <1>2, Invariant, PTL DEF Spec, RefinesExtents, Extents!Spec
=============================================================================
