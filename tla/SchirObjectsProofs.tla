-------------------------- MODULE SchirObjectsProofs --------------------------
(***************************************************************************)
(* For every number of user operations: a managed object is destroyed only *)
(* outside of its extent, the environment set by WithEnv is alive wherever *)
(* code runs in its extent, and without saved continuations and handlers   *)
(* of the user it is destroyed when the loop has ended.                    *)
(*                                                                         *)
(* The argument: each closure that destroys an object, or that calls what  *)
(* may push such a closure, belongs to an extent that no winding of the    *)
(* object is around.  And control enters the extent of an environment      *)
(* through SafeBefore, which has checked that it is alive, and SetEnv; a   *)
(* closure that enters it without these two on top is below one that never *)
(* returns.                                                                *)
(*                                                                         *)
(* For the last of the three: while no error is on its way, something that *)
(* is pending or on the stack destroys the environment, and every closure  *)
(* above it can raise errors only inside of the extent, where its error    *)
(* handler is installed.  While one is, every environment is marked, or    *)
(* its error handler comes before the list ends, and the unwinding that    *)
(* follows runs SafeAfter of each, which destroys what is marked.          *)
(***************************************************************************)
EXTENDS SchirContextProofs

-----------------------------------------------------------------------------
(* The objects around each extent, Y *)

\* The objects whose extent a winding with thunk before is.
Opened(before) == IF before.fn = "SafeBefore" THEN {before.o} ELSE {}

\* p, called in an extent inside those of the objects out, destroys none of them.
Spares(p, out) == p.fn \in {"Destroy", "ErrorThunk", "SafeAfter"} => p.o \notin out

\* Closure f destroys no object from inside its extent, nor does what it calls.
Free(f, Y) ==
  /\ Spares(f.run, Y[f.at])
  /\ f.run.fn = "WindBody" =>
       /\ Spares(f.run.after, Y[f.at])
       /\ Spares(f.run.thunk, Y[f.at] \cup Opened(f.run.before))

AllFree(s, Y) == \A i \in 1..Len(s) : Free(s[i], Y)

Around0(W, Y, m) ==
  /\ Y[0] = {}
  /\ \A w \in 0..Len(W) : Y[w] \subseteq 1..m
  /\ \A w \in 1..Len(W) :
       /\ Y[w] = Y[W[w].parent] \cup Opened(W[w].before)
       /\ Spares(W[w].after, Y[W[w].parent])

-----------------------------------------------------------------------------
(* The way into the extent of an environment *)

\* The objects that are environments, and those that are not destroyed.
Envs(T) == {o \in DOMAIN T : T[o].before.fn = "SetEnv"}
Alive == {o \in DOMAIN objs : objs[o].alive}

\* The objects whose extent closure f enters.
Enters(f, W) ==
  IF f.run.fn = "WindBody" THEN Opened(f.run.before)
  ELSE IF f.run.fn = "SetDW" THEN Opened(W[f.run.dest].before)
  ELSE {}

\* c has checked that o is alive or is about to.
Checks(c, o, A) == \/ c.run = OfObject("SafeBefore", o)
                   \/ c.run.fn = "SetEnv" /\ o \in A

\* A frame that enters the extent of one of the objects Z is never reached, or
\* it is on top and the pending call c checks.
Entered(s, c, W, Z, A) == \A i \in 1..Len(s) : \A o \in Enters(s[i], W) \cap Z :
  Shadowed(s, i, c) \/ (i = Len(s) /\ Checks(c, o, A))

\* What is saved waits for no check.
SavedObjects(C, Y, W, Z) == \A k \in 1..Len(C) :
  AllFree(C[k].stack, Y) /\ Entered(C[k].stack, Bottom, W, Z, {})

ObjectsOf(Y) ==
  LET Z == Envs(ThunksOf(objs))
  IN /\ Around0(winds, Y, Len(objs))
     /\ AllFree(stack, Y) /\ Free(call, Y)
     /\ Entered(stack, call, winds, Z, Alive)
     /\ Enters(call, winds) \cap Z \subseteq Alive
     /\ Y[curDW] \cap Z \subseteq Alive
     /\ SavedObjects(conts, Y, winds, Z)

-----------------------------------------------------------------------------
(* The continuation stack *)

LEMMA FreePush ==
  ASSUME NEW S, NEW s \in Seq(S), NEW Y, NEW p, NEW d,
         AllFree(s, Y), Free(Closure(p, d), Y)
  PROVE  AllFree(Push(s, p, d), Y)
<1> DEFINE f == Closure(p, d)
           t == Push(s, p, d)
           n == Len(s)
<1>1. s \in Seq(S \cup {f})
  BY SeqMonotonic
<1>2. n \in Nat /\ Len(t) = n + 1 /\ t[n + 1] = f /\ \A i \in 1..n : t[i] = s[i]
  BY <1>1, PushFrames
<1>3. Free(f, Y) /\ \A i \in 1..n : Free(s[i], Y)
  BY DEF AllFree
<1> SUFFICES \A i \in 1..Len(t) : Free(t[i], Y)
  BY DEF AllFree
<1> HIDE DEF f, t, n
<1> QED
  BY <1>2, <1>3

LEMMA FreePop ==
  ASSUME NEW S, NEW s \in Seq(S), NEW Y, AllFree(s, Y)
  PROVE  AllFree(Pop(s), Y) /\ Free(Top(s), Y)
<1>1. CASE s = <<>>
  <2>1. Pop(s) = <<>> /\ Top(s) = Bottom /\ Len(<<>>) = 0
    BY <1>1, EmptySeq DEF Pop, Top
  <2> QED
    BY <2>1 DEF AllFree, Free, Spares, Bottom, Closure
<1>2. CASE s # <<>>
  <2> DEFINE n == Len(s)
             t == Pop(s)
  <2>1. /\ n \in Nat \ {0} /\ Len(t) = n - 1 /\ (\A i \in 1..(n - 1) : t[i] = s[i])
        /\ Top(s) = s[n]
    BY <1>2, PopFrames
  <2>2. \A i \in 1..n : Free(s[i], Y)
    BY DEF AllFree
  <2> SUFFICES (\A i \in 1..Len(t) : Free(t[i], Y)) /\ Free(Top(s), Y)
    BY DEF AllFree
  <2> HIDE DEF t, n
  <2> QED
    BY <2>1, <2>2
<1> QED
  BY <1>1, <1>2

\* Procedures that check, or set the environment that was checked.
Checking(p) == p.fn \in {"SafeBefore", "SetEnv"}

LEMMA NoCheck ==
  ASSUME NEW c, ~Checking(c.run), NEW A
  PROVE  \A o : ~Checks(c, o, A)
<1>1. \A o : OfObject("SafeBefore", o).fn = "SafeBefore"
  BY DEF OfObject
<1> QED
  BY <1>1 DEF Checks, Checking

\* Pushing a frame: one that enters the extent of an environment waits for the
\* check; what is never reached stays so.
LEMMA EnteredPush ==
  ASSUME NEW S, NEW s \in Seq(S), NEW p, NEW d, NEW c, NEW c2, NEW W, NEW Z, NEW A, NEW A2,
         Entered(s, c, W, Z, A), ~Checking(c.run),
         NeverReturns(c.run) => NeverReturns(p) \/ NeverReturns(c2.run),
         \A o \in Enters(Closure(p, d), W) \cap Z : c2.run = OfObject("SafeBefore", o)
  PROVE  Entered(Push(s, p, d), c2, W, Z, A2)
<1> DEFINE f == Closure(p, d)
           t == Push(s, p, d)
           n == Len(s)
<1>1. s \in Seq(S \cup {f})
  BY SeqMonotonic
<1>2. n \in Nat /\ Len(t) = n + 1 /\ t[n + 1] = f /\ \A i \in 1..n : t[i] = s[i]
  BY <1>1, PushFrames
<1>3. f.run = p
  BY DEF Closure
<1>4. \A o : ~Checks(c, o, A)
  BY NoCheck
<1>5. \A i \in 1..n : \A o \in Enters(s[i], W) \cap Z : Shadowed(s, i, c)
  BY <1>4 DEF Entered
<1>6. \A o \in Enters(f, W) \cap Z : c2.run = OfObject("SafeBefore", o)
  OBVIOUS
<1> SUFFICES ASSUME NEW i \in 1..Len(t), NEW o \in Enters(t[i], W) \cap Z
             PROVE  Shadowed(t, i, c2) \/ (i = Len(t) /\ Checks(c2, o, A2))
  BY DEF Entered
<1> HIDE DEF f, t
<1>7. CASE i = n + 1
  BY <1>2, <1>6, <1>7 DEF Checks
<1>8. CASE i \in 1..n
  <2>1. Shadowed(s, i, c)
    BY <1>2, <1>5, <1>8
  <2>2. NeverReturns(p) => Shadowed(t, i, c2)
    <3>1. n + 1 \in (i + 1)..(n + 1)
      BY <1>2, <1>8
    <3> QED
      BY <3>1, <1>2, <1>3 DEF Shadowed
  <2>3. NeverReturns(c2.run) => Shadowed(t, i, c2)
    BY DEF Shadowed
  <2>4. ASSUME NEW j \in (i + 1)..n, NeverReturns(s[j].run)
        PROVE  Shadowed(t, i, c2)
    <3>1. j \in 1..n /\ j \in (i + 1)..(n + 1)
      BY <1>2, <1>8
    <3> QED
      BY <2>4, <3>1, <1>2 DEF Shadowed
  <2> QED
    BY <2>1, <2>2, <2>3, <2>4 DEF Shadowed
<1> QED
  BY <1>2, <1>7, <1>8

\* Another call over the same stack.
LEMMA EnteredCall ==
  ASSUME NEW s, NEW c, NEW c2, NEW W, NEW Z, NEW A, NEW A2,
         Entered(s, c, W, Z, A), ~Checking(c.run),
         NeverReturns(c.run) => NeverReturns(c2.run)
  PROVE  Entered(s, c2, W, Z, A2)
<1>1. \A o : ~Checks(c, o, A)
  BY NoCheck
<1> QED
  BY <1>1 DEF Entered, Shadowed

\* The frame on top is called: if it enters the extent of an environment, the
\* call before it has checked.
LEMMA EnteredPop ==
  ASSUME NEW S, NEW s \in Seq(S), NEW c, NEW W, NEW Z, NEW A, NEW A2,
         Entered(s, c, W, Z, A), ~NeverReturns(c.run)
  PROVE  /\ Entered(Pop(s), Top(s), W, Z, A2)
         /\ \A o \in Enters(Top(s), W) \cap Z : Checks(c, o, A)
<1>1. CASE s = <<>>
  <2>1. Pop(s) = <<>> /\ Top(s) = Bottom /\ Len(<<>>) = 0
    BY <1>1, EmptySeq DEF Pop, Top
  <2> QED
    BY <2>1 DEF Entered, Enters, Bottom, Closure
<1>2. CASE s # <<>>
  <2> DEFINE n == Len(s)
             t == Pop(s)
             g == Top(s)
  <2>1. /\ n \in Nat \ {0} /\ Len(t) = n - 1 /\ (\A i \in 1..(n - 1) : t[i] = s[i])
        /\ g = s[n]
    BY <1>2, PopFrames
  <2>2. \A i \in 1..n : \A o \in Enters(s[i], W) \cap Z :
          (\E j \in (i + 1)..n : NeverReturns(s[j].run)) \/ (i = n /\ Checks(c, o, A))
    BY DEF Entered, Shadowed
  <2> SUFFICES (\A i \in 1..Len(t) : \A o \in Enters(t[i], W) \cap Z : Shadowed(t, i, g))
               /\ \A o \in Enters(g, W) \cap Z : Checks(c, o, A)
    BY DEF Entered
  <2> HIDE DEF n, t, g
  <2>3. \A o \in Enters(g, W) \cap Z : Checks(c, o, A)
    <3>1. n \in 1..n /\ (n + 1)..n = {}
      BY <2>1
    <3> QED
      BY <3>1, <2>1, <2>2
  <2>4. ASSUME NEW i \in 1..(n - 1), NEW o \in Enters(t[i], W) \cap Z
        PROVE  Shadowed(t, i, g)
    <3>1. i \in 1..n /\ i # n /\ t[i] = s[i]
      BY <2>1
    <3>2. PICK j \in (i + 1)..n : NeverReturns(s[j].run)
      BY <2>2, <3>1, <2>4
    <3>3. CASE j = n
      BY <3>2, <3>3, <2>1 DEF Shadowed
    <3>4. CASE j # n
      <4>1. j \in (i + 1)..(n - 1) /\ j \in 1..(n - 1)
        BY <3>4, <2>1
      <4> QED
        BY <4>1, <3>2, <2>1 DEF Shadowed
    <3> QED
      BY <3>3, <3>4
  <2> QED
    BY <2>1, <2>3, <2>4
<1> QED
  BY <1>1, <1>2

-----------------------------------------------------------------------------
(* The state *)

Z0 == Envs(T0)

\* The parts of the invariant.
LEMMA GivenObjects ==
  ASSUME IInv, NEW Y, ObjectsOf(Y)
  PROVE  /\ stack \in Stacks /\ call.at = curDW
         /\ Around0(winds, Y, Len(objs))
         /\ AllFree(stack, Y) /\ Free(call, Y) /\ Spares(call.run, Y[curDW])
         /\ Entered(stack, call, winds, Z0, Alive)
         /\ Enters(call, winds) \cap Z0 \subseteq Alive
         /\ Y[curDW] \cap Z0 \subseteq Alive
         /\ SavedObjects(conts, Y, winds, Z0)
<1>1. stack \in Stacks /\ call.at = curDW
  BY Parts DEF InOrder, Stacks
<1> QED
  BY <1>1 DEF ObjectsOf, Z0, T0, Free

\* What ContextInv says of thunks.
LEMMA Shapes ==
  ASSUME ContextInv
  PROVE  /\ IInv
         /\ \A w \in 1..Len(winds) : IsBefore(winds[w].before) /\ IsAfter(winds[w].after)
         /\ call.run.fn = "WindBody" =>
              /\ IsBefore(call.run.before) /\ IsAfter(call.run.after)
              /\ ~Changes(call.run.thunk)
         /\ ObjectsSetEnv(T0)
         /\ \A k \in 1..Len(conts) : conts[k].stack # <<>> /\ Top(conts[k].stack).run.fn = "User"
<1>1. PICK X : ContextOf(X)
  BY DEF ContextInv
<1>2. IInv
  BY DEF ContextInv
<1>3. /\ WindsRestore(winds, X, T0) /\ ObjectsSetEnv(T0) /\ SavedLinked(conts, X, T0)
      /\ CallFits(call, Top(stack), Now, X, T0)
  BY <1>1, <1>2, Given
<1> QED
  BY <1>2, <1>3 DEF WindsRestore, SavedLinked, CallFits, Opens

\* Steps that add no winding, no continuation and no object.
LEMMA SameObjects ==
  ASSUME NEW Y, ObjectsOf(Y), UNCHANGED <<winds, conts>>,
         ThunksOf(objs') = T0, Len(objs') = Len(objs),
         AllFree(stack', Y), Free(call', Y),
         Entered(stack', call', winds, Z0, Alive'),
         Enters(call', winds) \cap Z0 \subseteq Alive',
         Y[curDW'] \cap Z0 \subseteq Alive'
  PROVE  ObjectsOf(Y)'
BY DEF ObjectsOf, Z0, T0

\* Objects are left alone.
LEMMA ObjectsUnchanged ==
  ASSUME UNCHANGED objs
  PROVE  ThunksOf(objs') = T0 /\ Len(objs') = Len(objs) /\ Alive' = Alive
BY DEF T0, Alive

\* The pending call returns.
LEMMA ReturnObjects ==
  ASSUME IInv, NEW Y, ObjectsOf(Y), UNCHANGED <<winds, conts>>,
         ThunksOf(objs') = T0, Len(objs') = Len(objs),
         Cont(stack), ~NeverReturns(call.run),
         \A o : Checks(call, o, Alive) => o \in Alive',
         Y[curDW'] \cap Z0 \subseteq Alive'
  PROVE  ObjectsOf(Y)'
<1> DEFINE F == Frames(Len(winds), Len(objs), Len(conts))
<1>1. stack \in Seq(F) /\ AllFree(stack, Y) /\ Entered(stack, call, winds, Z0, Alive)
  BY GivenObjects DEF Stacks
<1> HIDE DEF F
<1>2. AllFree(Pop(stack), Y) /\ Free(Top(stack), Y)
  BY <1>1, FreePop
<1>3. Entered(Pop(stack), Top(stack), winds, Z0, Alive')
  BY <1>1, EnteredPop
<1>4. \A o \in Enters(Top(stack), winds) \cap Z0 : Checks(call, o, Alive)
  BY <1>1, EnteredPop
<1>5. stack' = Pop(stack) /\ call' = Top(stack)
  BY DEF Cont
<1> QED
  BY <1>2, <1>3, <1>4, <1>5, SameObjects

\* The pending call, which checks nothing, returns within its extent.
LEMMA QuietReturnObjects ==
  ASSUME IInv, NEW Y, ObjectsOf(Y), UNCHANGED <<winds, conts, curDW>>,
         ThunksOf(objs') = T0, Len(objs') = Len(objs), Alive' = Alive,
         Cont(stack), ~NeverReturns(call.run), ~Checking(call.run)
  PROVE  ObjectsOf(Y)'
<1>1. \A o : ~Checks(call, o, Alive)
  BY NoCheck
<1>2. Y[curDW'] \cap Z0 \subseteq Alive'
  BY GivenObjects
<1> QED
  BY <1>1, <1>2, ReturnObjects

\* Procedures that enter no extent when they are called.
Direct(p) == p.fn \notin {"WindBody", "SetDW"}

\* A procedure of the current extent is called.
LEMMA CallObjects ==
  ASSUME IInv, NEW Y, ObjectsOf(Y), UNCHANGED <<stack, winds, conts, curDW>>,
         ThunksOf(objs') = T0, Len(objs') = Len(objs), Alive' = Alive,
         NEW p, NEW d, Apply(p, d), Direct(p), Spares(p, Y[d]),
         ~Checking(call.run), NeverReturns(call.run) => NeverReturns(p)
  PROVE  ObjectsOf(Y)'
<1> DEFINE c2 == Closure(p, d)
<1>1. c2.run = p /\ c2.at = d
  BY DEF Closure
<1>2. call' = c2
  BY DEF Apply
<1> HIDE DEF c2
<1>3. AllFree(stack, Y) /\ Entered(stack, call, winds, Z0, Alive) /\ Y[curDW] \cap Z0 \subseteq Alive
  BY GivenObjects
<1>4. Free(c2, Y) /\ Enters(c2, winds) = {}
  BY <1>1 DEF Free, Enters, Direct
<1>5. Entered(stack, c2, winds, Z0, Alive')
  BY <1>1, <1>3, EnteredCall
<1> QED
  BY <1>2, <1>3, <1>4, <1>5, SameObjects

\* A frame is pushed on s and a procedure called.
LEMMA PushCallObjects ==
  ASSUME IInv, NEW Y, ObjectsOf(Y), UNCHANGED <<winds, conts>>,
         ThunksOf(objs') = T0, Len(objs') = Len(objs), Alive' = Alive,
         NEW S, NEW s \in Seq(S), AllFree(s, Y), Entered(s, call, winds, Z0, Alive),
         NEW q, NEW e, stack' = Push(s, q, e), Free(Closure(q, e), Y),
         NEW p, NEW d, Apply(p, d), Direct(p), Spares(p, Y[d]),
         \A o \in Enters(Closure(q, e), winds) \cap Z0 : p = OfObject("SafeBefore", o),
         ~Checking(call.run), NeverReturns(call.run) => NeverReturns(q) \/ NeverReturns(p),
         Y[curDW'] \cap Z0 \subseteq Alive
  PROVE  ObjectsOf(Y)'
<1> DEFINE c2 == Closure(p, d)
           t == Push(s, q, e)
<1>1. c2.run = p /\ c2.at = d
  BY DEF Closure
<1>2. call' = c2 /\ stack' = t
  BY DEF Apply
<1> HIDE DEF c2
<1>3. Free(c2, Y) /\ Enters(c2, winds) = {}
  BY <1>1 DEF Free, Enters, Direct
<1>4. AllFree(t, Y)
  BY FreePush
<1>5. Entered(t, c2, winds, Z0, Alive')
  BY <1>1, EnteredPush
<1> HIDE DEF t
<1> QED
  BY <1>2, <1>3, <1>4, <1>5, SameObjects

\* Most closures destroy nothing and enter no extent.
Harmless(p) == p.fn \notin {"WindBody", "SetDW", "Destroy", "ErrorThunk", "SafeAfter"}

LEMMA HarmlessFrame ==
  ASSUME NEW p, Harmless(p), NEW d, NEW Y, NEW W, NEW out
  PROVE  /\ Free(Closure(p, d), Y) /\ Enters(Closure(p, d), W) = {}
         /\ Spares(p, out) /\ Direct(p)
BY DEF Harmless, Free, Enters, Spares, Direct, Closure

\* What SafeBefore is among the Before thunks.
LEMMA BeforeThunk ==
  ASSUME NEW m, NEW p \in Thunks(m), IsBefore(p)
  PROVE  /\ Direct(p) /\ \A out : Spares(p, out)
         /\ \A o \in Opened(p) : p = OfObject("SafeBefore", o) /\ o \in 1..m
<1>1. Direct(p) /\ \A out : Spares(p, out)
  BY DEF IsBefore, Direct, Spares
<1>2. ASSUME NEW o \in Opened(p)
      PROVE  p = OfObject("SafeBefore", o) /\ o \in 1..m
  <2>1. p.fn = "SafeBefore" /\ o = p.o
    BY <1>2 DEF Opened
  <2>2. p \in [fn : {"SafeBefore", "SafeAfter", "ErrorThunk"}, o : 1..m]
    BY <2>1 DEF Thunks
  <2> QED
    BY <2>1, <2>2 DEF OfObject
<1> QED
  BY <1>1, <1>2

-----------------------------------------------------------------------------
(* Steps of dynamic-wind and TraverseWindings *)

LEMMA WindExitObjects ==
  ASSUME IInv, NEW Y, ObjectsOf(Y), WindExit PROVE ObjectsOf(Y)'
<1> DEFINE d == call.run.prev
           q == [fn |-> "Forward"]
           p == call.run.after
           F == Frames(Len(winds), Len(objs), Len(conts))
<1>1. /\ Data /\ Len(winds) \in Nat /\ Len(objs) \in Nat
      /\ Runs(call, stack, winds, conts, Len(objs)) /\ call.at = curDW
      /\ curDW \in 0..Len(winds)
  BY Parts
<1>2. curDW \in 1..Len(winds) /\ d = winds[curDW].parent /\ p = winds[curDW].after
  BY <1>1 DEF Runs, Placed, Up, WindExit, Calling
<1>3. /\ Around0(winds, Y, Len(objs)) /\ stack \in Seq(F) /\ AllFree(stack, Y)
      /\ Entered(stack, call, winds, Z0, Alive) /\ Y[curDW] \cap Z0 \subseteq Alive
  BY GivenObjects DEF Stacks
<1>4. Spares(p, Y[d]) /\ Y[d] \subseteq Y[curDW]
  BY <1>2, <1>3 DEF Around0
<1>5. Harmless(q)
  BY DEF Harmless
<1>6. Free(Closure(q, d), Y) /\ Enters(Closure(q, d), winds) = {}
  BY <1>5, HarmlessFrame
<1>7. Direct(p)
  <2>1. p \in Thunks(Len(objs))
    BY <1>1, <1>2, Winding
  <2> HIDE DEF p
  <2> QED
    BY <2>1 DEF Thunks, Direct, Handlers
<1>8. ~Checking(call.run) /\ ~NeverReturns(call.run)
  BY DEF WindExit, Calling, Checking, NeverReturns, FailsOnReturn
<1>9. /\ stack' = Push(stack, q, d) /\ Apply(p, d) /\ curDW' = d
      /\ UNCHANGED <<winds, conts, objs>>
  BY DEF WindExit
<1>10. ThunksOf(objs') = T0 /\ Len(objs') = Len(objs) /\ Alive' = Alive
  BY <1>9, ObjectsUnchanged
<1> HIDE DEF d, q, p, F
<1> QED
  BY <1>3, <1>4, <1>6, <1>7, <1>8, <1>9, <1>10, PushCallObjects

LEMMA ForwardObjects ==
  ASSUME IInv, NEW Y, ObjectsOf(Y), Forward PROVE ObjectsOf(Y)'
<1>1. ~NeverReturns(call.run) /\ ~Checking(call.run) /\ UNCHANGED objs
  BY DEF Forward, Calling, NeverReturns, FailsOnReturn, Checking
<1> QED
  BY <1>1, ObjectsUnchanged, QuietReturnObjects DEF Forward

LEMMA TraverseArriveObjects ==
  ASSUME IInv, NEW Y, ObjectsOf(Y), TraverseArrive PROVE ObjectsOf(Y)'
<1>1. ~NeverReturns(call.run) /\ ~Checking(call.run) /\ UNCHANGED objs
  BY DEF TraverseArrive, Calling, NeverReturns, FailsOnReturn, Checking
<1> QED
  BY <1>1, ObjectsUnchanged, QuietReturnObjects DEF TraverseArrive

\* A harmless frame is pushed and a harmless procedure called in this extent.
LEMMA HarmlessPush ==
  ASSUME IInv, NEW Y, ObjectsOf(Y), UNCHANGED <<winds, conts, curDW, objs>>,
         NEW q, NEW e, stack' = Push(stack, q, e), Harmless(q),
         NEW p, NEW d, Apply(p, d), Harmless(p),
         ~Checking(call.run), NeverReturns(call.run) => NeverReturns(q) \/ NeverReturns(p)
  PROVE  ObjectsOf(Y)'
<1> DEFINE F == Frames(Len(winds), Len(objs), Len(conts))
<1>1. /\ stack \in Seq(F) /\ AllFree(stack, Y)
      /\ Entered(stack, call, winds, Z0, Alive) /\ Y[curDW] \cap Z0 \subseteq Alive
  BY GivenObjects DEF Stacks
<1> HIDE DEF F
<1>2. /\ Free(Closure(q, e), Y) /\ Enters(Closure(q, e), winds) = {}
      /\ Spares(p, Y[d]) /\ Direct(p)
  BY HarmlessFrame
<1>3. ThunksOf(objs') = T0 /\ Len(objs') = Len(objs) /\ Alive' = Alive
  BY ObjectsUnchanged
<1> QED
  BY <1>1, <1>2, <1>3, PushCallObjects

LEMMA TraverseDownObjects ==
  ASSUME IInv, NEW Y, ObjectsOf(Y), TraverseDown PROVE ObjectsOf(Y)'
<1> DEFINE d == Parent(call.run.dest)
           q == [fn |-> "EnterWind", dest |-> call.run.dest]
           p == Traverse(call.run.src, d)
<1>1. Harmless(q) /\ Harmless(p)
  BY DEF Harmless, Traverse
<1>2. ~NeverReturns(call.run) /\ ~Checking(call.run)
  BY DEF TraverseDown, Calling, NeverReturns, FailsOnReturn, Checking
<1>3. stack' = Push(stack, q, d) /\ Apply(p, curDW) /\ UNCHANGED <<winds, conts, curDW, objs>>
  BY DEF TraverseDown
<1> HIDE DEF q, p, d
<1> QED
  BY <1>1, <1>2, <1>3, HarmlessPush

LEMMA TraverseUpObjects ==
  ASSUME IInv, NEW Y, ObjectsOf(Y), TraverseUp PROVE ObjectsOf(Y)'
<1> DEFINE src == call.run.src
           d == winds[src].parent
           q == [fn |-> "ContinueUp", src |-> src, dest |-> call.run.dest]
           p == winds[src].after
           F == Frames(Len(winds), Len(objs), Len(conts))
<1>1. /\ Data /\ Len(winds) \in Nat /\ Len(objs) \in Nat /\ src = curDW
  BY Travelling DEF TraverseUp, Calling
<1>2. src \in 1..Len(winds)
  BY <1>1, LeavesWinding, Travelling DEF TraverseUp, Calling
<1>3. Parent(src) = d
  BY <1>1, <1>2, Winding
<1>4. /\ Around0(winds, Y, Len(objs)) /\ stack \in Seq(F) /\ AllFree(stack, Y)
      /\ Entered(stack, call, winds, Z0, Alive) /\ Y[curDW] \cap Z0 \subseteq Alive
  BY GivenObjects DEF Stacks
<1>5. Spares(p, Y[d]) /\ Y[d] \subseteq Y[curDW]
  BY <1>1, <1>2, <1>4 DEF Around0
<1>6. Free(Closure(q, d), Y) /\ Enters(Closure(q, d), winds) = {}
  <2>1. Harmless(q)
    BY DEF Harmless
  <2> QED
    BY <2>1, HarmlessFrame
<1>7. Direct(p)
  <2>1. p \in Thunks(Len(objs))
    BY <1>1, <1>2, Winding
  <2> HIDE DEF p
  <2> QED
    BY <2>1 DEF Thunks, Direct, Handlers
<1>8. ~Checking(call.run) /\ ~NeverReturns(call.run)
  BY DEF TraverseUp, Calling, Checking, NeverReturns, FailsOnReturn
<1>9. /\ stack' = Push(stack, q, d) /\ Apply(p, d) /\ curDW' = d
      /\ UNCHANGED <<winds, conts, objs>>
  BY <1>3 DEF TraverseUp
<1>10. ThunksOf(objs') = T0 /\ Len(objs') = Len(objs) /\ Alive' = Alive
  BY <1>9, ObjectsUnchanged
<1> HIDE DEF d, q, p, F
<1> QED
  BY <1>4, <1>5, <1>6, <1>7, <1>8, <1>9, <1>10, PushCallObjects

LEMMA ContinueUpObjects ==
  ASSUME IInv, NEW Y, ObjectsOf(Y), ContinueUp PROVE ObjectsOf(Y)'
<1> DEFINE p == Traverse(Parent(call.run.src), call.run.dest)
<1>1. Direct(p) /\ Spares(p, Y[curDW])
  BY DEF Traverse, Direct, Spares
<1>2. ~NeverReturns(call.run) /\ ~Checking(call.run)
  BY DEF ContinueUp, Calling, NeverReturns, FailsOnReturn, Checking
<1>3. Apply(p, curDW) /\ UNCHANGED <<stack, winds, conts, curDW, objs>>
  BY DEF ContinueUp
<1>4. ThunksOf(objs') = T0 /\ Len(objs') = Len(objs) /\ Alive' = Alive
  BY <1>3, ObjectsUnchanged
<1> HIDE DEF p
<1> QED
  BY <1>1, <1>2, <1>3, <1>4, CallObjects

\* The extent of an environment is entered: its Before thunk checks.
LEMMA EnterWindObjects ==
  ASSUME ContextInv, NEW Y, ObjectsOf(Y), EnterWind PROVE ObjectsOf(Y)'
<1> DEFINE dest == call.run.dest
           q == [fn |-> "SetDW", dest |-> dest]
           p == winds[dest].before
           F == Frames(Len(winds), Len(objs), Len(conts))
<1>1. IInv
  BY DEF ContextInv
<1>2. /\ Data /\ Len(winds) \in Nat /\ Len(objs) \in Nat /\ dest \in 1..Len(winds)
  BY <1>1, Travelling DEF EnterWind, Calling
<1>3. p \in Thunks(Len(objs)) /\ IsBefore(p)
  BY <1>2, Winding, Shapes
<1>4. /\ stack \in Seq(F) /\ AllFree(stack, Y)
      /\ Entered(stack, call, winds, Z0, Alive) /\ Y[curDW] \cap Z0 \subseteq Alive
  BY <1>1, GivenObjects DEF Stacks
<1>5. Free(Closure(q, curDW), Y) /\ Enters(Closure(q, curDW), winds) = Opened(p)
  BY DEF Free, Spares, Enters, Closure
<1>6. ~Checking(call.run) /\ ~NeverReturns(call.run)
  BY DEF EnterWind, Calling, Checking, NeverReturns, FailsOnReturn
<1>7. /\ stack' = Push(stack, q, curDW) /\ Apply(p, curDW)
      /\ UNCHANGED <<curDW, winds, conts, objs>>
  BY DEF EnterWind
<1>8. ThunksOf(objs') = T0 /\ Len(objs') = Len(objs) /\ Alive' = Alive
  BY <1>7, ObjectsUnchanged
<1> HIDE DEF q, p, F
<1>9. /\ Direct(p) /\ Spares(p, Y[curDW])
      /\ \A o \in Enters(Closure(q, curDW), winds) \cap Z0 : p = OfObject("SafeBefore", o)
  BY <1>3, <1>5, BeforeThunk
<1> QED
  BY <1>1, <1>4, <1>5, <1>6, <1>7, <1>8, <1>9, PushCallObjects

LEMMA SetDWObjects ==
  ASSUME IInv, NEW Y, ObjectsOf(Y), SetDW PROVE ObjectsOf(Y)'
<1> DEFINE dest == call.run.dest
<1>1. /\ Data /\ Len(winds) \in Nat /\ Len(objs) \in Nat
      /\ dest \in 1..Len(winds) /\ curDW = Parent(dest)
  BY Travelling DEF SetDW, Calling
<1>2. winds[dest].parent = curDW
  BY <1>1, Winding
<1>3. /\ Around0(winds, Y, Len(objs)) /\ Y[curDW] \cap Z0 \subseteq Alive
      /\ Enters(call, winds) \cap Z0 \subseteq Alive
  BY GivenObjects
<1>4. Enters(call, winds) = Opened(winds[dest].before)
  BY DEF SetDW, Calling, Enters
<1>5. Y[dest] = Y[curDW] \cup Opened(winds[dest].before)
  BY <1>1, <1>2, <1>3 DEF Around0
<1>6. Y[dest] \cap Z0 \subseteq Alive
  BY <1>3, <1>4, <1>5
<1>7. ~NeverReturns(call.run) /\ ~Checking(call.run)
  BY DEF SetDW, Calling, NeverReturns, FailsOnReturn, Checking
<1>8. \A o : ~Checks(call, o, Alive)
  BY <1>7, NoCheck
<1>9. curDW' = dest /\ UNCHANGED <<winds, conts, objs>> /\ Cont(stack)
  BY DEF SetDW
<1>10. ThunksOf(objs') = T0 /\ Len(objs') = Len(objs) /\ Alive' = Alive
  BY <1>9, ObjectsUnchanged
<1> QED
  BY <1>6, <1>7, <1>8, <1>9, <1>10, ReturnObjects

-----------------------------------------------------------------------------
(* Steps of escape procedures and exceptions *)

LEMMA CallEscapeObjects ==
  ASSUME IInv, NEW Y, ObjectsOf(Y), CallEscape PROVE ObjectsOf(Y)'
<1> DEFINE dw == conts[call.run.k].dw
           q == [fn |-> "Restore", k |-> call.run.k]
           p == Traverse(curDW, dw)
<1>1. Harmless(q) /\ Harmless(p) /\ NeverReturns(q)
  BY DEF Harmless, Traverse, NeverReturns
<1>2. ~Checking(call.run)
  BY DEF CallEscape, Calling, Checking
<1>3. stack' = Push(stack, q, dw) /\ Apply(p, curDW) /\ UNCHANGED <<winds, conts, curDW, objs>>
  BY DEF CallEscape
<1> HIDE DEF q, p, dw
<1> QED
  BY <1>1, <1>2, <1>3, HarmlessPush

\* What was saved waits for no check, so its top enters no such extent.
LEMMA RestoreObjects ==
  ASSUME IInv, NEW Y, ObjectsOf(Y), Restore PROVE ObjectsOf(Y)'
<1> DEFINE k == call.run.k
           s == conts[k].stack
           F == Frames(Len(winds), Len(objs), Len(conts))
<1>1. /\ Data /\ Len(winds) \in Nat /\ Len(conts) \in Nat /\ Len(objs) \in Nat
      /\ call.run \in Pending(Len(winds), Len(objs), Len(conts))
  BY Parts
<1>2. k \in 1..Len(conts)
  BY <1>1, Captures DEF Restore, Calling
<1>3. s \in Seq(F)
  BY <1>1, <1>2, SavedCont DEF InOrder
<1>4. AllFree(s, Y) /\ Entered(s, Bottom, winds, Z0, {}) /\ Y[curDW] \cap Z0 \subseteq Alive
  BY <1>2, GivenObjects DEF SavedObjects
<1>5. stack' = Pop(s) /\ call' = Top(s) /\ UNCHANGED <<winds, conts, curDW, objs>>
  BY DEF Restore, Cont
<1>6. ThunksOf(objs') = T0 /\ Len(objs') = Len(objs) /\ Alive' = Alive
  BY <1>5, ObjectsUnchanged
<1>7. ~NeverReturns(Bottom.run) /\ ~Checking(Bottom.run)
  BY DEF Bottom, Closure, NeverReturns, FailsOnReturn, Checking
<1> HIDE DEF s, k, F
<1>8. AllFree(Pop(s), Y) /\ Free(Top(s), Y)
  BY <1>3, <1>4, FreePop
<1>9. /\ Entered(Pop(s), Top(s), winds, Z0, Alive')
      /\ \A o \in Enters(Top(s), winds) \cap Z0 : Checks(Bottom, o, {})
  BY <1>3, <1>4, <1>7, EnteredPop
<1>10. Enters(Top(s), winds) \cap Z0 = {}
  BY <1>7, <1>9, NoCheck
<1> QED
  BY <1>4, <1>5, <1>6, <1>8, <1>9, <1>10, SameObjects

LEMMA CallSetHandlersObjects ==
  ASSUME IInv, NEW Y, ObjectsOf(Y), CallSetHandlers PROVE ObjectsOf(Y)'
<1>1. ~NeverReturns(call.run) /\ ~Checking(call.run) /\ UNCHANGED objs
  BY DEF CallSetHandlers, Calling, NeverReturns, FailsOnReturn, Checking
<1> QED
  BY <1>1, ObjectsUnchanged, QuietReturnObjects DEF CallSetHandlers

LEMMA RaiseUncaughtObjects ==
  ASSUME IInv, NEW Y, ObjectsOf(Y), RaiseUncaught PROVE ObjectsOf(Y)'
<1> DEFINE p == Traverse(curDW, bottomDW)
<1>1. Harmless(p)
  BY DEF Harmless, Traverse
<1>2. stack' = <<>> /\ call' = Closure(p, curDW) /\ UNCHANGED <<winds, conts, curDW, objs>>
  BY DEF RaiseUncaught, Apply
<1> HIDE DEF p
<1>3. Free(Closure(p, curDW), Y) /\ Enters(Closure(p, curDW), winds) = {}
  BY <1>1, HarmlessFrame
<1>4. AllFree(<<>>, Y) /\ Entered(<<>>, call', winds, Z0, Alive')
  <2>1. Len(<<>>) = 0
    BY EmptySeq
  <2> QED
    BY <2>1 DEF AllFree, Entered
<1>5. ThunksOf(objs') = T0 /\ Len(objs') = Len(objs) /\ Alive' = Alive
  BY <1>2, ObjectsUnchanged
<1>6. Y[curDW] \cap Z0 \subseteq Alive
  BY GivenObjects
<1> QED
  BY <1>2, <1>3, <1>4, <1>5, <1>6, SameObjects

\* DynamicWind(s, ...).
LEMMA DynamicWindObjects ==
  ASSUME IInv, NEW Y, ObjectsOf(Y), UNCHANGED <<winds, conts, curDW>>,
         ThunksOf(objs') = T0, Len(objs') = Len(objs), Alive' = Alive,
         NEW S, NEW s \in Seq(S), AllFree(s, Y), Entered(s, call, winds, Z0, Alive),
         NEW before, NEW thunk, NEW after, DynamicWind(s, before, thunk, after),
         Direct(before), Spares(before, Y[curDW]),
         \A o \in Opened(before) : before = OfObject("SafeBefore", o),
         Spares(after, Y[curDW]), Spares(thunk, Y[curDW] \cup Opened(before)),
         ~Checking(call.run), NeverReturns(call.run) => FailsOnReturn(thunk)
  PROVE  ObjectsOf(Y)'
<1> DEFINE q == [fn |-> "WindBody", before |-> before, thunk |-> thunk, after |-> after]
           f == Closure(q, curDW)
<1>1. /\ f.run = q /\ f.at = curDW /\ q.fn = "WindBody" /\ q.before = before
      /\ q.thunk = thunk /\ q.after = after
  BY DEF Closure
<1>2. stack' = Push(s, q, curDW) /\ Apply(before, curDW)
  BY DEF DynamicWind
<1> HIDE DEF q, f
<1>3. Free(f, Y)
  BY <1>1 DEF Free, Spares
<1>4. Enters(f, winds) = Opened(before)
  BY <1>1 DEF Enters
<1>5. NeverReturns(call.run) => NeverReturns(q)
  BY <1>1 DEF NeverReturns
<1>6. Y[curDW] \cap Z0 \subseteq Alive /\ curDW' = curDW
  BY GivenObjects
<1>7. Free(Closure(q, curDW), Y) /\ \A o \in Enters(Closure(q, curDW), winds) \cap Z0 :
                                      before = OfObject("SafeBefore", o)
  BY <1>3, <1>4 DEF f
<1> QED
  BY <1>2, <1>5, <1>6, <1>7, PushCallObjects

\* WithExceptionHandlers(s, hs, thunk).
LEMMA HandlersObjects ==
  ASSUME IInv, NEW Y, ObjectsOf(Y), UNCHANGED <<winds, conts, curDW>>,
         ThunksOf(objs') = T0, Len(objs') = Len(objs), Alive' = Alive,
         NEW S, NEW s \in Seq(S), AllFree(s, Y), Entered(s, call, winds, Z0, Alive),
         NEW hs, NEW thunk, WithExceptionHandlers(s, hs, thunk), Spares(thunk, Y[curDW]),
         ~Checking(call.run), NeverReturns(call.run) => FailsOnReturn(thunk)
  PROVE  ObjectsOf(Y)'
<1>1. ASSUME NEW h
      PROVE  /\ Direct(SetHandlers(h)) /\ Spares(SetHandlers(h), Y[curDW])
             /\ Opened(SetHandlers(h)) = {}
  BY DEF SetHandlers, Direct, Spares, Opened
<1> DEFINE b == SetHandlers(hs)
           a == SetHandlers(handlers)
<1>2. /\ Direct(b) /\ Spares(b, Y[curDW]) /\ Opened(b) = {} /\ Spares(a, Y[curDW])
      /\ DynamicWind(s, b, thunk, a)
  BY <1>1 DEF WithExceptionHandlers
<1> HIDE DEF a, b
<1>3. Spares(thunk, Y[curDW] \cup Opened(b)) /\ \A o \in Opened(b) : b = OfObject("SafeBefore", o)
  <2>1. Y[curDW] \cup Opened(b) = Y[curDW]
    BY <1>2
  <2> QED
    BY <1>2, <2>1
<1> QED
  BY <1>2, <1>3, DynamicWindObjects

LEMMA RaiseToHandlerObjects ==
  ASSUME IInv, NEW Y, ObjectsOf(Y), RaiseToHandler PROVE ObjectsOf(Y)'
<1> DEFINE thunk == HandlerThunk(Head(handlers), FALSE)
           F == Frames(Len(winds), Len(objs), Len(conts))
<1>1. FailsOnReturn(thunk) /\ Spares(thunk, Y[curDW])
  BY DEF HandlerThunk, FailsOnReturn, Spares
<1>2. stack \in Seq(F) /\ AllFree(stack, Y) /\ Entered(stack, call, winds, Z0, Alive)
  BY GivenObjects DEF Stacks
<1>3. ~Checking(call.run)
  BY DEF RaiseToHandler, Calling, Checking
<1>4. /\ WithExceptionHandlers(stack, Tail(handlers), thunk)
      /\ UNCHANGED <<winds, conts, curDW, objs>>
  BY DEF RaiseToHandler
<1>5. ThunksOf(objs') = T0 /\ Len(objs') = Len(objs) /\ Alive' = Alive
  BY <1>4, ObjectsUnchanged
<1> HIDE DEF thunk, F
<1> QED
  BY <1>1, <1>2, <1>3, <1>4, <1>5, HandlersObjects

LEMMA CallHandlerThunkObjects ==
  ASSUME IInv, NEW Y, ObjectsOf(Y), CallHandlerThunk PROVE ObjectsOf(Y)'
<1> DEFINE q == [fn |-> "RaiseAgain"]
           h == call.run.h
<1>1. /\ Len(winds) \in Nat /\ Len(objs) \in Nat /\ Len(conts) \in Nat
      /\ call.run \in Pending(Len(winds), Len(objs), Len(conts))
  BY Parts
<1>2. h \in Handlers(Len(objs)) /\ call.run.continuable \in BOOLEAN
  BY <1>1, Captures DEF CallHandlerThunk, Calling
<1>3. h.fn \in {"User", "ErrorHandler"}
  BY <1>2 DEF Handlers
<1>4. ~Checking(call.run)
  BY DEF CallHandlerThunk, Calling, Checking
<1>5. Apply(h, curDW) /\ UNCHANGED <<winds, conts, curDW, objs>>
  BY DEF CallHandlerThunk
<1>6. ThunksOf(objs') = T0 /\ Len(objs') = Len(objs) /\ Alive' = Alive
  BY <1>5, ObjectsUnchanged
<1> HIDE DEF h
<1>7. Harmless(h) /\ Direct(h) /\ Spares(h, Y[curDW])
  BY <1>3 DEF Harmless, Direct, Spares
<1>8. CASE call.run.continuable
  <2>1. ~NeverReturns(call.run) /\ stack' = stack
    BY <1>8 DEF CallHandlerThunk, Calling, NeverReturns, FailsOnReturn
  <2> QED
    BY <2>1, <1>4, <1>5, <1>6, <1>7, CallObjects
<1>9. CASE ~call.run.continuable
  <2>1. stack' = Push(stack, q, curDW)
    BY <1>9 DEF CallHandlerThunk
  <2>2. Harmless(q) /\ NeverReturns(q)
    BY DEF Harmless, NeverReturns
  <2> HIDE DEF q
  <2> QED
    BY <2>1, <2>2, <1>4, <1>5, <1>7, HarmlessPush
<1> QED
  BY <1>2, <1>8, <1>9

\* What raises, whatever the call was, unless it checks.
LEMMA RaisingObjects ==
  ASSUME IInv, NEW Y, ObjectsOf(Y), UNCHANGED <<stack, winds, conts, curDW, objs>>,
         Apply(Raise, curDW), ~Checking(call.run)
  PROVE  ObjectsOf(Y)'
<1>1. Direct(Raise) /\ Spares(Raise, Y[curDW]) /\ NeverReturns(Raise)
  BY DEF Raise, Direct, Spares, NeverReturns
<1>2. ThunksOf(objs') = T0 /\ Len(objs') = Len(objs) /\ Alive' = Alive
  BY ObjectsUnchanged
<1> QED
  BY <1>1, <1>2, CallObjects

LEMMA RaiseAgainObjects ==
  ASSUME IInv, NEW Y, ObjectsOf(Y), RaiseAgain PROVE ObjectsOf(Y)'
<1>1. ~Checking(call.run)
  BY DEF RaiseAgain, Calling, Checking
<1> QED
  BY <1>1, RaisingObjects DEF RaiseAgain

\* RaiseContinuable(s) where user code or an error handler runs.
LEMMA RaiseContinuableObjects ==
  ASSUME IInv, NEW Y, ObjectsOf(Y), UNCHANGED <<winds, conts, curDW>>,
         ThunksOf(objs') = T0, Len(objs') = Len(objs), Alive' = Alive,
         NEW S, NEW s \in Seq(S), AllFree(s, Y), Entered(s, call, winds, Z0, Alive),
         RaiseContinuable(s), ~Checking(call.run), ~NeverReturns(call.run)
  PROVE  ObjectsOf(Y)'
<1>1. CASE IsPair(handlers)
  <2> DEFINE thunk == HandlerThunk(Head(handlers), TRUE)
  <2>1. Spares(thunk, Y[curDW])
    BY DEF HandlerThunk, Spares
  <2>2. WithExceptionHandlers(s, Tail(handlers), thunk)
    BY <1>1 DEF RaiseContinuable
  <2> HIDE DEF thunk
  <2> QED
    BY <2>1, <2>2, HandlersObjects
<1>2. CASE ~IsPair(handlers)
  <2>1. stack' = s /\ call' = Closure(Raise, curDW)
    BY <1>2 DEF RaiseContinuable, Apply
  <2>2. Harmless(Raise)
    BY DEF Raise, Harmless
  <2>3. Free(Closure(Raise, curDW), Y) /\ Enters(Closure(Raise, curDW), winds) = {}
    BY <2>2, HarmlessFrame
  <2>4. Entered(s, Closure(Raise, curDW), winds, Z0, Alive')
    BY EnteredCall
  <2>5. Y[curDW] \cap Z0 \subseteq Alive
    BY GivenObjects
  <2> QED
    BY <2>1, <2>3, <2>4, <2>5, SameObjects
<1> QED
  BY <1>1, <1>2

-----------------------------------------------------------------------------
(* Steps of managed objects and environments *)

\* A frame pushed for later, between other pushes: the pending call is the same.
LEMMA FramePushed ==
  ASSUME IInv, NEW Y, NEW S, NEW s \in Seq(S), AllFree(s, Y),
         Entered(s, call, winds, Z0, Alive), ~Checking(call.run), ~NeverReturns(call.run),
         NEW q, NEW d, Free(Closure(q, d), Y), Enters(Closure(q, d), winds) = {}
  PROVE  /\ Push(s, q, d) \in Seq(S \cup {Closure(q, d)})
         /\ AllFree(Push(s, q, d), Y) /\ Entered(Push(s, q, d), call, winds, Z0, Alive)
<1>1. s \in Seq(S \cup {Closure(q, d)})
  BY SeqMonotonic
<1>2. Push(s, q, d) \in Seq(S \cup {Closure(q, d)})
  BY <1>1, PushFrames
<1>3. AllFree(Push(s, q, d), Y)
  BY FreePush
<1>4. Entered(Push(s, q, d), call, winds, Z0, Alive)
  BY EnteredPush
<1> QED
  BY <1>2, <1>3, <1>4

\* Which objects are alive when one is marked or destroyed.
LEMMA AliveKept ==
  ASSUME NEW m, objs \in Seq(Objects(m)), NEW o, NEW b
  PROVE  /\ objs' = [objs EXCEPT ![o].isError = b] => Alive' = Alive
         /\ objs' = [objs EXCEPT ![o].alive = FALSE] => Alive' = Alive \ {o}
<1>1. \A i \in DOMAIN objs : objs[i] \in Objects(m)
  BY ElementOfSeq, LenProperties
<1> DEFINE P == [objs EXCEPT ![o].isError = b]
           Q == [objs EXCEPT ![o].alive = FALSE]
<1>2. DOMAIN P = DOMAIN objs /\ DOMAIN Q = DOMAIN objs
  OBVIOUS
<1>3. ASSUME NEW i \in DOMAIN objs
      PROVE  P[i].alive = objs[i].alive /\ (i # o => Q[i].alive = objs[i].alive)
             /\ (i = o => ~Q[i].alive)
  BY <1>1, <1>3 DEF Objects
<1> HIDE DEF P, Q
<1>4. {i \in DOMAIN P : P[i].alive} = Alive
  BY <1>2, <1>3 DEF Alive
<1>5. {i \in DOMAIN Q : Q[i].alive} = Alive \ {o}
  BY <1>2, <1>3 DEF Alive
<1>6. objs' = P => Alive' = {i \in DOMAIN P : P[i].alive}
  BY DEF Alive
<1>7. objs' = Q => Alive' = {i \in DOMAIN Q : Q[i].alive}
  BY DEF Alive
<1> QED
  BY <1>4, <1>5, <1>6, <1>7 DEF P, Q

\* What is known while a closure of an object is about to run.
LEMMA ObjectCalled ==
  ASSUME ContextInv,
         call.run.fn \in {"ClearMark", "Destroy", "SafeBefore", "SafeAfter",
                          "ErrorThunk", "ErrorHandler"}
  PROVE  /\ IInv /\ call.run.o \in DOMAIN objs /\ objs \in Seq(Objects(Len(objs)))
         /\ Len(objs) \in Nat
         /\ T0[call.run.o].before = objs[call.run.o].before
         /\ IsObjectThunk(objs[call.run.o].before) /\ IsObjectThunk(objs[call.run.o].after)
         /\ \A p : IsObjectThunk(p) => Harmless(p)
<1>1. IInv
  BY DEF ContextInv
<1>2. /\ call.run.o \in 1..Len(objs) /\ objs \in Seq(Objects(Len(objs))) /\ Len(objs) \in Nat
  BY <1>1, OfAnObject, Parts
<1>3. call.run.o \in DOMAIN objs
  BY <1>2, LenProperties
<1>4. /\ call.run.o \in DOMAIN T0 /\ T0[call.run.o].before = objs[call.run.o].before
      /\ T0[call.run.o].after = objs[call.run.o].after
  BY <1>3 DEF T0, ThunksOf
<1>5. IsObjectThunk(objs[call.run.o].before) /\ IsObjectThunk(objs[call.run.o].after)
  BY <1>4, Shapes DEF ObjectsSetEnv
<1>6. \A p : IsObjectThunk(p) => Harmless(p)
  BY DEF IsObjectThunk, Harmless
<1> QED
  BY <1>1, <1>2, <1>3, <1>4, <1>5, <1>6

\* The extent of the object is about to be entered, after its check.
LEMMA ErrorThunkObjects ==
  ASSUME IInv, NEW Y, ObjectsOf(Y), ErrorThunk PROVE ObjectsOf(Y)'
<1> DEFINE o == call.run.o
           before == OfObject("SafeBefore", o)
           after == OfObject("SafeAfter", o)
           thunk == User("thunk")
           F == Frames(Len(winds), Len(objs), Len(conts))
<1>1. /\ stack \in Seq(F) /\ AllFree(stack, Y) /\ Entered(stack, call, winds, Z0, Alive)
      /\ Spares(call.run, Y[curDW])
  BY GivenObjects DEF Stacks
<1>2. /\ before.fn = "SafeBefore" /\ before.o = o /\ after.fn = "SafeAfter" /\ after.o = o
      /\ thunk.fn = "User"
  BY DEF OfObject, User
<1>3. ~NeverReturns(call.run) /\ ~Checking(call.run) /\ o \notin Y[curDW]
  BY <1>1 DEF ErrorThunk, Calling, NeverReturns, FailsOnReturn, Checking, Spares
<1>4. DynamicWind(stack, before, thunk, after) /\ UNCHANGED <<winds, conts, curDW, objs>>
  BY DEF ErrorThunk
<1>5. ThunksOf(objs') = T0 /\ Len(objs') = Len(objs) /\ Alive' = Alive
  BY <1>4, ObjectsUnchanged
<1>6. \A i \in Opened(before) : before = OfObject("SafeBefore", i)
  BY DEF Opened, OfObject
<1> HIDE DEF before, after, thunk, o, F
<1>7. Direct(before) /\ Spares(before, Y[curDW])
  BY <1>2 DEF Direct, Spares
<1>8. Spares(after, Y[curDW]) /\ Spares(thunk, Y[curDW] \cup Opened(before))
  BY <1>2, <1>3 DEF Spares
<1> QED
  BY <1>1, <1>3, <1>4, <1>5, <1>6, <1>7, <1>8, DynamicWindObjects

\* The check: what waits for it goes on only if the object is alive.
LEMMA SafeBeforeObjects ==
  ASSUME ContextInv, NEW Y, ObjectsOf(Y), SafeBefore PROVE ObjectsOf(Y)'
<1> DEFINE o == call.run.o
           p == objs[o].before
           c2 == Closure(IF objs[o].alive THEN p ELSE Raise, curDW)
<1>1. /\ IInv /\ o \in DOMAIN objs /\ T0[o].before = p /\ IsObjectThunk(p) /\ Harmless(p)
  BY ObjectCalled DEF SafeBefore, Calling
<1>2. /\ AllFree(stack, Y) /\ Entered(stack, call, winds, Z0, Alive)
      /\ Y[curDW] \cap Z0 \subseteq Alive
  BY <1>1, GivenObjects
<1>3. call' = c2 /\ UNCHANGED <<stack, winds, conts, curDW, objs>>
  BY DEF SafeBefore, Apply
<1>4. ThunksOf(objs') = T0 /\ Len(objs') = Len(objs) /\ Alive' = Alive
  BY <1>3, ObjectsUnchanged
<1>5. c2.run = IF objs[o].alive THEN p ELSE Raise
  BY DEF Closure
<1>6. Harmless(Raise) /\ NeverReturns(Raise)
  BY DEF Raise, Harmless, NeverReturns
<1>7. Free(c2, Y) /\ Enters(c2, winds) = {}
  <2>1. Harmless(IF objs[o].alive THEN p ELSE Raise)
    BY <1>1, <1>6
  <2> QED
    BY <2>1, HarmlessFrame
<1>8. objs[o].alive <=> o \in Alive
  BY <1>1 DEF Alive
<1>9. ~NeverReturns(call.run) /\ call.run.fn = "SafeBefore"
  BY DEF SafeBefore, Calling, NeverReturns, FailsOnReturn
<1>10. \A i : Checks(call, i, Alive) => i = o
  BY <1>9 DEF Checks, OfObject
<1>11. o \in Z0 => p.fn = "SetEnv"
  BY <1>1 DEF Z0, Envs
<1> HIDE DEF c2, p, o
<1>12. ASSUME NEW i \in 1..Len(stack), NEW x \in Enters(stack[i], winds) \cap Z0
       PROVE  Shadowed(stack, i, c2) \/ (i = Len(stack) /\ Checks(c2, x, Alive'))
  <2>1. CASE Shadowed(stack, i, call)
    BY <2>1, <1>9 DEF Shadowed
  <2>2. CASE i = Len(stack) /\ Checks(call, x, Alive)
    <3>1. x = o /\ x \in Z0
      BY <2>2, <1>10
    <3>2. CASE o \in Alive
      <4>1. c2.run.fn = "SetEnv"
        BY <3>1, <3>2, <1>5, <1>8, <1>11
      <4> QED
        BY <4>1, <3>1, <3>2, <2>2, <1>4 DEF Checks
    <3>3. CASE o \notin Alive
      <4>1. c2.run = Raise
        BY <3>3, <1>5, <1>8
      <4> QED
        BY <4>1, <1>6 DEF Shadowed
    <3> QED
      BY <3>2, <3>3
  <2> QED
    BY <2>1, <2>2, <1>2, <1>12 DEF Entered
<1>13. Entered(stack, c2, winds, Z0, Alive')
  BY <1>12 DEF Entered
<1> QED
  BY <1>2, <1>3, <1>4, <1>7, <1>13, SameObjects

LEMMA SafeAfterObjects ==
  ASSUME ContextInv, NEW Y, ObjectsOf(Y), SafeAfter PROVE ObjectsOf(Y)'
<1> DEFINE o == call.run.o
           q == OfObject("Destroy", o)
           p == objs[o].after
           F == Frames(Len(winds), Len(objs), Len(conts))
<1>1. IInv /\ Harmless(p)
  BY ObjectCalled DEF SafeAfter, Calling
<1>2. /\ stack \in Seq(F) /\ AllFree(stack, Y) /\ Entered(stack, call, winds, Z0, Alive)
      /\ Spares(call.run, Y[curDW]) /\ Y[curDW] \cap Z0 \subseteq Alive
  BY <1>1, GivenObjects DEF Stacks
<1>3. ~NeverReturns(call.run) /\ ~Checking(call.run) /\ o \notin Y[curDW]
  BY <1>2 DEF SafeAfter, Calling, NeverReturns, FailsOnReturn, Checking, Spares
<1>4. Free(Closure(q, curDW), Y) /\ Enters(Closure(q, curDW), winds) = {}
  BY <1>3 DEF Free, Spares, Enters, Closure, OfObject
<1>5. Apply(p, curDW) /\ UNCHANGED <<winds, conts, curDW, objs>>
  BY DEF SafeAfter
<1>6. ThunksOf(objs') = T0 /\ Len(objs') = Len(objs) /\ Alive' = Alive
  BY <1>5, ObjectsUnchanged
<1> HIDE DEF p
<1>7. Direct(p) /\ Spares(p, Y[curDW])
  BY <1>1, HarmlessFrame
<1>8. CASE objs[o].isError
  <2>1. stack' = Push(stack, q, curDW)
    BY <1>8 DEF SafeAfter
  <2> HIDE DEF q, F
  <2> QED
    BY <2>1, <1>1, <1>2, <1>3, <1>4, <1>5, <1>6, <1>7, PushCallObjects
<1>9. CASE ~objs[o].isError
  <2>1. stack' = stack
    BY <1>9 DEF SafeAfter
  <2> QED
    BY <2>1, <1>1, <1>3, <1>5, <1>6, <1>7, CallObjects
<1> QED
  BY <1>8, <1>9

LEMMA ErrorHandlerObjects ==
  ASSUME ContextInv, NEW Y, ObjectsOf(Y), ErrorHandler PROVE ObjectsOf(Y)'
<1> DEFINE q == OfObject("ClearMark", call.run.o)
           s == Push(stack, q, curDW)
           F == Frames(Len(winds), Len(objs), Len(conts))
           G == F \cup {Closure(q, curDW)}
<1>1. IInv /\ call.run.o \in DOMAIN objs /\ objs \in Seq(Objects(Len(objs))) /\ Len(objs) \in Nat
  BY ObjectCalled DEF ErrorHandler, Calling
<1>2. stack \in Seq(F) /\ AllFree(stack, Y) /\ Entered(stack, call, winds, Z0, Alive)
  BY <1>1, GivenObjects DEF Stacks
<1>3. ~NeverReturns(call.run) /\ ~Checking(call.run)
  BY DEF ErrorHandler, Calling, NeverReturns, FailsOnReturn, Checking
<1>4. Harmless(q)
  BY DEF Harmless, OfObject
<1>5. RaiseContinuable(s) /\ UNCHANGED <<winds, conts, curDW>>
      /\ objs' = [objs EXCEPT ![call.run.o].isError = TRUE]
  BY DEF ErrorHandler
<1>6. ThunksOf(objs') = T0 /\ Alive' = Alive /\ Len(objs') = Len(objs)
  <2>1. Len(objs') = Len(objs)
    BY <1>1, <1>5, ObjectChanged, LenProperties
  <2>2. ThunksOf(objs') = T0
    BY <1>1, <1>5, ThunksKept
  <2> QED
    BY <2>1, <2>2, <1>1, <1>5, AliveKept
<1> HIDE DEF q, F
<1>7. Free(Closure(q, curDW), Y) /\ Enters(Closure(q, curDW), winds) = {}
  BY <1>4, HarmlessFrame
<1>8. s \in Seq(G) /\ AllFree(s, Y) /\ Entered(s, call, winds, Z0, Alive)
  BY <1>1, <1>2, <1>3, <1>7, FramePushed
<1> HIDE DEF s, G
<1> QED
  BY <1>1, <1>3, <1>5, <1>6, <1>8, RaiseContinuableObjects

LEMMA ClearMarkObjects ==
  ASSUME ContextInv, NEW Y, ObjectsOf(Y), ClearMark PROVE ObjectsOf(Y)'
<1>1. IInv /\ call.run.o \in DOMAIN objs /\ objs \in Seq(Objects(Len(objs))) /\ Len(objs) \in Nat
  BY ObjectCalled DEF ClearMark, Calling
<1>2. ~NeverReturns(call.run) /\ ~Checking(call.run)
  BY DEF ClearMark, Calling, NeverReturns, FailsOnReturn, Checking
<1>3. objs' = [objs EXCEPT ![call.run.o].isError = FALSE]
  BY DEF ClearMark
<1>4. ThunksOf(objs') = T0 /\ Alive' = Alive /\ Len(objs') = Len(objs)
  <2>1. Len(objs') = Len(objs)
    BY <1>1, <1>3, ObjectChanged, LenProperties
  <2>2. ThunksOf(objs') = T0
    BY <1>1, <1>3, ThunksKept
  <2> QED
    BY <2>1, <2>2, <1>1, <1>3, AliveKept
<1> QED
  BY <1>1, <1>2, <1>4, QuietReturnObjects DEF ClearMark

\* The object that is destroyed is around no code that runs.
LEMMA DestroyObjects ==
  ASSUME ContextInv, NEW Y, ObjectsOf(Y), Destroy
  PROVE  /\ ObjectsOf(Y)' /\ Alive' = Alive \ {call.run.o} /\ call.run.o \notin Y[curDW]
<1>1. IInv /\ call.run.o \in DOMAIN objs /\ objs \in Seq(Objects(Len(objs))) /\ Len(objs) \in Nat
  BY ObjectCalled DEF Destroy, Calling
<1>2. ~NeverReturns(call.run) /\ ~Checking(call.run)
  BY DEF Destroy, Calling, NeverReturns, FailsOnReturn, Checking
<1>3. objs' = [objs EXCEPT ![call.run.o].alive = FALSE]
  BY DEF Destroy
<1>4. ThunksOf(objs') = T0 /\ Alive' = Alive \ {call.run.o} /\ Len(objs') = Len(objs)
  <2>1. Len(objs') = Len(objs)
    BY <1>1, <1>3, ObjectChanged, LenProperties
  <2>2. ThunksOf(objs') = T0
    BY <1>1, <1>3, ThunksKept
  <2> QED
    BY <2>1, <2>2, <1>1, <1>3, AliveKept
<1>5. call.run.o \notin Y[curDW] /\ Y[curDW] \cap Z0 \subseteq Alive
  BY <1>1, GivenObjects DEF Spares, Destroy, Calling
<1>6. \A o : ~Checks(call, o, Alive)
  BY <1>2, NoCheck
<1>7. UNCHANGED <<winds, conts, curDW>> /\ Cont(stack)
  BY DEF Destroy
<1>8. Y[curDW'] \cap Z0 \subseteq Alive'
  BY <1>4, <1>5, <1>7
<1>9. ObjectsOf(Y)'
  BY <1>1, <1>2, <1>4, <1>6, <1>7, <1>8, ReturnObjects
<1> QED
  BY <1>4, <1>5, <1>9

LEMMA DestroyAgainObjects ==
  ASSUME IInv, NEW Y, ObjectsOf(Y), DestroyAgain PROVE ObjectsOf(Y)'
<1>1. ~Checking(call.run)
  BY DEF DestroyAgain, Calling, Checking
<1> QED
  BY <1>1, RaisingObjects DEF DestroyAgain

LEMMA CallSetEnvObjects ==
  ASSUME IInv, NEW Y, ObjectsOf(Y), CallSetEnv PROVE ObjectsOf(Y)'
<1>1. ~NeverReturns(call.run) /\ call.run.fn = "SetEnv"
  BY DEF CallSetEnv, Calling, NeverReturns, FailsOnReturn
<1>2. UNCHANGED <<winds, conts, curDW, objs>> /\ Cont(stack)
  BY DEF CallSetEnv
<1>3. ThunksOf(objs') = T0 /\ Len(objs') = Len(objs) /\ Alive' = Alive
  BY <1>2, ObjectsUnchanged
<1>4. \A o : Checks(call, o, Alive) => o \in Alive'
  BY <1>1, <1>3 DEF Checks, OfObject
<1>5. Y[curDW'] \cap Z0 \subseteq Alive'
  BY <1>2, <1>3, GivenObjects
<1> QED
  BY <1>1, <1>2, <1>3, <1>4, <1>5, ReturnObjects

-----------------------------------------------------------------------------
(* Steps of user code *)

\* The continuation of the running user code destroys nothing.
LEMMA HereObjects ==
  ASSUME IInv, NEW Y, ObjectsOf(Y), Calling("User")
  PROVE  /\ ~NeverReturns(call.run) /\ ~Checking(call.run)
         /\ \E S : Here \in Seq(S)
         /\ AllFree(Here, Y) /\ Entered(Here, call, winds, Z0, Alive)
<1> DEFINE q == User("main")
           F == Frames(Len(winds), Len(objs), Len(conts))
<1>1. ~NeverReturns(call.run) /\ ~Checking(call.run)
  BY DEF Calling, NeverReturns, FailsOnReturn, Checking
<1>2. stack \in Seq(F) /\ AllFree(stack, Y) /\ Entered(stack, call, winds, Z0, Alive)
  BY GivenObjects DEF Stacks
<1>3. Harmless(q) /\ Here = Push(stack, q, curDW)
  BY DEF Harmless, User, Here
<1> HIDE DEF q, F
<1>4. Free(Closure(q, curDW), Y) /\ Enters(Closure(q, curDW), winds) = {}
  BY <1>3, HarmlessFrame
<1>5. /\ Here \in Seq(F \cup {Closure(q, curDW)})
      /\ AllFree(Here, Y) /\ Entered(Here, call, winds, Z0, Alive)
  BY <1>1, <1>2, <1>3, <1>4, FramePushed
<1> QED
  BY <1>1, <1>5

LEMMA UserReturnObjects ==
  ASSUME IInv, NEW Y, ObjectsOf(Y), UserReturn PROVE ObjectsOf(Y)'
<1>1. ~NeverReturns(call.run) /\ ~Checking(call.run) /\ UNCHANGED objs
  BY DEF UserReturn, Calling, NeverReturns, FailsOnReturn, Checking
<1> QED
  BY <1>1, ObjectsUnchanged, QuietReturnObjects DEF UserReturn

LEMMA UserWindObjects ==
  ASSUME IInv, NEW Y, ObjectsOf(Y), UserWind PROVE ObjectsOf(Y)'
<1> DEFINE before == User("before")
           thunk == User("thunk")
           after == User("after")
<1>1. Harmless(before) /\ Harmless(thunk) /\ Harmless(after) /\ Opened(before) = {}
  BY DEF User, Harmless, Opened
<1>2. /\ DynamicWind(Here, before, thunk, after) /\ UNCHANGED <<winds, conts, curDW, objs>>
      /\ Calling("User")
  BY DEF UserWind, Use
<1> HIDE DEF before, thunk, after
<1>3. /\ ~NeverReturns(call.run) /\ ~Checking(call.run)
      /\ AllFree(Here, Y) /\ Entered(Here, call, winds, Z0, Alive)
  BY <1>2, HereObjects
<1>4. PICK S : Here \in Seq(S)
  BY <1>2, HereObjects
<1>5. ThunksOf(objs') = T0 /\ Len(objs') = Len(objs) /\ Alive' = Alive
  BY <1>2, ObjectsUnchanged
<1>6. /\ Direct(before) /\ Spares(before, Y[curDW]) /\ Spares(after, Y[curDW])
      /\ Spares(thunk, Y[curDW] \cup Opened(before))
  BY <1>1 DEF Harmless, Direct, Spares
<1>7. \A o \in Opened(before) : before = OfObject("SafeBefore", o)
  BY <1>1
<1> QED
  BY <1>2, <1>3, <1>4, <1>5, <1>6, <1>7, DynamicWindObjects

LEMMA UserThrowObjects ==
  ASSUME IInv, NEW Y, ObjectsOf(Y), UserThrow PROVE ObjectsOf(Y)'
<1>1. PICK k \in DOMAIN conts : Apply(Escape(k), curDW)
  BY DEF UserThrow
<1>2. Direct(Escape(k)) /\ Spares(Escape(k), Y[curDW])
  BY DEF Escape, Direct, Spares
<1>3. ~NeverReturns(call.run) /\ ~Checking(call.run)
      /\ UNCHANGED <<stack, winds, conts, curDW, objs>>
  BY DEF UserThrow, Use, Calling, NeverReturns, FailsOnReturn, Checking
<1>4. ThunksOf(objs') = T0 /\ Len(objs') = Len(objs) /\ Alive' = Alive
  BY <1>3, ObjectsUnchanged
<1> QED
  BY <1>1, <1>2, <1>3, <1>4, CallObjects

LEMMA UserRaiseObjects ==
  ASSUME IInv, NEW Y, ObjectsOf(Y), UserRaise PROVE ObjectsOf(Y)'
<1>1. ~Checking(call.run)
  BY DEF UserRaise, Use, Calling, Checking
<1> QED
  BY <1>1, RaisingObjects DEF UserRaise, Use

LEMMA UserRaiseContinuableObjects ==
  ASSUME IInv, NEW Y, ObjectsOf(Y), UserRaiseContinuable PROVE ObjectsOf(Y)'
<1>1. RaiseContinuable(Here) /\ UNCHANGED <<winds, conts, curDW, objs>> /\ Calling("User")
  BY DEF UserRaiseContinuable, Use
<1>2. /\ ~NeverReturns(call.run) /\ ~Checking(call.run)
      /\ AllFree(Here, Y) /\ Entered(Here, call, winds, Z0, Alive)
  BY <1>1, HereObjects
<1>3. PICK S : Here \in Seq(S)
  BY <1>1, HereObjects
<1>4. ThunksOf(objs') = T0 /\ Len(objs') = Len(objs) /\ Alive' = Alive
  BY <1>1, ObjectsUnchanged
<1> QED
  BY <1>1, <1>2, <1>3, <1>4, RaiseContinuableObjects

LEMMA UserHandlerObjects ==
  ASSUME IInv, NEW Y, ObjectsOf(Y), UserHandler PROVE ObjectsOf(Y)'
<1> DEFINE hs == <<User("handler")>> \o handlers
           thunk == User("thunk")
<1>1. /\ WithExceptionHandlers(Here, hs, thunk) /\ UNCHANGED <<winds, conts, curDW, objs>>
      /\ Calling("User")
  BY DEF UserHandler, Use
<1>2. Spares(thunk, Y[curDW])
  BY DEF User, Spares
<1> HIDE DEF hs, thunk
<1>3. /\ ~NeverReturns(call.run) /\ ~Checking(call.run)
      /\ AllFree(Here, Y) /\ Entered(Here, call, winds, Z0, Alive)
  BY <1>1, HereObjects
<1>4. PICK S : Here \in Seq(S)
  BY <1>1, HereObjects
<1>5. ThunksOf(objs') = T0 /\ Len(objs') = Len(objs) /\ Alive' = Alive
  BY <1>1, ObjectsUnchanged
<1> QED
  BY <1>1, <1>2, <1>3, <1>4, <1>5, HandlersObjects

LEMMA HostCallObjects ==
  ASSUME IInv, NEW Y, ObjectsOf(Y), HostCall PROVE ObjectsOf(Y)'
<1> DEFINE p == User("main")
<1>1. Direct(p) /\ Spares(p, Y[curDW])
  BY DEF User, Direct, Spares
<1>2. ~NeverReturns(call.run) /\ ~Checking(call.run)
  BY DEF HostCall, Halted, Calling, NeverReturns, FailsOnReturn, Checking
<1>3. Apply(p, curDW) /\ UNCHANGED <<stack, winds, conts, curDW, objs>>
  BY DEF HostCall
<1>4. ThunksOf(objs') = T0 /\ Len(objs') = Len(objs) /\ Alive' = Alive
  BY <1>3, ObjectsUnchanged
<1> HIDE DEF p
<1> QED
  BY <1>1, <1>2, <1>3, <1>4, CallObjects

\* What is saved destroys nothing, and enters the extent of no environment
\* before it is checked.
LEMMA UserCallCCObjects ==
  ASSUME IInv, NEW Y, ObjectsOf(Y), UserCallCC PROVE ObjectsOf(Y)'
<1> DEFINE k == Len(conts)
           saved == [stack |-> Here, dw |-> curDW]
           D == conts'
           c2 == Closure(User("thunk"), curDW)
<1>1. /\ ~NeverReturns(call.run) /\ ~Checking(call.run)
      /\ AllFree(Here, Y) /\ Entered(Here, call, winds, Z0, Alive)
  BY HereObjects DEF UserCallCC, Use
<1>2. D = Append(conts, saved) /\ conts \in Seq(SavedStacks(Len(winds), Len(objs), k))
  BY Parts DEF UserCallCC, Data
<1>3. k \in Nat /\ Len(D) = k + 1 /\ (\A i \in 1..k : D[i] = conts[i]) /\ D[k + 1] = saved
  <2> HIDE DEF saved, D
  <2>1. k \in Nat
    BY Parts
  <2> HIDE DEF k
  <2>2. conts \in Seq(SavedStacks(Len(winds), Len(objs), k) \cup {saved})
    BY <1>2, SeqMonotonic
  <2> QED
    BY <2>1, <2>2, <1>2, AppendProperties DEF k
<1>4. SavedObjects(conts, Y, winds, Z0) /\ Y[curDW] \cap Z0 \subseteq Alive
  BY GivenObjects
<1>5. Entered(Here, Bottom, winds, Z0, {}) /\ Entered(Here, c2, winds, Z0, Alive)
  BY <1>1, EnteredCall
<1>6. Harmless(User("thunk"))
  BY DEF User, Harmless
<1>7. Free(c2, Y) /\ Enters(c2, winds) = {}
  BY <1>6, HarmlessFrame
<1>8. saved.stack = Here
  OBVIOUS
<1>9. /\ stack' = Here /\ call' = c2 /\ curDW' = curDW /\ winds' = winds /\ objs' = objs
  BY DEF UserCallCC, Use, Apply
<1> HIDE DEF k, saved, c2
<1>10. SavedObjects(D, Y, winds, Z0)
  <2> HIDE DEF D
  <2> SUFFICES ASSUME NEW i \in 1..(k + 1)
               PROVE  AllFree(D[i].stack, Y) /\ Entered(D[i].stack, Bottom, winds, Z0, {})
    BY <1>3 DEF SavedObjects
  <2>1. CASE i = k + 1
    <3>1. D[i].stack = Here
      BY <2>1, <1>3, <1>8
    <3> QED
      BY <3>1, <1>1, <1>5
  <2>2. CASE i # k + 1
    <3>1. i \in 1..k /\ D[i] = conts[i]
      BY <2>2, <1>3
    <3> QED
      BY <3>1, <1>4 DEF SavedObjects, k
  <2> QED
    BY <2>1, <2>2
<1>11. Alive' = Alive /\ ThunksOf(objs') = ThunksOf(objs)
  BY <1>9 DEF Alive
<1> QED
  BY <1>1, <1>4, <1>5, <1>7, <1>9, <1>10, <1>11 DEF ObjectsOf, Z0, T0

-----------------------------------------------------------------------------
(* Windings and objects are only ever added *)

\* W2, Y2 and Z2 extend what W, Y and Z say of n windings and m objects.
Grown(Y, Y2, W, W2, Z, Z2, n, m) ==
  /\ n \in Nat /\ m \in Nat /\ W \in Seq(Windings(n, m)) /\ Len(W) = n
  /\ \A w \in 0..n : Y2[w] = Y[w]
  /\ \A w \in 1..n : W2[w] = W[w]
  /\ Z2 \cap (1..m) \subseteq Z

LEMMA SameEnters ==
  ASSUME NEW Y, NEW Y2, NEW W, NEW W2, NEW Z, NEW Z2, NEW n, NEW m, NEW k \in Nat,
         Grown(Y, Y2, W, W2, Z, Z2, n, m), NEW f \in Frames(n, m, k)
  PROVE  /\ Free(f, Y) => Free(f, Y2)
         /\ Enters(f, W2) \cap Z2 \subseteq Enters(f, W) \cap Z
<1>1. f.at \in 0..n /\ f.run \in Continuations(n, m, k)
  BY DEF Frames
<1>2. f.run \in Pending(n, m, k) /\ n \in Nat /\ m \in Nat
  BY <1>1 DEF Pending, Grown
<1>3. Y2[f.at] = Y[f.at]
  BY <1>1 DEF Grown
<1>4. Free(f, Y) => Free(f, Y2)
  BY <1>3 DEF Free
<1>5. \A p \in Thunks(m) : Opened(p) \subseteq 1..m
  <2>1. \A p \in Thunks(m) : p.fn = "SafeBefore" => p.o \in 1..m
    BY <1>2, Captures DEF Pending
  <2> QED
    BY <2>1 DEF Opened
<1>6. f.run.fn = "SetDW" => W2[f.run.dest] = W[f.run.dest] /\ W[f.run.dest].before \in Thunks(m)
  <2>1. f.run.fn = "SetDW" => f.run.dest \in 1..n
    BY <1>2, Captures
  <2>2. \A w \in 1..n : W[w] \in Windings(n, m)
    BY ElementOfSeq DEF Grown
  <2> QED
    BY <2>1, <2>2 DEF Grown, Windings
<1>7. f.run.fn = "WindBody" => f.run.before \in Thunks(m)
  BY <1>2, Captures
<1>8. Enters(f, W2) = Enters(f, W) /\ Enters(f, W) \subseteq 1..m
  BY <1>5, <1>6, <1>7 DEF Enters
<1> QED
  BY <1>4, <1>8 DEF Grown

LEMMA SameStack ==
  ASSUME NEW Y, NEW Y2, NEW W, NEW W2, NEW Z, NEW Z2, NEW n, NEW m, NEW k \in Nat,
         Grown(Y, Y2, W, W2, Z, Z2, n, m), NEW s \in Seq(Frames(n, m, k)),
         NEW c, NEW A, AllFree(s, Y), Entered(s, c, W, Z, A)
  PROVE  AllFree(s, Y2) /\ Entered(s, c, W2, Z2, A)
<1>1. \A i \in 1..Len(s) : s[i] \in Frames(n, m, k)
  BY ElementOfSeq
<1>2. \A i \in 1..Len(s) : /\ Free(s[i], Y) => Free(s[i], Y2)
                           /\ Enters(s[i], W2) \cap Z2 \subseteq Enters(s[i], W) \cap Z
  <2> SUFFICES ASSUME NEW i \in 1..Len(s)
               PROVE  /\ Free(s[i], Y) => Free(s[i], Y2)
                      /\ Enters(s[i], W2) \cap Z2 \subseteq Enters(s[i], W) \cap Z
    OBVIOUS
  <2>1. PICK f \in Frames(n, m, k) : f = s[i]
    BY <1>1
  <2>2. /\ Free(f, Y) => Free(f, Y2)
        /\ Enters(f, W2) \cap Z2 \subseteq Enters(f, W) \cap Z
    BY SameEnters
  <2> QED
    BY <2>1, <2>2
<1>3. AllFree(s, Y2)
  BY <1>2 DEF AllFree
<1>4. Entered(s, c, W2, Z2, A)
  BY <1>2 DEF Entered
<1> QED
  BY <1>3, <1>4

LEMMA SameSavedObjects ==
  ASSUME NEW Y, NEW Y2, NEW W, NEW W2, NEW Z, NEW Z2, NEW n, NEW m, NEW k \in Nat,
         Grown(Y, Y2, W, W2, Z, Z2, n, m), NEW C \in Seq(SavedStacks(n, m, k)),
         SavedObjects(C, Y, W, Z)
  PROVE  SavedObjects(C, Y2, W2, Z2)
<1> SUFFICES ASSUME NEW i \in 1..Len(C)
             PROVE  AllFree(C[i].stack, Y2) /\ Entered(C[i].stack, Bottom, W2, Z2, {})
  BY DEF SavedObjects
<1>1. AllFree(C[i].stack, Y) /\ Entered(C[i].stack, Bottom, W, Z, {})
  BY DEF SavedObjects
<1>2. C[i].stack \in Seq(Frames(n, m, k))
  <2>1. C[i] \in SavedStacks(n, m, k)
    BY ElementOfSeq
  <2> QED
    BY <2>1 DEF SavedStacks
<1> QED
  BY <1>1, <1>2, SameStack

\* The new winding is around no code that destroys its object: that of the
\* closure was checked when it was made.
LEMMA WindBodyObjects ==
  ASSUME ContextInv, NEW Y, ObjectsOf(Y), WindBody
  PROVE  \E Y2 : (\A w \in 0..Len(winds) : Y2[w] = Y[w]) /\ ObjectsOf(Y2)'
<1> DEFINE n == Len(winds)
           m == Len(objs)
           k == Len(conts)
           b == call.run.before
           t == call.run.thunk
           a == call.run.after
           d == curDW
           W == winds'
           exit == [fn |-> "WindExit", after |-> a, prev |-> d]
           wind == [depth |-> Depth(d) + 1, parent |-> d, before |-> b, after |-> a]
           c2 == Closure(t, n + 1)
           F == Frames(n, m, k)
<1>1. IInv
  BY DEF ContextInv
<1>2. /\ n \in Nat /\ m \in Nat /\ k \in Nat /\ d \in 0..n /\ call.at = d
      /\ winds \in Seq(Windings(n, m)) /\ conts \in Seq(SavedStacks(n, m, k))
      /\ call.run \in Pending(n, m, k) /\ call.run.fn = "WindBody"
  BY <1>1, Parts DEF Data, WindBody, Calling
<1>3. b \in Thunks(m) /\ t \in Thunks(m) /\ a \in Thunks(m) /\ IsBefore(b) /\ ~Changes(t)
  BY <1>2, Captures, Shapes
<1>4. /\ Around0(winds, Y, m) /\ stack \in Seq(F) /\ AllFree(stack, Y) /\ Free(call, Y)
      /\ Entered(stack, call, winds, Z0, Alive) /\ Enters(call, winds) \cap Z0 \subseteq Alive
      /\ Y[d] \cap Z0 \subseteq Alive /\ SavedObjects(conts, Y, winds, Z0)
  BY <1>1, GivenObjects DEF Stacks
<1>5. Spares(a, Y[d]) /\ Spares(t, Y[d] \cup Opened(b)) /\ Opened(b) \cap Z0 \subseteq Alive
  BY <1>2, <1>4 DEF Free, Enters
<1>6. Opened(b) \subseteq 1..m
  BY <1>3, BeforeThunk
<1>7. /\ W = Append(winds, wind) /\ stack' = Push(stack, exit, n + 1) /\ call' = c2
      /\ conts' = conts /\ objs' = objs /\ curDW' = n + 1
  BY DEF WindBody, Apply
<1>8. wind.parent = d /\ wind.before = b /\ wind.after = a
  OBVIOUS
<1>9. Harmless(exit)
  BY DEF Harmless
<1>10. /\ Direct(t) /\ ~Checking(call.run)
       /\ NeverReturns(call.run) => NeverReturns(t)
  <2>1. Direct(t)
    <3> HIDE DEF t
    <3> QED
      BY <1>3 DEF Thunks, Direct, Handlers
  <2>2. NeverReturns(call.run) => NeverReturns(t)
    BY <1>2 DEF NeverReturns, FailsOnReturn
  <2> QED
    BY <2>1, <2>2, <1>2 DEF Checking
<1>11. c2.run = t /\ c2.at = n + 1
  BY DEF Closure
<1> HIDE DEF n, m, k, b, t, a, d, W, exit, wind, c2, F
<1>12. PICK Y2 : Y2 = [w \in 0..(n + 1) |-> IF w = n + 1 THEN Y[d] \cup Opened(b) ELSE Y[w]]
  OBVIOUS
<1>13. Y2[n + 1] = Y[d] \cup Opened(b) /\ \A w \in 0..n : Y2[w] = Y[w]
  BY <1>2, <1>12
<1>14. Len(W) = n + 1 /\ (\A w \in 1..n : W[w] = winds[w]) /\ W[n + 1] = wind
  <2>1. winds \in Seq(Windings(n, m) \cup {wind})
    BY <1>2, SeqMonotonic
  <2> QED
    BY <2>1, <1>7, AppendProperties DEF n
<1>15. Grown(Y, Y2, winds, W, Z0, Z0, n, m)
  BY <1>2, <1>13, <1>14 DEF Grown, n
<1>16. Around0(W, Y2, m)
  <2>1. Y2[0] = {}
    BY <1>2, <1>4, <1>13 DEF Around0
  <2>2. ASSUME NEW w \in 0..(n + 1)
        PROVE  Y2[w] \subseteq 1..m
    <3>1. \A i \in 0..n : Y[i] \subseteq 1..m
      BY <1>4 DEF Around0, n
    <3>2. w = n + 1 \/ w \in 0..n
      BY <1>2
    <3> QED
      BY <3>1, <3>2, <1>2, <1>6, <1>13
  <2>3. ASSUME NEW w \in 1..(n + 1)
        PROVE  /\ Y2[w] = Y2[W[w].parent] \cup Opened(W[w].before)
               /\ Spares(W[w].after, Y2[W[w].parent])
    <3>1. CASE w = n + 1
      <4>1. W[w].parent = d /\ W[w].before = b /\ W[w].after = a
        BY <3>1, <1>8, <1>14
      <4>2. Y2[d] = Y[d] /\ Y2[w] = Y[d] \cup Opened(b)
        BY <3>1, <1>2, <1>13
      <4> QED
        BY <4>1, <4>2, <1>5
    <3>2. CASE w # n + 1
      <4>1. w \in 1..n /\ w \in 0..n /\ W[w] = winds[w]
        BY <3>2, <1>2, <1>14
      <4>2. winds[w].parent \in 0..n
        <5>1. winds[w] \in Windings(n, m)
          BY <4>1, <1>2, ElementOfSeq DEF n
        <5> QED
          BY <5>1 DEF Windings
      <4>3. Y2[w] = Y[w] /\ Y2[winds[w].parent] = Y[winds[w].parent]
        BY <4>1, <4>2, <1>13
      <4>4. /\ Y[w] = Y[winds[w].parent] \cup Opened(winds[w].before)
            /\ Spares(winds[w].after, Y[winds[w].parent])
        BY <4>1, <1>4 DEF Around0, n
      <4> QED
        BY <4>1, <4>3, <4>4
    <3> QED
      BY <3>1, <3>2
  <2> QED
    BY <2>1, <2>2, <2>3, <1>14 DEF Around0
<1>17. AllFree(stack, Y2) /\ Entered(stack, call, W, Z0, Alive) /\ SavedObjects(conts, Y2, W, Z0)
  BY <1>2, <1>4, <1>15, SameStack, SameSavedObjects DEF F
<1>18. Free(Closure(exit, n + 1), Y2) /\ Enters(Closure(exit, n + 1), W) = {}
  BY <1>9, HarmlessFrame
<1>19. AllFree(Push(stack, exit, n + 1), Y2)
  BY <1>4, <1>17, <1>18, FreePush
<1>20. Entered(Push(stack, exit, n + 1), c2, W, Z0, Alive)
  BY <1>4, <1>10, <1>11, <1>17, <1>18, EnteredPush
<1>21. Free(c2, Y2) /\ Enters(c2, W) = {}
  BY <1>5, <1>10, <1>11, <1>13 DEF Free, Enters, Direct
<1>22. Y2[n + 1] \cap Z0 \subseteq Alive
  BY <1>4, <1>5, <1>13
<1>23. Alive' = Alive /\ ThunksOf(objs') = T0 /\ Len(objs') = m
  BY <1>7 DEF Alive, T0, m
<1>24. ObjectsOf(Y2)'
  BY <1>7, <1>16, <1>17, <1>19, <1>20, <1>21, <1>22, <1>23 DEF ObjectsOf, Z0, W
<1> QED
  BY <1>13, <1>24 DEF n

\* A new object: nothing refers to it yet, so its destruction is in order
\* where it is created.
LEMMA ManagedObjects ==
  ASSUME ContextInv, NEW Y, ObjectsOf(Y), Calling("User"), UNCHANGED <<curDW, winds, conts>>,
         NEW before, NEW after, ManagedObjectWind(Here, before, after)
  PROVE  ObjectsOf(Y)'
<1> DEFINE n == Len(winds)
           m == Len(objs)
           k == Len(conts)
           o == m + 1
           d == curDW
           obj == [alive |-> TRUE, isError |-> FALSE, before |-> before, after |-> after]
           destroy == OfObject("Destroy", o)
           thunk == OfObject("ErrorThunk", o)
           in == SetHandlers(<<OfObject("ErrorHandler", o)>> \o handlers)
           out == SetHandlers(handlers)
           body == [fn |-> "WindBody", before |-> in, thunk |-> thunk, after |-> out]
           s == Push(Here, destroy, d)
           O == objs'
           Z2 == Envs(ThunksOf(O))
           F == Frames(n, m, k)
<1>1. IInv /\ \E X : ContextOf(X)
  BY DEF ContextInv
<1>2. /\ n \in Nat /\ m \in Nat /\ k \in Nat /\ d \in 0..n
      /\ winds \in Seq(Windings(n, m)) /\ conts \in Seq(SavedStacks(n, m, k))
      /\ objs \in Seq(Objects(m))
  BY <1>1, Parts DEF Data
<1>3. Here \in Seq(F)
  BY <1>1, HereContext DEF Stacks
<1>4. /\ ~NeverReturns(call.run) /\ ~Checking(call.run)
      /\ AllFree(Here, Y) /\ Entered(Here, call, winds, Z0, Alive)
  BY <1>1, HereObjects
<1>5. /\ Around0(winds, Y, m) /\ Y[d] \cap Z0 \subseteq Alive
      /\ SavedObjects(conts, Y, winds, Z0)
  BY <1>1, GivenObjects
<1>6. /\ O = Append(objs, obj) /\ stack' = Push(s, body, d) /\ call' = Closure(in, d)
  BY DEF ManagedObjectWind, WithExceptionHandlers, DynamicWind, Apply
<1>7. o \notin 1..m /\ 1..m \subseteq 1..o
  BY <1>2
<1>8. /\ destroy.fn = "Destroy" /\ destroy.o = o /\ thunk.fn = "ErrorThunk" /\ thunk.o = o
      /\ in.fn = "SetHandlers" /\ out.fn = "SetHandlers" /\ obj.alive
  BY DEF OfObject, SetHandlers
<1>9. body.fn = "WindBody" /\ body.before = in /\ body.thunk = thunk /\ body.after = out
  OBVIOUS
<1> HIDE DEF n, k, obj, destroy, thunk, in, out, body, s, O, F
<1>10. /\ Len(O) = o /\ DOMAIN O = 1..o /\ DOMAIN objs = 1..m
       /\ \A i \in 1..m : O[i] = objs[i]
       /\ O[o] = obj
  <2>1. objs \in Seq(Objects(m) \cup {obj})
    BY <1>2, SeqMonotonic
  <2>2. DOMAIN objs = 1..m
    BY <1>2, LenProperties
  <2> HIDE DEF m
  <2>3. O \in Seq(Objects(m) \cup {obj}) /\ Len(O) = m + 1 /\ O[m + 1] = obj
        /\ \A i \in 1..m : O[i] = objs[i]
    BY <2>1, <1>6, AppendProperties DEF m
  <2> QED
    BY <2>2, <2>3, LenProperties
<1> HIDE DEF m, d
<1>11. Alive \subseteq Alive'
  <2>1. Alive' = {i \in DOMAIN O : O[i].alive}
    BY DEF Alive, O
  <2> QED
    BY <2>1, <1>7, <1>10 DEF Alive
<1>12. Z2 \cap (1..m) \subseteq Z0
  <2>1. \A i \in 1..m : ThunksOf(O)[i].before = objs[i].before /\ T0[i].before = objs[i].before
    BY <1>7, <1>10 DEF ThunksOf, T0
  <2>2. DOMAIN T0 = 1..m
    BY <1>10 DEF T0, ThunksOf
  <2> QED
    BY <2>1, <2>2 DEF Envs, Z0
<1> HIDE DEF Z2
<1>13. Grown(Y, Y, winds, winds, Z0, Z2, n, m)
  BY <1>2, <1>12 DEF Grown, n
<1>14. Around0(winds, Y, o)
  BY <1>5, <1>7 DEF Around0
<1>15. Y[d] \subseteq 1..m
  BY <1>2, <1>5 DEF Around0, n
<1>16. AllFree(Here, Y) /\ Entered(Here, call, winds, Z2, Alive) /\ SavedObjects(conts, Y, winds, Z2)
  BY <1>2, <1>3, <1>4, <1>5, <1>13, SameStack, SameSavedObjects DEF F
<1>17. Free(Closure(destroy, d), Y) /\ Enters(Closure(destroy, d), winds) = {}
  BY <1>7, <1>8, <1>15 DEF Free, Spares, Enters, Closure
<1>18. s \in Seq(F \cup {Closure(destroy, d)})
  <2>1. Here \in Seq(F \cup {Closure(destroy, d)})
    BY <1>3, SeqMonotonic
  <2> QED
    BY <2>1, PushFrames DEF s
<1>19. AllFree(s, Y) /\ Entered(s, call, winds, Z2, Alive)
  <2>1. AllFree(Push(Here, destroy, d), Y)
    BY <1>3, <1>16, <1>17, FreePush
  <2>2. Entered(Push(Here, destroy, d), call, winds, Z2, Alive)
    BY <1>3, <1>4, <1>16, <1>17, EnteredPush
  <2> QED
    BY <2>1, <2>2 DEF s
<1>20. Opened(in) = {} /\ Harmless(in)
  BY <1>8 DEF Opened, Harmless
<1>21. Free(Closure(body, d), Y) /\ Enters(Closure(body, d), winds) = {}
  <2>1. Closure(body, d).run = body /\ Closure(body, d).at = d
    BY DEF Closure
  <2>2. Spares(out, Y[d]) /\ Spares(thunk, Y[d] \cup Opened(in)) /\ Spares(body, Y[d])
    BY <1>7, <1>8, <1>9, <1>15, <1>20 DEF Spares
  <2> QED
    BY <2>1, <2>2, <1>9, <1>20 DEF Free, Enters
<1>22. Free(Closure(in, d), Y) /\ Enters(Closure(in, d), winds) = {}
  BY <1>20, HarmlessFrame
<1>23. AllFree(Push(s, body, d), Y)
  BY <1>18, <1>19, <1>21, FreePush
<1>24. Entered(Push(s, body, d), Closure(in, d), winds, Z2, Alive')
  BY <1>4, <1>18, <1>19, <1>21, EnteredPush
<1>25. Y[d] \cap Z2 \subseteq Alive'
  BY <1>5, <1>11, <1>12, <1>15
<1>26. Len(objs') = o /\ Z2 = Envs(ThunksOf(objs'))
  BY <1>10 DEF O, Z2
<1>27. curDW' = d /\ winds' = winds /\ conts' = conts
  BY DEF d
<1> QED
  BY <1>6, <1>14, <1>16, <1>22, <1>23, <1>24, <1>25, <1>26, <1>27 DEF ObjectsOf

LEMMA UserManagedObjects ==
  ASSUME ContextInv, NEW Y, ObjectsOf(Y), UserManaged PROVE ObjectsOf(Y)'
<1>1. /\ Calling("User") /\ UNCHANGED <<curDW, winds, conts>>
      /\ ManagedObjectWind(Here, User("before"), User("after"))
  BY DEF UserManaged, Use
<1> QED
  BY <1>1, ManagedObjects

LEMMA UserWithEnvObjects ==
  ASSUME ContextInv, NEW Y, ObjectsOf(Y), UserWithEnv PROVE ObjectsOf(Y)'
<1>1. /\ Calling("User") /\ UNCHANGED <<curDW, winds, conts>>
      /\ ManagedObjectWind(Here, SetEnv(Len(objs) + 1), SetEnv(env))
  BY DEF UserWithEnv, Use
<1> QED
  BY <1>1, ManagedObjects

-----------------------------------------------------------------------------
(* The windings around an extent *)

\* Y has the objects of every winding around an extent.
Outside(Y, W) == \A ch : IsChain(ch, W) => \A w \in 0..Len(W) : \A i \in DOMAIN ch[w] :
  Opened(W[ch[w][i]].before) \subseteq Y[w]

\* The elements of a list with one more in front.
LEMMA OneMore ==
  ASSUME NEW S, NEW c \in Seq(S), NEW w \in S, NEW j \in DOMAIN (<<w>> \o c)
  PROVE  (<<w>> \o c)[j] = w \/ \E i \in DOMAIN c : (<<w>> \o c)[j] = c[i]
<1> DEFINE u == <<w>>
           n == Len(c)
<1>1. u \in Seq(S) /\ Len(u) = 1 /\ u[1] = w
  OBVIOUS
<1>2. n \in Nat /\ DOMAIN c = 1..n
  BY LenProperties
<1> HIDE DEF u, n
<1>3. /\ u \o c \in Seq(S) /\ Len(u \o c) = Len(u) + Len(c)
      /\ \A i \in 1..(Len(u) + Len(c)) :
           (u \o c)[i] = IF i <= Len(u) THEN u[i] ELSE c[i - Len(u)]
  BY <1>1, ConcatProperties
<1>4. DOMAIN (u \o c) = 1..(1 + n)
  BY <1>1, <1>3, LenProperties DEF n
<1>5. \A i \in 1..(1 + n) : (u \o c)[i] = IF i <= 1 THEN u[i] ELSE c[i - 1]
  BY <1>1, <1>3 DEF n
<1>6. ASSUME NEW i \in 1..(1 + n)
      PROVE  (u \o c)[i] = w \/ \E e \in DOMAIN c : (u \o c)[i] = c[e]
  <2>1. CASE i = 1
    BY <2>1, <1>1, <1>5
  <2>2. CASE i # 1
    <3>1. i - 1 \in 1..n /\ ~(i <= 1)
      BY <2>2, <1>2
    <3> QED
      BY <3>1, <1>2, <1>5
  <2> QED
    BY <2>1, <2>2
<1> QED
  BY <1>4, <1>6 DEF u

\* A winding is added under one there is.
LEMMA OutsideGrows ==
  ASSUME NEW n \in Nat, NEW m \in Nat, NEW W, Len(W) = n, W \in Seq(Windings(n, m)),
         NEW W2, Len(W2) = n + 1, \A i \in 1..n : W2[i] = W[i],
         W2[n + 1].parent \in 0..n,
         NEW Y, NEW Y2, \A w \in 0..n : Y2[w] = Y[w],
         Y2[n + 1] = Y2[W2[n + 1].parent] \cup Opened(W2[n + 1].before),
         \A ch : IsChain(ch, W) => \A w \in 0..n : ch[w] \in Seq(1..n),
         Outside(Y, W)
  PROVE  Outside(Y2, W2)
<1> DEFINE e == n + 1
           d == W2[e].parent
<1>1. \A w \in 1..n : W[w].parent \in 0..n /\ w \in 0..n /\ w # 0 /\ w \in 0..e /\ w # e
  <2>1. \A w \in 1..n : W[w] \in Windings(n, m)
    BY ElementOfSeq
  <2> QED
    BY <2>1 DEF Windings
<1>2. /\ 0 \in 0..n /\ 0 \in 0..e /\ e \in 0..e /\ e # 0 /\ 0 # e
      /\ \A w \in 0..e : w = e \/ w \in 0..n
      /\ \A w \in 0..n : w # e /\ w \in 0..e /\ (w = 0 \/ w \in 1..n)
      /\ 1..n \subseteq 1..e /\ e \in 1..e
  OBVIOUS
<1>3. Len(W2) = e /\ d \in 0..n
  OBVIOUS
<1>4. Y2[e] = Y2[d] \cup Opened(W2[e].before)
  OBVIOUS
<1> HIDE DEF e
<1> SUFFICES ASSUME NEW c2, IsChain(c2, W2), NEW w \in 0..e, NEW j \in DOMAIN c2[w]
             PROVE  Opened(W2[c2[w][j]].before) \subseteq Y2[w]
  BY <1>3 DEF Outside
<1>5. /\ c2[0] = <<>> /\ c2[e] = <<e>> \o c2[d]
      /\ \A i \in 1..n : c2[i] = <<i>> \o c2[W[i].parent]
  BY <1>1, <1>2, <1>3 DEF IsChain
<1>6. PICK ch : ch = [i \in 0..n |-> c2[i]]
  OBVIOUS
<1>7. ASSUME NEW i \in 0..n
      PROVE  ch[i] = IF i = 0 THEN <<>> ELSE <<i>> \o ch[W[i].parent]
  <2>1. CASE i = 0
    BY <2>1, <1>5, <1>6
  <2>2. CASE i \in 1..n
    BY <2>2, <1>1, <1>5, <1>6
  <2> QED
    BY <2>1, <2>2, <1>2
<1>8. DOMAIN ch = 0..n /\ ch = [i \in DOMAIN ch |-> ch[i]]
  BY <1>6
<1>9. IsChain(ch, W)
  BY <1>7, <1>8 DEF IsChain
<1>10. \A i \in 0..n : c2[i] \in Seq(1..n) /\ \A a \in DOMAIN c2[i] :
         Opened(W[c2[i][a]].before) \subseteq Y[i]
  <2>1. \A i \in 0..n : ch[i] = c2[i]
    BY <1>6
  <2>2. \A i \in 0..n : ch[i] \in Seq(1..n) /\ \A a \in DOMAIN ch[i] :
          Opened(W[ch[i][a]].before) \subseteq Y[i]
    BY <1>9 DEF Outside
  <2> QED
    BY <2>1, <2>2
<1>11. ASSUME NEW i \in 0..n, NEW a \in DOMAIN c2[i]
       PROVE  Opened(W2[c2[i][a]].before) \subseteq Y2[i]
  <2>1. c2[i][a] \in 1..n
    <3>1. c2[i] \in Seq(1..n)
      BY <1>10
    <3>2. a \in 1..Len(c2[i])
      BY <3>1, LenProperties
    <3> QED
      BY <3>1, <3>2, ElementOfSeq
  <2>2. W2[c2[i][a]] = W[c2[i][a]] /\ Y2[i] = Y[i]
    BY <2>1
  <2> QED
    BY <2>2, <1>10
<1>12. CASE w = e
  <2>1. c2[d] \in Seq(1..e)
    <3>1. c2[d] \in Seq(1..n)
      BY <1>3, <1>10
    <3> QED
      BY <3>1, <1>2, SeqMonotonic
  <2>2. j \in DOMAIN (<<e>> \o c2[d]) /\ c2[w][j] = (<<e>> \o c2[d])[j]
    BY <1>5, <1>12
  <2> HIDE DEF d
  <2>3. c2[w][j] = e \/ \E a \in DOMAIN c2[d] : c2[w][j] = c2[d][a]
    BY <2>1, <2>2, <1>2, OneMore
  <2>4. \A a \in DOMAIN c2[d] : Opened(W2[c2[d][a]].before) \subseteq Y2[d]
    BY <1>3, <1>11
  <2> QED
    BY <2>3, <2>4, <1>4, <1>12
<1>13. CASE w \in 0..n
  BY <1>11, <1>13
<1> QED
  BY <1>2, <1>12, <1>13

-----------------------------------------------------------------------------
(* The invariant holds initially and every step keeps it *)

ObjectInv == ContextInv /\ \E Y : ObjectsOf(Y) /\ Outside(Y, winds)

LEMMA InitObjects == Init => ObjectInv
<1> SUFFICES ASSUME Init PROVE ObjectInv
  OBVIOUS
<1>1. Len(winds) = 0 /\ Len(objs) = 0 /\ Len(conts) = 0 /\ Len(stack) = 0 /\ curDW = 0
  BY EmptySeq DEF Init
<1>2. PICK Y : Y = [w \in {0} |-> {}]
  OBVIOUS
<1>3. Y[0] = {} /\ 0..Len(winds) = {0}
  BY <1>1, <1>2
<1>4. Around0(winds, Y, Len(objs))
  BY <1>1, <1>3 DEF Around0
<1>5. AllFree(stack, Y) /\ \A Z, A : Entered(stack, call, winds, Z, A)
  BY <1>1 DEF AllFree, Entered
<1>6. Free(call, Y) /\ Enters(call, winds) = {}
  BY DEF Init, Free, Spares, Enters, Bottom, Closure
<1>7. \A Z : SavedObjects(conts, Y, winds, Z)
  BY <1>1 DEF SavedObjects
<1>8. ObjectsOf(Y)
  BY <1>1, <1>3, <1>4, <1>5, <1>6, <1>7 DEF ObjectsOf
<1>9. Outside(Y, winds)
  <2> SUFFICES ASSUME NEW ch, IsChain(ch, winds)
               PROVE  DOMAIN ch[0] = {}
    BY <1>3 DEF Outside
  <2>1. ch[0] = <<>>
    BY <1>3 DEF IsChain
  <2> QED
    BY <2>1
<1> QED
  BY <1>8, <1>9, InitContext DEF ObjectInv

\* Every step but the opening of a winding keeps the objects around each extent.
LEMMA StepObjects ==
  ASSUME ContextInv, NEW Y, ObjectsOf(Y), [Next]_vars, ~WindBody
  PROVE  ObjectsOf(Y)'
<1>1. IInv
  BY DEF ContextInv
<1>2. CASE WindStep
  BY <1>1, <1>2, WindExitObjects, ForwardObjects DEF WindStep
<1>3. CASE TraverseStep
  BY <1>1, <1>3, TraverseArriveObjects, TraverseDownObjects, TraverseUpObjects, ContinueUpObjects,
     EnterWindObjects, SetDWObjects DEF TraverseStep
<1>4. CASE EscapeStep
  BY <1>1, <1>4, CallEscapeObjects, RestoreObjects DEF EscapeStep
<1>5. CASE RaiseStep
  BY <1>1, <1>5, CallSetHandlersObjects, RaiseUncaughtObjects, RaiseToHandlerObjects,
     CallHandlerThunkObjects, RaiseAgainObjects DEF RaiseStep
<1>6. CASE ObjectStep
  BY <1>1, <1>6, ErrorThunkObjects, SafeBeforeObjects, SafeAfterObjects, ErrorHandlerObjects,
     ClearMarkObjects, DestroyObjects, DestroyAgainObjects, CallSetEnvObjects DEF ObjectStep
<1>7. CASE UserStep
  BY <1>1, <1>7, UserReturnObjects, UserWindObjects, UserCallCCObjects, UserThrowObjects,
     UserRaiseObjects, UserRaiseContinuableObjects, UserHandlerObjects,
     UserManagedObjects, UserWithEnvObjects DEF UserStep
<1>8. CASE HostCall
  BY <1>1, <1>8, HostCallObjects
<1>9. CASE UNCHANGED vars
  BY <1>9 DEF vars, ObjectsOf, Alive
<1> QED
  BY <1>2, <1>3, <1>4, <1>5, <1>6, <1>7, <1>8, <1>9 DEF Next, Turn

\* The new winding is one of those around its extent.
LEMMA OutsideOfWindBody ==
  ASSUME ContextInv, NEW Y, ObjectsOf(Y), Outside(Y, winds), WindBody,
         NEW Y2, \A w \in 0..Len(winds) : Y2[w] = Y[w], ObjectsOf(Y2)'
  PROVE  Outside(Y2, winds')
<1> DEFINE n == Len(winds)
           m == Len(objs)
           W == winds'
           wind == [depth |-> Depth(curDW) + 1, parent |-> curDW,
                    before |-> call.run.before, after |-> call.run.after]
<1>1. /\ n \in Nat /\ m \in Nat /\ curDW \in 0..n /\ winds \in Seq(Windings(n, m))
  BY Parts DEF ContextInv, Data
<1>2. W = Append(winds, wind) /\ wind.parent = curDW
  BY DEF WindBody
<1>3. \A ch : IsChain(ch, winds) => \A w \in 0..n : ch[w] \in Seq(1..n)
  BY DEF ContextInv, ChainsInstall
<1>4. \A w \in 1..Len(W) : Y2[w] = Y2[W[w].parent] \cup Opened(W[w].before)
  BY DEF ObjectsOf, Around0
<1> HIDE DEF n, m, W, wind
<1>5. Len(W) = n + 1 /\ (\A w \in 1..n : W[w] = winds[w]) /\ W[n + 1] = wind
  <2>1. winds \in Seq(Windings(n, m) \cup {wind})
    BY <1>1, SeqMonotonic
  <2> QED
    BY <2>1, <1>2, AppendProperties DEF n
<1>6. /\ W[n + 1].parent \in 0..n
      /\ Y2[n + 1] = Y2[W[n + 1].parent] \cup Opened(W[n + 1].before)
  BY <1>1, <1>2, <1>4, <1>5
<1>7. Len(winds) = n /\ Outside(Y, winds) /\ \A w \in 0..n : Y2[w] = Y[w]
  BY DEF n
<1>8. Outside(Y2, W)
  BY <1>1, <1>3, <1>5, <1>6, <1>7, OutsideGrows
<1> QED
  BY <1>8 DEF W

LEMMA NextObjects == ObjectInv /\ [Next]_vars => ObjectInv'
<1> SUFFICES ASSUME ObjectInv, [Next]_vars PROVE ObjectInv'
  OBVIOUS
<1>1. PICK Y : ObjectsOf(Y) /\ Outside(Y, winds)
  BY DEF ObjectInv
<1>2. ContextInv /\ ContextInv'
  BY NextContext DEF ObjectInv
<1>3. CASE WindBody
  <2>1. PICK Y2 : (\A w \in 0..Len(winds) : Y2[w] = Y[w]) /\ ObjectsOf(Y2)'
    BY <1>1, <1>2, <1>3, WindBodyObjects
  <2>2. Outside(Y2, winds')
    BY <1>1, <1>2, <1>3, <2>1, OutsideOfWindBody
  <2> QED
    BY <1>2, <2>1, <2>2 DEF ObjectInv
<1>4. CASE ~WindBody
  <2>1. ObjectsOf(Y)'
    BY <1>1, <1>2, <1>4, StepObjects
  <2>2. winds' = winds
    BY <1>4, WindsKept
  <2> QED
    BY <1>1, <1>2, <2>1, <2>2 DEF ObjectInv
<1> QED
  BY <1>3, <1>4

\* The inductive invariant of the objects around each extent.
THEOREM ObjectInvariant == Spec => []ObjectInv
BY InitObjects, NextObjects, PTL DEF Spec

-----------------------------------------------------------------------------
(* What follows *)

\* The objects of the windings around the current extent.
LEMMA AroundObjects ==
  ASSUME ContextInv, NEW Y, Outside(Y, winds)
  PROVE  /\ Around \in Seq(1..Len(winds))
         /\ \A i \in DOMAIN Around : Opened(winds[Around[i]].before) \subseteq Y[curDW]
<1>1. PICK X : ChainsInstall(X, winds, T0)
  BY DEF ContextInv
<1>2. curDW \in 0..Len(winds)
  BY Parts DEF ContextInv
<1> DEFINE ch == CHOOSE c : c = [w \in 0..Len(winds) |->
                     IF w = 0 THEN <<>> ELSE <<w>> \o c[winds[w].parent]]
<1>3. IsChain(ch, winds)
  <2>1. PICK c : c = [w \in 0..Len(winds) |->
                        IF w = 0 THEN <<>> ELSE <<w>> \o c[winds[w].parent]]
    BY <1>1 DEF ChainsInstall, IsChain
  <2> QED
    BY <2>1 DEF IsChain
<1>4. Around = ch[curDW]
  BY DEF Around
<1> HIDE DEF ch
<1>5. ch[curDW] \in Seq(1..Len(winds))
  BY <1>1, <1>2, <1>3 DEF ChainsInstall
<1>6. \A i \in DOMAIN ch[curDW] : Opened(winds[ch[curDW][i]].before) \subseteq Y[curDW]
  BY <1>2, <1>3 DEF Outside
<1> QED
  BY <1>4, <1>5, <1>6

\* Wherever code runs in the extent of an environment, it is alive: entering
\* the extent again has checked it, and it is destroyed only outside of it.
THEOREM EnvAlive == Spec => []EnvAliveInExtent
<1>1. ObjectInv => EnvAliveInExtent
  <2> SUFFICES ASSUME ObjectInv, NEW i \in DOMAIN Around, InstallsEnv(Around[i])
               PROVE  objs[Object(Around[i])].alive
    BY DEF EnvAliveInExtent
  <2>1. PICK Y : ObjectsOf(Y) /\ Outside(Y, winds)
    BY DEF ObjectInv
  <2>2. ContextInv /\ IInv /\ curDW \in 0..Len(winds)
    BY Parts DEF ObjectInv, ContextInv
  <2> DEFINE o == Object(Around[i])
  <2>3. o \in Opened(winds[Around[i]].before) /\ objs[o].before.fn = "SetEnv"
    BY DEF InstallsEnv, IsObjectWind, Object, Opened
  <2> HIDE DEF o
  <2>4. o \in Y[curDW]
    BY <2>1, <2>2, <2>3, AroundObjects
  <2>5. Y[curDW] \subseteq 1..Len(objs) /\ Y[curDW] \cap Z0 \subseteq Alive
    BY <2>1, <2>2, GivenObjects DEF Around0
  <2>6. o \in DOMAIN objs
    <3>1. objs \in Seq(Objects(Len(objs)))
      BY <2>2, Parts DEF Data
    <3> QED
      BY <3>1, <2>4, <2>5, LenProperties
  <2>7. o \in Z0
    BY <2>3, <2>6 DEF Z0, Envs, T0, ThunksOf
  <2>8. o \in Alive
    BY <2>4, <2>5, <2>7
  <2> QED
    BY <2>8 DEF Alive, o
<1> QED
  BY <1>1, ObjectInvariant, PTL

\* Only the closure that destroys an object makes it not alive.
LEMMA OnlyDestroy ==
  ASSUME IInv, [Next]_vars, ~Destroy, NEW o \in DOMAIN objs, objs[o].alive
  PROVE  objs'[o].alive
<1>1. objs \in Seq(Objects(Len(objs))) /\ DOMAIN objs = 1..Len(objs) /\ Len(objs) \in Nat
  BY Parts, LenProperties DEF Data
<1>2. CASE UNCHANGED objs
  BY <1>2
<1>3. ASSUME NEW x, NEW b, objs' = [objs EXCEPT ![x].isError = b]
      PROVE  objs'[o].alive
  <2>1. o \in Alive
    BY DEF Alive
  <2>2. Alive' = Alive
    BY <1>1, <1>3, AliveKept
  <2> QED
    BY <2>1, <2>2 DEF Alive
<1>4. ASSUME NEW before, NEW after, ManagedObjectWind(Here, before, after)
      PROVE  objs'[o].alive
  <2> DEFINE obj == [alive |-> TRUE, isError |-> FALSE, before |-> before, after |-> after]
             O == objs'
             m == Len(objs)
  <2>1. O = Append(objs, obj)
    BY <1>4 DEF ManagedObjectWind
  <2> HIDE DEF obj, O
  <2>2. objs \in Seq(Objects(m) \cup {obj})
    BY <1>1, SeqMonotonic
  <2>3. o \in 1..m
    BY <1>1
  <2> HIDE DEF m
  <2>4. O[o] = objs[o]
    BY <2>1, <2>2, <2>3, AppendProperties DEF m
  <2> QED
    BY <2>4 DEF O
<1>5. CASE WindStep \/ TraverseStep \/ EscapeStep \/ RaiseStep \/ HostCall
  <2>1. UNCHANGED objs
    BY <1>5 DEF WindStep, WindBody, WindExit, Forward, TraverseStep, TraverseArrive, TraverseDown,
     TraverseUp, ContinueUp, EnterWind, SetDW, EscapeStep, CallEscape, Restore, RaiseStep,
     CallSetHandlers, RaiseUncaught, RaiseToHandler, CallHandlerThunk, RaiseAgain, HostCall
  <2> QED
    BY <2>1, <1>2
<1>6. CASE ObjectStep
  <2>1. CASE ErrorHandler
    BY <2>1, <1>3 DEF ErrorHandler
  <2>2. CASE ClearMark
    BY <2>2, <1>3 DEF ClearMark
  <2>3. CASE ErrorThunk \/ SafeBefore \/ SafeAfter \/ DestroyAgain \/ CallSetEnv
    BY <2>3, <1>2 DEF ErrorThunk, SafeBefore, SafeAfter, DestroyAgain, CallSetEnv
  <2> QED
    BY <2>1, <2>2, <2>3, <1>6 DEF ObjectStep
<1>7. CASE UserStep
  <2>1. CASE UserManaged
    BY <2>1, <1>4 DEF UserManaged
  <2>2. CASE UserWithEnv
    BY <2>2, <1>4 DEF UserWithEnv
  <2>3. CASE ~UserManaged /\ ~UserWithEnv
    <3>1. UNCHANGED objs
      BY <2>3, <1>7 DEF UserStep, UserReturn, UserWind, UserCallCC, UserThrow, UserRaise,
         UserRaiseContinuable, UserHandler
    <3> QED
      BY <3>1, <1>2
  <2> QED
    BY <2>1, <2>2, <2>3
<1>8. CASE UNCHANGED vars
  BY <1>8, <1>2 DEF vars
<1> QED
  BY <1>5, <1>6, <1>7, <1>8 DEF Next, Turn

\* An object is destroyed only after control has left its extent, however it
\* was left and entered before.
THEOREM LeftBeforeDestroyed == Spec => DestroyedOutside
<1> DEFINE Left == \A o \in DOMAIN objs : objs[o].alive /\ ~objs'[o].alive =>
             \A i \in DOMAIN Around : ~(IsObjectWind(Around[i]) /\ Object(Around[i]) = o)
<1>1. ObjectInv /\ [Next]_vars => [Left]_vars
  <2> SUFFICES ASSUME ObjectInv, [Next]_vars, NEW o \in DOMAIN objs,
                      objs[o].alive, ~objs'[o].alive, NEW i \in DOMAIN Around,
                      IsObjectWind(Around[i]), Object(Around[i]) = o
               PROVE  FALSE
    OBVIOUS
  <2>1. PICK Y : ObjectsOf(Y) /\ Outside(Y, winds)
    BY DEF ObjectInv
  <2>2. ContextInv /\ IInv
    BY DEF ObjectInv, ContextInv
  <2>3. Destroy
    BY <2>2, OnlyDestroy
  <2>4. Alive' = Alive \ {call.run.o} /\ call.run.o \notin Y[curDW]
    BY <2>1, <2>2, <2>3, DestroyObjects
  <2>5. o \in Opened(winds[Around[i]].before)
    BY DEF IsObjectWind, Object, Opened
  <2>6. o \in Y[curDW]
    BY <2>1, <2>2, <2>5, AroundObjects
  <2>7. o \in Alive /\ o # call.run.o
    BY <2>4, <2>6 DEF Alive
  <2>8. o \in Alive'
    BY <2>4, <2>7
  <2> QED
    BY <2>8 DEF Alive
<1>2. Spec => [][Left]_vars
  BY <1>1, ObjectInvariant, PTL DEF Spec
<1> QED
  BY <1>2 DEF DestroyedOutside
-----------------------------------------------------------------------------
(* The ways out of the extent of an environment, without saved continuations *)
(* and handlers of the user                                                  *)

\* A handler of the user is about to be installed: it then is, in a winding.
HasUser(hs) == \E i \in 1..Len(hs) : hs[i].fn = "User"
Installing ==
  \/ /\ Calling("SetHandlers") /\ HasUser(call.run.hs)
     /\ stack # <<>> /\ Top(stack).run.fn = "WindBody" /\ Top(stack).run.before = call.run
  \/ /\ Calling("WindBody")
     /\ call.run.before.fn = "SetHandlers" /\ HasUser(call.run.before.hs)
Unhandled == conts = <<>> /\ ~UserHandled /\ ~Installing

\* The objects that an error has marked, and the environments to be destroyed.
Marked == {o \in DOMAIN objs : objs[o].isError}
Live == Z0 \cap Alive

\* The error handler of object o is among hs.
Reports(hs, o) == \E i \in 1..Len(hs) : hs[i] = OfObject("ErrorHandler", o)

\* An error raised in extent w leaves the extent of o and finds o marked, or marks it.
Guarded(w, o, X, Y, E) == o \in Y[w] /\ (o \in E \/ Reports(X[w].hs, o))

\* f is a traversal that leaves the extent of o, which is marked.
Unwinds(f, o, Y, E) ==
  f.run.fn \in {"Traverse", "ContinueUp"} /\ o \in E /\ o \in Y[f.at]

\* Once f is continued, o is destroyed.
Destroys(f, o, Y, E) ==
  \/ f.run = OfObject("Destroy", o)
  \/ f.run = OfObject("SafeAfter", o) /\ o \in E
  \/ Unwinds(f, o, Y, E)

\* f is on the way into the extent of o.
OpensExtent(f, o, X) ==
  \/ f.run = OfObject("SafeBefore", o)
  \/ f.run = OfObject("ErrorThunk", o) /\ Reports(X[f.at].hs, o)
  \/ /\ f.run.fn = "WindBody" /\ f.run.before = OfObject("SafeBefore", o)
     /\ Reports(X[f.at].hs, o)
  \/ /\ f.run.fn = "WindBody" /\ f.run.thunk = OfObject("ErrorThunk", o)
     /\ f.run.before.fn = "SetHandlers" /\ Reports(f.run.before.hs, o)
     /\ f.run.after.fn = "SetHandlers"

\* f is on the way out of the extent of o.
Closes(f, o) ==
  \/ f.run = OfObject("SafeAfter", o)
  \/ f.run.fn = "WindExit" /\ f.run.after = OfObject("SafeAfter", o)

\* No error that f or what it calls raises passes by o.
Keeps(f, o, X, Y, E) ==
  \/ f.run.fn \in {"Forward", "SetEnv", "SetHandlers"}
  \/ f.run.fn = "WindExit" /\ f.run.after.fn = "SetHandlers"
  \/ OpensExtent(f, o, X)
  \/ Closes(f, o)
  \/ /\ f.run.fn \in {"User", "Destroy", "SafeBefore", "SafeAfter", "ErrorThunk"}
     /\ Guarded(f.at, o, X, Y, E)
  \/ f.run.fn = "WindExit" /\ Guarded(f.run.prev, o, X, Y, E)
  \/ /\ f.run.fn = "WindBody" /\ Guarded(f.at, o, X, Y, E)
     /\ f.run.before.fn = "SetHandlers" => o \in E \/ Reports(f.run.before.hs, o)

\* Some frame of s destroys o, and those above it keep o.
Kept(s, o, X, Y, E) == \E j \in 1..Len(s) :
  Destroys(s[j], o, Y, E) /\ \A i \in (j + 1)..Len(s) : Keeps(s[i], o, X, Y, E)

\* The same of stack s with the pending call c on it.
Held(c, s, o, X, Y, E) ==
  Destroys(c, o, Y, E) \/ (Keeps(c, o, X, Y, E) /\ Kept(s, o, X, Y, E))

\* The winding that opens the extent of an object closes it.
Paired(before, after) ==
  before.fn = "SafeBefore" => after = OfObject("SafeAfter", before.o)

\* A procedure of code that no error is on its way through.
Calm(p) ==
  /\ p.fn \in {"User", "WindBody", "WindExit", "Forward", "Traverse", "ContinueUp", "SetHandlers",
               "SetEnv", "ErrorThunk", "SafeBefore", "SafeAfter", "Destroy", "Bottom"}
  /\ p.fn \in {"Traverse", "ContinueUp"} => p.dest = 0
  /\ p.fn = "WindBody" => p.thunk.fn \in {"User", "ErrorThunk"} /\ Paired(p.before, p.after)

AllCalm(s) == \A i \in 1..Len(s) : Calm(s[i].run)

\* An error is on its way to the next handler.
Passing(p) ==
  p.fn = "WindBody" /\ p.thunk.fn = "HandlerThunk" /\ p.before.fn = "SetHandlers"
Raising ==
  \/ call.run.fn \in {"Raise", "HandlerThunk", "ErrorHandler"}
  \/ Passing(call.run)
  \/ Calling("SetHandlers") /\ stack # <<>> /\ Passing(Top(stack).run)

\* The handler h is called before the error is one that nobody handles.
Later == IF Calling("SetHandlers") THEN call.run.hs ELSE handlers
Due(h) ==
  \/ \E i \in 1..Len(Later) : Later[i] = h
  \/ Calling("HandlerThunk") /\ call.run.h = h
  \/ Calling("ErrorHandler") /\ call.run = h
  \/ Calling("WindBody") /\ call.run.thunk.h = h
  \/ Calling("SetHandlers") /\ Top(stack).run.thunk.h = h

Errors(hs) == \A i \in 1..Len(hs) : hs[i].fn = "ErrorHandler"

\* While an error is on its way every environment is marked or will be, and is
\* around the extent the error is raised in.
Leaving(Y) ==
  /\ Raising
  /\ \A h : Due(h) => h.fn = "ErrorHandler"
  /\ \A o \in Live : o \in Y[curDW] /\ (o \in Marked \/ Due(OfObject("ErrorHandler", o)))

\* Otherwise what is pending or on the stack destroys it.
Staying(X, Y) ==
  /\ AllCalm(stack) /\ Calm(call.run)
  /\ \A o \in Live : Held(call, stack, o, X, Y, Marked)

CoveredBy(X, Y) ==
  /\ \A w \in 0..Len(winds) : Errors(X[w].hs)
  /\ \A w \in 1..Len(winds) : Paired(winds[w].before, winds[w].after)
  /\ Leaving(Y) \/ Staying(X, Y)

\* The After thunk of an environment is not user code.
EnvsRestore == \A o \in Z0 : T0[o].after.fn = "SetEnv"

EnvironmentInv == ContextInv /\ EnvsRestore /\ \E X, Y :
  /\ ContextOf(X) /\ ChainsInstall(X, winds, T0)
  /\ ObjectsOf(Y) /\ Outside(Y, winds)
  /\ Unhandled => CoveredBy(X, Y)

-----------------------------------------------------------------------------
(* The continuation stack *)

LEMMA KeptPush ==
  ASSUME NEW S, NEW s \in Seq(S), NEW p, NEW d, NEW o, NEW X, NEW Y, NEW E,
         \/ Destroys(Closure(p, d), o, Y, E)
         \/ Keeps(Closure(p, d), o, X, Y, E) /\ Kept(s, o, X, Y, E)
  PROVE  Kept(Push(s, p, d), o, X, Y, E)
<1> DEFINE f == Closure(p, d)
           t == Push(s, p, d)
           n == Len(s)
<1>1. s \in Seq(S \cup {f})
  BY SeqMonotonic
<1>2. n \in Nat /\ Len(t) = n + 1 /\ t[n + 1] = f /\ \A i \in 1..n : t[i] = s[i]
  BY <1>1, PushFrames
<1>3. Destroys(f, o, Y, E) \/ (Keeps(f, o, X, Y, E) /\ Kept(s, o, X, Y, E))
  OBVIOUS
<1> SUFFICES Kept(t, o, X, Y, E)
  OBVIOUS
<1> HIDE DEF f, t
<1>4. CASE Destroys(f, o, Y, E)
  <2>1. n + 1 \in 1..Len(t) /\ (n + 1 + 1)..Len(t) = {}
    BY <1>2
  <2> QED
    BY <1>2, <1>4, <2>1 DEF Kept
<1>5. CASE Keeps(f, o, X, Y, E) /\ Kept(s, o, X, Y, E)
  <2>1. PICK j \in 1..n : /\ Destroys(s[j], o, Y, E)
                          /\ \A i \in (j + 1)..n : Keeps(s[i], o, X, Y, E)
    BY <1>5 DEF Kept
  <2>2. j \in 1..Len(t) /\ t[j] = s[j]
    BY <1>2
  <2>3. ASSUME NEW i \in (j + 1)..Len(t) PROVE Keeps(t[i], o, X, Y, E)
    <3>1. CASE i = n + 1
      BY <3>1, <1>2, <1>5
    <3>2. CASE i # n + 1
      <4>1. i \in (j + 1)..n /\ i \in 1..n
        BY <3>2, <1>2
      <4> QED
        BY <4>1, <2>1, <1>2
    <3> QED
      BY <3>1, <3>2
  <2> QED
    BY <2>1, <2>2, <2>3 DEF Kept
<1> QED
  BY <1>3, <1>4, <1>5

LEMMA KeptPop ==
  ASSUME NEW S, NEW s \in Seq(S), NEW o, NEW X, NEW Y, NEW E, Kept(s, o, X, Y, E)
  PROVE  Held(Top(s), Pop(s), o, X, Y, E)
<1> DEFINE n == Len(s)
           t == Pop(s)
<1>1. PICK j \in 1..n : /\ Destroys(s[j], o, Y, E)
                        /\ \A i \in (j + 1)..n : Keeps(s[i], o, X, Y, E)
  BY DEF Kept
<1>2. s # <<>>
  BY <1>1, EmptySeq
<1>3. /\ n \in Nat \ {0} /\ Len(t) = n - 1 /\ (\A i \in 1..(n - 1) : t[i] = s[i])
      /\ Top(s) = s[n]
  BY <1>2, PopFrames
<1> SUFFICES Held(s[n], t, o, X, Y, E)
  BY <1>3
<1> HIDE DEF n, t
<1>4. CASE j = n
  BY <1>1, <1>4 DEF Held
<1>5. CASE j # n
  <2>1. j \in 1..(n - 1) /\ n \in (j + 1)..n
    BY <1>3, <1>5
  <2>2. \A i \in (j + 1)..(n - 1) : i \in 1..(n - 1) /\ i \in (j + 1)..n
    BY <1>3
  <2>3. Kept(t, o, X, Y, E)
    BY <1>1, <1>3, <2>1, <2>2 DEF Kept
  <2> QED
    BY <1>1, <2>1, <2>3 DEF Held
<1> QED
  BY <1>4, <1>5

LEMMA CalmPush ==
  ASSUME NEW S, NEW s \in Seq(S), NEW p, NEW d, AllCalm(s), Calm(p)
  PROVE  AllCalm(Push(s, p, d))
<1> DEFINE f == Closure(p, d)
           t == Push(s, p, d)
           n == Len(s)
<1>1. s \in Seq(S \cup {f})
  BY SeqMonotonic
<1>2. n \in Nat /\ Len(t) = n + 1 /\ t[n + 1] = f /\ \A i \in 1..n : t[i] = s[i]
  BY <1>1, PushFrames
<1>3. f.run = p
  BY DEF Closure
<1> SUFFICES AllCalm(t)
  OBVIOUS
<1> HIDE DEF f, t
<1> QED
  BY <1>2, <1>3 DEF AllCalm

LEMMA CalmPop ==
  ASSUME NEW S, NEW s \in Seq(S), AllCalm(s)
  PROVE  AllCalm(Pop(s)) /\ Calm(Top(s).run)
<1>1. CASE s = <<>>
  <2>1. Pop(s) = <<>> /\ Top(s) = Bottom /\ Len(<<>>) = 0
    BY <1>1, EmptySeq DEF Pop, Top
  <2> QED
    BY <2>1 DEF AllCalm, Calm, Bottom, Closure
<1>2. CASE s # <<>>
  <2> DEFINE n == Len(s)
             t == Pop(s)
  <2>1. /\ n \in Nat \ {0} /\ Len(t) = n - 1 /\ (\A i \in 1..(n - 1) : t[i] = s[i])
        /\ Top(s) = s[n]
    BY <1>2, PopFrames
  <2>2. \A i \in 1..n : Calm(s[i].run)
    BY DEF AllCalm
  <2> SUFFICES AllCalm(t) /\ Calm(s[n].run)
    BY <2>1
  <2> HIDE DEF t, n
  <2> QED
    BY <2>1, <2>2 DEF AllCalm
<1> QED
  BY <1>1, <1>2

-----------------------------------------------------------------------------
(* The state *)

LEMMA Facts ==
  ASSUME ContextInv, NEW X, ContextOf(X), NEW Y, ObjectsOf(Y)
  PROVE  /\ IInv /\ stack \in Stacks /\ call.at = curDW /\ bottomDW = 0
         /\ Len(winds) \in Nat /\ Len(objs) \in Nat /\ Len(conts) \in Nat
         /\ curDW \in 0..Len(winds)
         /\ call.run \in Pending(Len(winds), Len(objs), Len(conts))
         /\ winds \in Seq(Windings(Len(winds), Len(objs)))
         /\ objs \in Seq(Objects(Len(objs))) /\ DOMAIN objs = 1..Len(objs)
         /\ handlers \in Seq(Handlers(Len(objs)))
         /\ Quiet(call.run) \/ Calling("SafeBefore") => handlers = X[curDW].hs
         /\ call.run.fn = "WindBody" => IsAfter(call.run.after)
         /\ \A w \in 1..Len(winds) : IsAfter(winds[w].after)
         /\ \A o \in 1..Len(objs) : /\ T0[o].before = objs[o].before /\ T0[o].after = objs[o].after
                                    /\ IsObjectThunk(objs[o].before)
                                    /\ IsObjectThunk(objs[o].after)
         /\ Around0(winds, Y, Len(objs))
<1>1. IInv
  BY DEF ContextInv
<1>2. /\ stack \in Stacks /\ call.at = curDW /\ bottomDW = 0
      /\ Len(winds) \in Nat /\ Len(objs) \in Nat /\ Len(conts) \in Nat
      /\ curDW \in 0..Len(winds)
      /\ call.run \in Pending(Len(winds), Len(objs), Len(conts))
      /\ winds \in Seq(Windings(Len(winds), Len(objs)))
      /\ objs \in Seq(Objects(Len(objs)))
      /\ handlers \in Seq(Handlers(Len(objs)))
  BY <1>1, Parts DEF Data, InOrder, Stacks
<1>3. DOMAIN objs = 1..Len(objs)
  BY <1>2, LenProperties
<1>4. Quiet(call.run) => handlers = X[curDW].hs
  <2>1. Quiet(call.run) => Now = X[curDW]
    BY <1>1, Given
  <2> QED
    BY <2>1 DEF Now
<1>5. Calling("SafeBefore") => handlers = X[curDW].hs
  <2>1. CallFits(call, Top(stack), Now, X, T0)
    BY <1>1, Given
  <2>2. Calling("SafeBefore") => Now = X[curDW]
    BY <1>2, <2>1 DEF CallFits, Calling
  <2> QED
    BY <2>2 DEF Now
<1>6. /\ call.run.fn = "WindBody" => IsAfter(call.run.after)
      /\ \A w \in 1..Len(winds) : IsAfter(winds[w].after)
      /\ ObjectsSetEnv(T0)
  BY Shapes
<1>7. \A o \in 1..Len(objs) : T0[o].before = objs[o].before /\ T0[o].after = objs[o].after
  BY <1>3 DEF T0, ThunksOf
<1>8. DOMAIN T0 = 1..Len(objs)
  BY <1>3 DEF T0, ThunksOf
<1>9. \A o \in 1..Len(objs) : IsObjectThunk(objs[o].before) /\ IsObjectThunk(objs[o].after)
  BY <1>6, <1>7, <1>8 DEF ObjectsSetEnv
<1>10. Around0(winds, Y, Len(objs))
  BY <1>1, GivenObjects
<1> QED
  BY <1>1, <1>2, <1>3, <1>4, <1>5, <1>6, <1>7, <1>9, <1>10

\* Only a call of SetHandlers sets the handlers, and only WindBody opens a winding.
LEMMA OneAction ==
  ASSUME Next
  PROVE  /\ Calling("SetHandlers") => CallSetHandlers
         /\ Calling("WindBody") => WindBody
<1>1. CASE WindStep \/ TraverseStep \/ EscapeStep \/ RaiseStep \/ HostCall
  BY <1>1 DEF WindStep, WindExit, Forward, TraverseStep, TraverseArrive, TraverseDown, TraverseUp,
     ContinueUp, EnterWind, SetDW, EscapeStep, CallEscape, Restore, RaiseStep,
     RaiseUncaught, RaiseToHandler, CallHandlerThunk, RaiseAgain, HostCall, Halted, Calling,
     WindBody, CallSetHandlers
<1>2. CASE ObjectStep
  BY <1>2 DEF ObjectStep, ErrorThunk, SafeBefore, SafeAfter, ErrorHandler, ClearMark, Destroy,
     DestroyAgain, CallSetEnv, Calling
<1>3. CASE UserStep
  BY <1>3 DEF UserStep, UserReturn, UserWind, UserCallCC, UserThrow, UserRaise,
     UserRaiseContinuable, UserHandler, UserManaged, UserWithEnv, Use, Calling
<1> QED
  BY <1>1, <1>2, <1>3 DEF Next, Turn

LEMMA ContsKept ==
  ASSUME IInv, [Next]_vars
  PROVE  conts' = conts \/ conts' # <<>>
<1>1. CASE WindStep \/ TraverseStep \/ EscapeStep \/ RaiseStep \/ HostCall
  BY <1>1 DEF WindStep, WindBody, WindExit, Forward, TraverseStep, TraverseArrive, TraverseDown,
     TraverseUp, ContinueUp, EnterWind, SetDW, EscapeStep, CallEscape, Restore, RaiseStep,
     CallSetHandlers, RaiseUncaught, RaiseToHandler, CallHandlerThunk, RaiseAgain, HostCall
<1>2. CASE ObjectStep
  BY <1>2 DEF ObjectStep, ErrorThunk, SafeBefore, SafeAfter, ErrorHandler, ClearMark, Destroy,
     DestroyAgain, CallSetEnv
<1>3. CASE UserStep
  <2>1. CASE UserCallCC
    <3> DEFINE k == [stack |-> Here, dw |-> curDW]
    <3>1. conts \in Seq(SavedStacks(Len(winds), Len(objs), Len(conts)))
      BY Parts DEF Data
    <3>2. conts' = Append(conts, k)
      BY <2>1 DEF UserCallCC
    <3> DEFINE S == SavedStacks(Len(winds), Len(objs), Len(conts))
    <3> HIDE DEF k, S
    <3>3. conts \in Seq(S \cup {k})
      BY <3>1, SeqMonotonic DEF S
    <3>4. Append(conts, k) # <<>>
      BY <3>3, AppendProperties
    <3> QED
      BY <3>2, <3>4
  <2>2. CASE ~UserCallCC
    BY <1>3, <2>2 DEF UserStep, UserReturn, UserWind, UserThrow, UserRaise,
     UserRaiseContinuable, UserHandler, UserManaged, UserWithEnv, Use
  <2> QED
    BY <2>1, <2>2
<1>4. CASE UNCHANGED vars
  BY <1>4 DEF vars
<1> QED
  BY <1>1, <1>2, <1>3, <1>4 DEF Next, Turn

\* What WindBody adds to the windings.
LEMMA NewWinding ==
  ASSUME IInv, WindBody
  PROVE  /\ Len(winds') = Len(winds) + 1
         /\ \A w \in 1..Len(winds) : winds'[w] = winds[w]
         /\ winds'[Len(winds) + 1].parent = curDW
         /\ winds'[Len(winds) + 1].before = call.run.before
         /\ winds'[Len(winds) + 1].after = call.run.after
         /\ Len(winds) \in Nat
         /\ DOMAIN winds = 1..Len(winds) /\ DOMAIN winds' = 1..(Len(winds) + 1)
<1> DEFINE n == Len(winds)
           W == winds'
           S == Windings(n, Len(objs))
           wind == [depth |-> Depth(curDW) + 1, parent |-> curDW,
                    before |-> call.run.before, after |-> call.run.after]
<1>1. winds \in Seq(S) /\ n \in Nat
  BY Parts DEF Data
<1>2. W = Append(winds, wind)
  BY DEF WindBody
<1>3. /\ wind.parent = curDW /\ wind.before = call.run.before /\ wind.after = call.run.after
  OBVIOUS
<1> SUFFICES /\ Len(W) = n + 1 /\ (\A w \in 1..n : W[w] = winds[w]) /\ W[n + 1] = wind
             /\ DOMAIN winds = 1..n /\ DOMAIN W = 1..(n + 1)
  BY <1>1, <1>3
<1> HIDE DEF W, wind, S
<1>4. winds \in Seq(S \cup {wind})
  BY <1>1, SeqMonotonic
<1>5. W \in Seq(S \cup {wind}) /\ Len(W) = n + 1 /\ (\A w \in 1..n : W[w] = winds[w])
      /\ W[n + 1] = wind
  BY <1>2, <1>4, AppendProperties
<1> QED
  BY <1>1, <1>5, LenProperties

LEMMA HandledStays ==
  ASSUME IInv, [Next]_vars, UserHandled
  PROVE  UserHandled'
<1>1. CASE WindBody
  <2>1. PICK w \in DOMAIN winds : InstallsHandlers(w) /\ \E i \in DOMAIN winds[w].before.hs :
          winds[w].before.hs[i].fn = "User"
    BY DEF UserHandled
  <2>2. w \in DOMAIN winds' /\ winds'[w] = winds[w]
    BY <1>1, NewWinding
  <2> QED
    BY <2>1, <2>2 DEF UserHandled, InstallsHandlers
<1>2. CASE ~WindBody
  <2>1. winds' = winds
    BY <1>2, WindsKept
  <2> QED
    BY <2>1 DEF UserHandled, InstallsHandlers
<1> QED
  BY <1>1, <1>2

\* What is being installed is installed: the runtime does nothing else in between.
LEMMA Installed ==
  ASSUME IInv, [Next]_vars, Installing
  PROVE  Installing' \/ UserHandled'
<1>1. CASE UNCHANGED vars
  BY <1>1 DEF vars, Installing, Calling
<1>2. CASE Next /\ Calling("SetHandlers")
  <2>1. CallSetHandlers
    BY <1>2, OneAction
  <2>2. /\ HasUser(call.run.hs) /\ Top(stack).run.fn = "WindBody" /\ Top(stack).run.before = call.run
        /\ call.run.fn = "SetHandlers"
    BY <1>2 DEF Installing, Calling
  <2>3. call' = Top(stack)
    BY <2>1 DEF CallSetHandlers, Cont
  <2> QED
    BY <2>2, <2>3 DEF Installing, Calling
<1>3. CASE Next /\ Calling("WindBody")
  <2>1. WindBody
    BY <1>3, OneAction
  <2>2. call.run.fn = "WindBody" /\ call.run.before.fn = "SetHandlers" /\ HasUser(call.run.before.hs)
    BY <1>3 DEF Installing, Calling
  <2>3. /\ Len(winds) + 1 \in DOMAIN winds' /\ Len(winds) \in Nat
        /\ winds'[Len(winds) + 1].before = call.run.before
    BY <2>1, NewWinding
  <2>4. call.run.before.hs \in Seq(Handlers(Len(objs)))
    <3>1. call.run.before \in Thunks(Len(objs)) /\ Len(objs) \in Nat
      BY <2>2, Parts, Captures
    <3>2. call.run.before \in Pending(Len(winds), Len(objs), Len(conts))
      BY <3>1 DEF Pending
    <3> QED
      BY <2>2, <3>2, Parts, Captures
  <2>5. DOMAIN call.run.before.hs = 1..Len(call.run.before.hs)
    BY <2>4, LenProperties
  <2> QED
    BY <2>2, <2>3, <2>5 DEF UserHandled, InstallsHandlers, HasUser
<1> QED
  BY <1>1, <1>2, <1>3 DEF Installing

LEMMA UnhandledBefore ==
  ASSUME IInv, [Next]_vars, Unhandled'
  PROVE  Unhandled
<1>1. conts = <<>>
  BY ContsKept DEF Unhandled
<1>2. ~UserHandled
  BY HandledStays DEF Unhandled
<1>3. ~Installing
  BY Installed DEF Unhandled
<1> QED
  BY <1>1, <1>2, <1>3 DEF Unhandled

-----------------------------------------------------------------------------
(* Steps *)

Situation(X, Y) ==
  /\ ContextInv /\ EnvsRestore
  /\ ContextOf(X) /\ ObjectsOf(Y) /\ CoveredBy(X, Y)

LEMMA ObjectsSame ==
  ASSUME UNCHANGED objs
  PROVE  Live' = Live /\ Marked' = Marked
BY DEF Live, Marked, Z0, T0, Alive

\* Steps that open no winding.
LEMMA SameWindings ==
  ASSUME NEW X, NEW Y, CoveredBy(X, Y), UNCHANGED winds, Leaving(Y)' \/ Staying(X, Y)'
  PROVE  CoveredBy(X, Y)'
BY DEF CoveredBy

\* Procedures of code that no error is on its way through.
LEMMA IsStaying ==
  ASSUME NEW X, NEW Y, Situation(X, Y), ~Raising
  PROVE  Staying(X, Y)
BY DEF Situation, CoveredBy, Leaving

LEMMA StayStep ==
  ASSUME NEW X, NEW Y, Situation(X, Y), UNCHANGED winds, Marked' = Marked,
         AllCalm(stack'), Calm(call'.run),
         \A o \in Live' : Held(call', stack', o, X, Y, Marked)
  PROVE  CoveredBy(X, Y)'
<1>1. Staying(X, Y)'
  BY DEF Staying
<1> QED
  BY <1>1, SameWindings DEF Situation

\* The pending call returns.
LEMMA StayReturn ==
  ASSUME NEW X, NEW Y, Situation(X, Y), Staying(X, Y), UNCHANGED winds, Cont(stack),
         Live' \subseteq Live, Marked' = Marked,
         \A o \in Live' : ~Destroys(call, o, Y, Marked)
  PROVE  CoveredBy(X, Y)'
<1> DEFINE F == Frames(Len(winds), Len(objs), Len(conts))
<1>1. stack \in Seq(F)
  BY Facts DEF Situation, Stacks
<1> HIDE DEF F
<1>2. AllCalm(Pop(stack)) /\ Calm(Top(stack).run)
  BY <1>1, CalmPop DEF Staying
<1>3. ASSUME NEW o \in Live' PROVE Held(Top(stack), Pop(stack), o, X, Y, Marked)
  <2>1. Held(call, stack, o, X, Y, Marked)
    BY DEF Staying
  <2>2. Kept(stack, o, X, Y, Marked)
    BY <2>1 DEF Held
  <2> QED
    BY <1>1, <2>2, KeptPop
<1>4. stack' = Pop(stack) /\ call' = Top(stack)
  BY DEF Cont
<1> QED
  BY <1>2, <1>3, <1>4, StayStep

\* Another procedure is called.
LEMMA StayCall ==
  ASSUME NEW X, NEW Y, Situation(X, Y), Staying(X, Y), UNCHANGED <<winds, stack, objs>>,
         NEW p, Apply(p, curDW), Calm(p),
         \A o \in Live : Destroys(call, o, Y, Marked) => Destroys(Closure(p, curDW), o, Y, Marked),
         \A o \in Live : Keeps(call, o, X, Y, Marked) => Keeps(Closure(p, curDW), o, X, Y, Marked)
  PROVE  CoveredBy(X, Y)'
<1> DEFINE c2 == Closure(p, curDW)
<1>1. Live' = Live /\ Marked' = Marked
  BY ObjectsSame
<1>2. call' = c2 /\ stack' = stack /\ c2.run = p
  BY DEF Apply, Closure
<1>3. ASSUME NEW o \in Live PROVE Held(c2, stack, o, X, Y, Marked)
  <2>1. Held(call, stack, o, X, Y, Marked)
    BY DEF Staying
  <2>2. Destroys(call, o, Y, Marked) => Destroys(c2, o, Y, Marked)
    OBVIOUS
  <2>3. Keeps(call, o, X, Y, Marked) => Keeps(c2, o, X, Y, Marked)
    OBVIOUS
  <2> HIDE DEF c2
  <2> QED
    BY <2>1, <2>2, <2>3 DEF Held
<1>4. AllCalm(stack)
  BY DEF Staying
<1> HIDE DEF c2
<1> QED
  BY <1>1, <1>2, <1>3, <1>4, StayStep

\* A frame is pushed and another procedure is called.
LEMMA StayPush ==
  ASSUME NEW X, NEW Y, Situation(X, Y), Staying(X, Y), UNCHANGED <<winds, objs>>,
         NEW q, NEW d, NEW p, NEW e, stack' = Push(stack, q, d), Apply(p, e), Calm(q), Calm(p),
         \A o \in Live : Destroys(call, o, Y, Marked) =>
           \/ Destroys(Closure(p, e), o, Y, Marked)
           \/ Keeps(Closure(p, e), o, X, Y, Marked) /\ Destroys(Closure(q, d), o, Y, Marked),
         \A o \in Live : Keeps(call, o, X, Y, Marked) =>
           /\ Keeps(Closure(p, e), o, X, Y, Marked)
           /\ Keeps(Closure(q, d), o, X, Y, Marked) \/ Destroys(Closure(q, d), o, Y, Marked)
  PROVE  CoveredBy(X, Y)'
<1> DEFINE c2 == Closure(p, e)
           f == Closure(q, d)
           F == Frames(Len(winds), Len(objs), Len(conts))
<1>1. Live' = Live /\ Marked' = Marked
  BY ObjectsSame
<1>2. call' = c2 /\ c2.run = p
  BY DEF Apply, Closure
<1>3. stack \in Seq(F)
  BY Facts DEF Situation, Stacks
<1> HIDE DEF F
<1>4. ASSUME NEW o \in Live PROVE Held(c2, stack', o, X, Y, Marked)
  <2>1. Held(call, stack, o, X, Y, Marked)
    BY DEF Staying
  <2>2. Destroys(call, o, Y, Marked) =>
          \/ Destroys(c2, o, Y, Marked)
          \/ Keeps(c2, o, X, Y, Marked) /\ Destroys(f, o, Y, Marked)
    OBVIOUS
  <2>3. Keeps(call, o, X, Y, Marked) =>
          /\ Keeps(c2, o, X, Y, Marked)
          /\ Keeps(f, o, X, Y, Marked) \/ Destroys(f, o, Y, Marked)
    OBVIOUS
  <2>4. Destroys(f, o, Y, Marked) \/ (Keeps(f, o, X, Y, Marked) /\ Kept(stack, o, X, Y, Marked)) =>
          Kept(Push(stack, q, d), o, X, Y, Marked)
    BY <1>3, KeptPush
  <2> HIDE DEF c2, f
  <2> QED
    BY <2>1, <2>2, <2>3, <2>4 DEF Held
<1>5. AllCalm(stack')
  BY <1>3, CalmPush DEF Staying
<1> HIDE DEF c2
<1> QED
  BY <1>1, <1>2, <1>4, <1>5, StayStep

LEMMA WindExitCovers ==
  ASSUME NEW X, NEW Y, Situation(X, Y), WindExit PROVE CoveredBy(X, Y)'
<1> DEFINE q == [fn |-> "Forward"]
           p == call.run.after
           d == call.run.prev
<1>1. Staying(X, Y)
  BY IsStaying DEF WindExit, Calling, Raising, Passing
<1>2. call.run.fn = "WindExit" /\ IsAfter(p)
  <2>1. call.run.fn = "WindExit"
    BY DEF WindExit, Calling
  <2>2. /\ Runs(call, stack, winds, conts, Len(objs)) /\ call.at = curDW
        /\ curDW \in 0..Len(winds) /\ Len(winds) \in Nat
    BY Parts DEF Situation, ContextInv
  <2>3. curDW \in 1..Len(winds) /\ p = winds[curDW].after
    BY <2>1, <2>2 DEF Runs, Placed
  <2> QED
    BY <2>1, <2>3, Facts DEF Situation
<1>3. Calm(q) /\ Calm(p)
  BY <1>2 DEF Calm, IsAfter
<1>4. \A o : Keeps(Closure(q, d), o, X, Y, Marked) /\ ~Destroys(call, o, Y, Marked)
  BY <1>2 DEF Keeps, Closure, Destroys, Unwinds, OfObject
<1>5. ASSUME NEW o, Keeps(call, o, X, Y, Marked) PROVE Keeps(Closure(p, d), o, X, Y, Marked)
  <2>1. Closure(p, d).run = p /\ Closure(p, d).at = d
    BY DEF Closure
  <2>2. \/ p.fn = "SetHandlers" \/ p = OfObject("SafeAfter", o)
        \/ Guarded(d, o, X, Y, Marked)
    BY <1>2, <1>5 DEF Keeps, OpensExtent, Closes, OfObject
  <2> HIDE DEF p, d
  <2> QED
    BY <1>2, <2>1, <2>2 DEF Keeps, Closes, IsAfter
<1>6. /\ stack' = Push(stack, q, d) /\ Apply(p, d) /\ UNCHANGED <<winds, objs>>
  BY DEF WindExit
<1> HIDE DEF q, p, d
<1> QED
  BY <1>1, <1>3, <1>4, <1>5, <1>6, StayPush

\* Procedures that return and destroy nothing.
LEMMA ReturnCovers ==
  ASSUME NEW X, NEW Y, Situation(X, Y), call.run.fn \in {"Forward", "SetEnv", "User"},
         Cont(stack), UNCHANGED <<winds, objs>>
  PROVE  CoveredBy(X, Y)'
<1>1. Staying(X, Y)
  BY IsStaying DEF Calling, Raising, Passing
<1>2. Live' = Live /\ Marked' = Marked
  BY ObjectsSame
<1>3. \A o : ~Destroys(call, o, Y, Marked)
  BY DEF Destroys, Unwinds, OfObject
<1> QED
  BY <1>1, <1>2, <1>3, StayReturn

LEMMA TraverseArriveCovers ==
  ASSUME NEW X, NEW Y, Situation(X, Y), TraverseArrive PROVE CoveredBy(X, Y)'
<1>1. Staying(X, Y)
  BY IsStaying DEF TraverseArrive, Calling, Raising, Passing
<1>2. Live' = Live /\ Marked' = Marked
  BY ObjectsSame DEF TraverseArrive
<1>3. call.run.fn = "Traverse" /\ call.run.src = call.run.dest /\ call.run.dest = 0
  BY <1>1 DEF TraverseArrive, Calling, Staying, Calm
<1>4. call.at = 0
  <2>1. Runs(call, stack, winds, conts, Len(objs))
    BY Parts DEF Situation, ContextInv
  <2> QED
    BY <1>3, <2>1 DEF Runs, Placed
<1>5. Y[0] = {}
  BY Facts DEF Situation, Around0
<1>6. \A o : ~Destroys(call, o, Y, Marked)
  BY <1>3, <1>4, <1>5 DEF Destroys, Unwinds, OfObject
<1>7. Cont(stack) /\ UNCHANGED winds
  BY DEF TraverseArrive
<1> QED
  BY <1>1, <1>2, <1>6, <1>7, StayReturn

LEMMA TraverseUpCovers ==
  ASSUME NEW X, NEW Y, Situation(X, Y), TraverseUp PROVE CoveredBy(X, Y)'
<1> DEFINE src == call.run.src
           d == Parent(src)
           q == [fn |-> "ContinueUp", src |-> src, dest |-> call.run.dest]
           p == winds[src].after
<1>1. Staying(X, Y)
  BY IsStaying DEF TraverseUp, Calling, Raising, Passing
<1>2. call.run.fn = "Traverse" /\ call.run.dest = 0 /\ src # 0
  BY <1>1 DEF TraverseUp, Calling, Staying, Calm
<1>3. src \in 1..Len(winds) /\ call.at = src /\ d = winds[src].parent
  <2>1. /\ Runs(call, stack, winds, conts, Len(objs)) /\ call.at = curDW
        /\ curDW \in 0..Len(winds) /\ Len(winds) \in Nat
    BY Parts DEF Situation, ContextInv
  <2> QED
    BY <1>2, <2>1 DEF Runs, Placed, Parent
<1>4. IsAfter(p) /\ Y[src] = Y[d] \cup Opened(winds[src].before)
  BY <1>3, Facts DEF Situation, Around0
<1>5. Paired(winds[src].before, p)
  BY <1>3 DEF Situation, CoveredBy
<1>6. Calm(q) /\ Calm(p)
  BY <1>2, <1>4 DEF Calm, IsAfter
<1>7. \A o : ~Keeps(call, o, X, Y, Marked)
  BY <1>2 DEF Keeps, OpensExtent, Closes, OfObject
<1>8. ASSUME NEW o, Destroys(call, o, Y, Marked)
      PROVE  \/ Destroys(Closure(p, d), o, Y, Marked)
             \/ Keeps(Closure(p, d), o, X, Y, Marked) /\ Destroys(Closure(q, d), o, Y, Marked)
  <2>1. o \in Marked /\ o \in Y[src]
    BY <1>2, <1>3, <1>8 DEF Destroys, Unwinds, OfObject
  <2>2. /\ Closure(p, d).run = p /\ Closure(p, d).at = d
        /\ Closure(q, d).run.fn = "ContinueUp" /\ Closure(q, d).at = d
    BY DEF Closure
  <2>3. CASE o \in Y[d]
    <3>1. Guarded(d, o, X, Y, Marked)
      BY <2>1, <2>3 DEF Guarded
    <3>2. Destroys(Closure(q, d), o, Y, Marked)
      BY <2>1, <2>2, <2>3 DEF Destroys, Unwinds
    <3> HIDE DEF p, q, d
    <3>3. Keeps(Closure(p, d), o, X, Y, Marked)
      BY <1>4, <2>2, <3>1 DEF Keeps, IsAfter
    <3> QED
      BY <3>2, <3>3
  <2>4. CASE o \notin Y[d]
    <3>1. winds[src].before.fn = "SafeBefore" /\ o = winds[src].before.o
      BY <1>4, <2>1, <2>4 DEF Opened
    <3>2. p = OfObject("SafeAfter", o)
      BY <1>5, <3>1 DEF Paired
    <3> QED
      BY <2>1, <2>2, <3>2 DEF Destroys
  <2> QED
    BY <2>3, <2>4
<1>9. stack' = Push(stack, q, d) /\ Apply(p, d) /\ UNCHANGED <<winds, objs>>
  BY DEF TraverseUp
<1> HIDE DEF q, p, d
<1> QED
  BY <1>1, <1>6, <1>7, <1>8, <1>9, StayPush

LEMMA ContinueUpCovers ==
  ASSUME NEW X, NEW Y, Situation(X, Y), ContinueUp PROVE CoveredBy(X, Y)'
<1> DEFINE p == Traverse(Parent(call.run.src), call.run.dest)
<1>1. Staying(X, Y)
  BY IsStaying DEF ContinueUp, Calling, Raising, Passing
<1>2. call.run.fn = "ContinueUp" /\ call.run.dest = 0
  BY <1>1 DEF ContinueUp, Calling, Staying, Calm
<1>3. Calm(p) /\ p.fn = "Traverse"
  BY <1>2 DEF Calm, Traverse
<1>4. call.at = curDW
  BY Facts DEF Situation
<1>5. Apply(p, curDW) /\ UNCHANGED <<winds, stack, objs>>
  BY DEF ContinueUp
<1> HIDE DEF p
<1>6. \A o : Destroys(call, o, Y, Marked) => Destroys(Closure(p, curDW), o, Y, Marked)
  BY <1>2, <1>3, <1>4 DEF Destroys, Unwinds, OfObject, Closure
<1>7. \A o : ~Keeps(call, o, X, Y, Marked)
  BY <1>2 DEF Keeps, OpensExtent, Closes, OfObject
<1> QED
  BY <1>1, <1>3, <1>5, <1>6, <1>7, StayCall

-----------------------------------------------------------------------------
(* An error on its way *)

\* The handlers there are, but for what RunSync puts under them.
Set(h) == \E i \in 1..Len(handlers) : handlers[i] = h

LEMMA HandlersArePairs ==
  ASSUME NEW m, handlers \in Seq(Handlers(m))
  PROVE  /\ handlers # <<>> <=> IsPair(handlers)
         /\ handlers # <<>> => /\ Head(handlers) \in Handlers(m)
                               /\ Tail(handlers) \in Seq(Handlers(m))
                               /\ \A h : Set(h) <=> \/ h = Head(handlers)
                                                    \/ \E i \in 1..Len(Tail(handlers)) :
                                                         Tail(handlers)[i] = h
         /\ handlers = <<>> => \A h : ~Set(h)
<1>1. CASE handlers = <<>>
  BY <1>1, EmptySeq DEF IsPair, Set
<1>2. CASE handlers # <<>>
  <2> DEFINE n == Len(handlers)
             t == Tail(handlers)
  <2>1. Head(handlers) \in Handlers(m) /\ t \in Seq(Handlers(m)) /\ n \in Nat \ {0}
    BY <1>2, HeadTailProperties, EmptySeq, LenProperties
  <2>2. /\ Head(handlers) = handlers[1] /\ Len(t) = n - 1
        /\ \A i \in 1..(n - 1) : t[i] = handlers[i + 1]
    BY <1>2, HeadTailProperties
  <2>3. IsPair(handlers)
    <3>1. Head(handlers).fn # Catch.fn
      BY <2>1 DEF Handlers, Catch
    <3> QED
      BY <1>2, <3>1 DEF IsPair
  <2>4. ASSUME NEW h
        PROVE  Set(h) <=> \/ h = Head(handlers) \/ \E i \in 1..Len(t) : t[i] = h
    <3> HIDE DEF t, n
    <3>1. ASSUME NEW i \in 1..n, handlers[i] = h
          PROVE  h = Head(handlers) \/ \E j \in 1..Len(t) : t[j] = h
      <4>1. CASE i = 1
        BY <3>1, <4>1, <2>2
      <4>2. CASE i # 1
        <5>1. i - 1 \in 1..(n - 1) /\ (i - 1) + 1 = i
          BY <4>2, <2>1
        <5>2. t[i - 1] = handlers[(i - 1) + 1]
          BY <5>1, <2>2
        <5> QED
          BY <5>1, <5>2, <3>1, <2>2
      <4> QED
        BY <4>1, <4>2
    <3>2. ASSUME h = Head(handlers)
          PROVE  \E i \in 1..n : handlers[i] = h
      BY <3>2, <2>1, <2>2
    <3>3. ASSUME NEW j \in 1..Len(t), t[j] = h
          PROVE  \E i \in 1..n : handlers[i] = h
      <4>1. j + 1 \in 1..n /\ j \in 1..(n - 1)
        BY <2>1, <2>2
      <4> QED
        BY <4>1, <3>3, <2>2
    <3> QED
      BY <3>1, <3>2, <3>3 DEF Set, n
  <2> QED
    BY <1>2, <2>1, <2>3, <2>4
<1> QED
  BY <1>1, <1>2

\* The error is passed to the first handler, the others set meanwhile.
LEMMA PassedOn ==
  ASSUME NEW m, handlers \in Seq(Handlers(m)), IsPair(handlers), NEW S, NEW s \in Seq(S), NEW b,
         WithExceptionHandlers(s, Tail(handlers), HandlerThunk(Head(handlers), b))
  PROVE  Raising' /\ \A h : Due(h)' <=> Set(h)
<1> DEFINE hs == Tail(handlers)
           t == HandlerThunk(Head(handlers), b)
           q == [fn |-> "WindBody", before |-> SetHandlers(hs), thunk |-> t,
                 after |-> SetHandlers(handlers)]
           f == Closure(q, curDW)
<1>1. stack' = Push(s, q, curDW) /\ call' = Closure(SetHandlers(hs), curDW)
  BY DEF WithExceptionHandlers, DynamicWind, Apply
<1>2. q.fn = "WindBody" /\ q.thunk = t /\ q.before = SetHandlers(hs) /\ f.run = q
  BY DEF Closure
<1>3. t.fn = "HandlerThunk" /\ t.h = Head(handlers)
  BY DEF HandlerThunk
<1>4. call'.run.fn = "SetHandlers" /\ call'.run.hs = hs /\ SetHandlers(hs).fn = "SetHandlers"
  BY <1>1 DEF Closure, SetHandlers
<1>5. \A h : Set(h) <=> h = Head(handlers) \/ \E i \in 1..Len(hs) : hs[i] = h
  BY HandlersArePairs
<1> HIDE DEF hs, t, q
<1>6. s \in Seq(S \cup {f})
  BY SeqMonotonic
<1> HIDE DEF f
<1>7. Push(s, q, curDW) = Append(s, f)
  BY DEF Push, f
<1>8. stack' # <<>> /\ Top(stack') = f
  <2> DEFINE u == Append(s, f)
             n == Len(s)
  <2>1. n \in Nat /\ Len(u) = n + 1 /\ u[n + 1] = f
    BY <1>6, AppendProperties
  <2>2. stack' = u
    BY <1>1, <1>7
  <2>3. Len(stack') = n + 1 /\ stack'[n + 1] = f
    BY <2>1, <2>2
  <2> HIDE DEF u, n
  <2>4. stack' # <<>>
    BY <2>1, <2>3, EmptySeq
  <2> QED
    BY <2>3, <2>4 DEF Top
<1>9. Raising'
  <2>1. Passing(Top(stack').run)
    BY <1>2, <1>3, <1>4, <1>8 DEF Passing
  <2> QED
    BY <2>1, <1>4, <1>8 DEF Raising, Calling
<1>10. ASSUME NEW h PROVE Due(h)' <=> Set(h)
  <2>1. Later' = hs
    BY <1>4 DEF Later, Calling
  <2>2. Due(h)' <=> (\E i \in 1..Len(hs) : hs[i] = h) \/ Head(handlers) = h
    BY <2>1, <1>2, <1>3, <1>4, <1>8 DEF Due, Calling
  <2> QED
    BY <2>2, <1>5
<1> QED
  BY <1>9, <1>10

\* Code that no error was on its way through raises one, and the handlers are
\* those of the extent it runs in.
LEMMA RaisedHere ==
  ASSUME NEW X, NEW Y, Situation(X, Y), Staying(X, Y),
         call.run.fn \in {"User", "Destroy", "SafeBefore"},
         \A o \in Live : /\ ~Destroys(call, o, Y, Marked)
                         /\ Keeps(call, o, X, Y, Marked) => Guarded(curDW, o, X, Y, Marked)
  PROVE  /\ \A h : Set(h) => h.fn = "ErrorHandler"
         /\ \A o \in Live : o \in Y[curDW] /\ (o \in Marked \/ Set(OfObject("ErrorHandler", o)))
<1>1. handlers = X[curDW].hs /\ curDW \in 0..Len(winds)
  BY Facts DEF Situation, Quiet, Changes, Calling
<1>2. Errors(handlers)
  BY <1>1 DEF Situation, CoveredBy
<1>3. ASSUME NEW o \in Live
      PROVE  o \in Y[curDW] /\ (o \in Marked \/ Set(OfObject("ErrorHandler", o)))
  <2>1. Held(call, stack, o, X, Y, Marked)
    BY DEF Staying
  <2>2. Guarded(curDW, o, X, Y, Marked)
    BY <2>1 DEF Held
  <2> QED
    BY <2>2, <1>1 DEF Guarded, Reports, Set
<1> QED
  BY <1>2, <1>3 DEF Errors, Set

\* The error is on its way, to the same handlers.
LEMMA LeaveStep ==
  ASSUME NEW X, NEW Y, CoveredBy(X, Y), UNCHANGED <<winds, curDW>>, Raising',
         Live' \subseteq Live,
         \A h : Due(h)' => h.fn = "ErrorHandler",
         \A o \in Live' : /\ o \in Y[curDW]
                          /\ o \in Marked' \/ Due(OfObject("ErrorHandler", o))'
  PROVE  CoveredBy(X, Y)'
<1>1. Leaving(Y)'
  BY DEF Leaving
<1> QED
  BY <1>1, SameWindings

\* Raise is called.
LEMMA RaiseCalled ==
  ASSUME call'.run = Raise, handlers' = handlers
  PROVE  Raising' /\ \A h : Due(h)' <=> Set(h)
<1>1. call'.run.fn = "Raise"
  BY DEF Raise
<1>2. Raising'
  BY <1>1 DEF Raising
<1>3. Later' = handlers
  BY <1>1 DEF Later, Calling
<1> QED
  BY <1>1, <1>2, <1>3 DEF Due, Calling, Set

\* RaiseContinuable(s) is called.
LEMMA RaiseContinuableCalled ==
  ASSUME NEW m, handlers \in Seq(Handlers(m)), NEW S, NEW s \in Seq(S), RaiseContinuable(s),
         handlers' = handlers
  PROVE  Raising' /\ \A h : Due(h)' <=> Set(h)
<1>1. CASE IsPair(handlers)
  <2>1. WithExceptionHandlers(s, Tail(handlers), HandlerThunk(Head(handlers), TRUE))
    BY <1>1 DEF RaiseContinuable
  <2> QED
    BY <1>1, <2>1, PassedOn
<1>2. CASE ~IsPair(handlers)
  <2>1. call'.run = Raise
    BY <1>2 DEF RaiseContinuable, Apply, Closure
  <2> QED
    BY <2>1, RaiseCalled
<1> QED
  BY <1>1, <1>2

\* An error is raised where none was on its way.
LEMMA RaiseFromHere ==
  ASSUME NEW X, NEW Y, Situation(X, Y), Staying(X, Y), UNCHANGED <<winds, curDW, objs>>,
         call.run.fn \in {"User", "Destroy", "SafeBefore"},
         \A o \in Live : /\ ~Destroys(call, o, Y, Marked)
                         /\ Keeps(call, o, X, Y, Marked) => Guarded(curDW, o, X, Y, Marked),
         Raising', \A h : Due(h)' <=> Set(h)
  PROVE  CoveredBy(X, Y)'
<1>1. /\ \A h : Set(h) => h.fn = "ErrorHandler"
      /\ \A o \in Live : o \in Y[curDW] /\ (o \in Marked \/ Set(OfObject("ErrorHandler", o)))
  BY RaisedHere
<1>2. Live' = Live /\ Marked' = Marked
  BY ObjectsSame
<1>3. CoveredBy(X, Y)
  BY DEF Situation
<1> QED
  BY <1>1, <1>2, <1>3, LeaveStep

\* What User code keeps is guarded where it runs.
LEMMA UserGuards ==
  ASSUME NEW X, NEW Y, Situation(X, Y), Calling("User"), NEW o, NEW E
  PROVE  /\ ~Destroys(call, o, Y, E)
         /\ Keeps(call, o, X, Y, E) => Guarded(curDW, o, X, Y, E)
<1>1. call.at = curDW
  BY Facts DEF Situation
<1> QED
  BY <1>1 DEF Calling, Destroys, Unwinds, OfObject, Keeps, OpensExtent, Closes

LEMMA UserRaiseCovers ==
  ASSUME NEW X, NEW Y, Situation(X, Y), UserRaise PROVE CoveredBy(X, Y)'
<1>1. Calling("User") /\ UNCHANGED <<winds, curDW, objs>> /\ handlers' = handlers
  BY DEF UserRaise, Use
<1>2. Staying(X, Y)
  BY <1>1, IsStaying DEF Calling, Raising, Passing
<1>3. call'.run = Raise
  BY DEF UserRaise, Apply, Closure
<1>4. Raising' /\ \A h : Due(h)' <=> Set(h)
  BY <1>1, <1>3, RaiseCalled
<1>5. \A o \in Live : /\ ~Destroys(call, o, Y, Marked)
                      /\ Keeps(call, o, X, Y, Marked) => Guarded(curDW, o, X, Y, Marked)
  BY <1>1, UserGuards
<1>6. call.run.fn \in {"User", "Destroy", "SafeBefore"}
  BY <1>1 DEF Calling
<1> QED
  BY <1>1, <1>2, <1>4, <1>5, <1>6, RaiseFromHere

LEMMA UserRaiseContinuableCovers ==
  ASSUME NEW X, NEW Y, Situation(X, Y), UserRaiseContinuable PROVE CoveredBy(X, Y)'
<1>1. Calling("User") /\ UNCHANGED <<winds, curDW, objs>> /\ handlers' = handlers
  BY DEF UserRaiseContinuable, Use
<1>2. Staying(X, Y)
  BY <1>1, IsStaying DEF Calling, Raising, Passing
<1>3. Raising' /\ \A h : Due(h)' <=> Set(h)
  <2> DEFINE m == Len(objs)
             f == Closure(User("main"), curDW)
             F == Frames(Len(winds), Len(objs), Len(conts)) \cup {f}
  <2>1. handlers \in Seq(Handlers(m)) /\ stack \in Stacks
    BY Facts DEF Situation
  <2>2. stack \in Seq(F)
    BY <2>1, SeqMonotonic DEF Stacks
  <2>3. Here = Append(stack, f) /\ f \in F
    BY DEF Here, Push
  <2> HIDE DEF f, F, m
  <2>4. Here \in Seq(F)
    BY <2>2, <2>3, AppendProperties
  <2>5. RaiseContinuable(Here)
    BY DEF UserRaiseContinuable
  <2> QED
    BY <1>1, <2>1, <2>4, <2>5, RaiseContinuableCalled
<1>4. \A o \in Live : /\ ~Destroys(call, o, Y, Marked)
                      /\ Keeps(call, o, X, Y, Marked) => Guarded(curDW, o, X, Y, Marked)
  BY <1>1, UserGuards
<1>5. call.run.fn \in {"User", "Destroy", "SafeBefore"}
  BY <1>1 DEF Calling
<1> QED
  BY <1>1, <1>2, <1>3, <1>4, <1>5, RaiseFromHere

LEMMA IsLeaving ==
  ASSUME NEW X, NEW Y, Situation(X, Y), Raising
  PROVE  Leaving(Y)
<1> SUFFICES ASSUME Staying(X, Y) PROVE FALSE
  BY DEF Situation, CoveredBy
<1>1. AllCalm(stack) /\ Calm(call.run)
  BY DEF Staying
<1>2. Calm(Top(stack).run)
  <2> DEFINE F == Frames(Len(winds), Len(objs), Len(conts))
  <2>1. stack \in Seq(F)
    BY Facts DEF Situation, Stacks
  <2> HIDE DEF F
  <2> QED
    BY <2>1, <1>1, CalmPop
<1> QED
  BY <1>1, <1>2 DEF Raising, Passing, Calm

\* The error is nobody's: every environment left was marked, so the traversal
\* that leaves all extents destroys it.
LEMMA RaiseUncaughtCovers ==
  ASSUME NEW X, NEW Y, Situation(X, Y), RaiseUncaught PROVE CoveredBy(X, Y)'
<1> DEFINE p == Traverse(curDW, bottomDW)
           c2 == Closure(p, curDW)
<1>1. call.run.fn = "Raise" /\ handlers = <<>> /\ stack' = <<>> /\ call' = c2
  BY DEF RaiseUncaught, Calling, Apply
<1>2. Leaving(Y)
  BY <1>1, IsLeaving DEF Raising
<1>3. \A h : ~Due(h)
  BY <1>1, EmptySeq DEF Due, Later, Calling
<1>4. bottomDW = 0 /\ p.fn = "Traverse" /\ p.dest = bottomDW /\ c2.run = p /\ c2.at = curDW
  BY Facts DEF Situation, Traverse, Closure
<1>5. Live' = Live /\ Marked' = Marked /\ UNCHANGED winds
  BY ObjectsSame DEF RaiseUncaught
<1> HIDE DEF p, c2
<1>6. ASSUME NEW o \in Live PROVE Held(c2, <<>>, o, X, Y, Marked)
  BY <1>2, <1>3, <1>4 DEF Leaving, Held, Destroys, Unwinds
<1>7. Calm(p) /\ AllCalm(<<>>)
  BY <1>4, EmptySeq DEF Calm, AllCalm
<1> QED
  BY <1>1, <1>4, <1>5, <1>6, <1>7, StayStep

LEMMA RaiseToHandlerCovers ==
  ASSUME NEW X, NEW Y, Situation(X, Y), RaiseToHandler PROVE CoveredBy(X, Y)'
<1> DEFINE F == Frames(Len(winds), Len(objs), Len(conts))
           m == Len(objs)
<1>1. call.run.fn = "Raise" /\ IsPair(handlers) /\ UNCHANGED <<winds, curDW, objs>>
  BY DEF RaiseToHandler, Calling
<1>2. Leaving(Y)
  BY <1>1, IsLeaving DEF Raising
<1>3. \A h : Due(h) <=> Set(h)
  BY <1>1 DEF Due, Later, Calling, Set
<1>4. Live' = Live /\ Marked' = Marked
  BY <1>1, ObjectsSame
<1>5. stack \in Seq(F) /\ handlers \in Seq(Handlers(m))
  BY Facts DEF Situation, Stacks
<1>6. WithExceptionHandlers(stack, Tail(handlers), HandlerThunk(Head(handlers), FALSE))
  BY DEF RaiseToHandler
<1> HIDE DEF F, m
<1>7. Raising' /\ \A h : Due(h)' <=> Set(h)
  BY <1>1, <1>5, <1>6, PassedOn
<1>8. CoveredBy(X, Y)
  BY DEF Situation
<1>9. \A h : Due(h)' <=> Due(h)
  BY <1>3, <1>7
<1>10. /\ \A h : Due(h) => h.fn = "ErrorHandler"
       /\ \A o \in Live : o \in Y[curDW] /\ (o \in Marked \/ Due(OfObject("ErrorHandler", o)))
  BY <1>2 DEF Leaving
<1> QED
  BY <1>1, <1>4, <1>7, <1>8, <1>9, <1>10, LeaveStep

\* The handler is that of an object.
LEMMA CallHandlerThunkCovers ==
  ASSUME NEW X, NEW Y, Situation(X, Y), CallHandlerThunk PROVE CoveredBy(X, Y)'
<1>1. /\ call.run.fn = "HandlerThunk" /\ UNCHANGED <<winds, curDW, objs, handlers>>
      /\ call' = Closure(call.run.h, curDW)
  BY DEF CallHandlerThunk, Calling, Apply
<1>2. Leaving(Y)
  BY <1>1, IsLeaving DEF Raising
<1>3. \A h : Due(h) <=> Set(h) \/ call.run.h = h
  BY <1>1 DEF Due, Later, Calling, Set
<1>4. Live' = Live /\ Marked' = Marked
  BY <1>1, ObjectsSame
<1>5. /\ \A h : Due(h) => h.fn = "ErrorHandler"
      /\ \A o \in Live : o \in Y[curDW] /\ (o \in Marked \/ Due(OfObject("ErrorHandler", o)))
  BY <1>2 DEF Leaving
<1>6. call'.run = call.run.h /\ call'.run.fn = "ErrorHandler"
  BY <1>1, <1>3, <1>5 DEF Closure
<1>7. Raising'
  BY <1>6 DEF Raising
<1>8. \A h : Due(h)' <=> Set(h) \/ call.run.h = h
  BY <1>1, <1>6 DEF Due, Later, Calling, Set
<1>9. \A h : Due(h)' <=> Due(h)
  BY <1>3, <1>8
<1>10. CoveredBy(X, Y)
  BY DEF Situation
<1> QED
  BY <1>1, <1>4, <1>5, <1>7, <1>9, <1>10, LeaveStep

\* What marking and destroying an object do to the others.
LEMMA MarksKept ==
  ASSUME NEW m, objs \in Seq(Objects(m)), NEW o \in DOMAIN objs
  PROVE  /\ objs' = [objs EXCEPT ![o].isError = TRUE] =>
              Marked' = Marked \cup {o} /\ Live' = Live
         /\ objs' = [objs EXCEPT ![o].alive = FALSE] =>
              Marked' = Marked /\ Live' = Live \ {o}
<1> DEFINE P == [objs EXCEPT ![o].isError = TRUE]
           Q == [objs EXCEPT ![o].alive = FALSE]
<1>1. /\ objs' = P => Alive' = Alive
      /\ objs' = Q => Alive' = Alive \ {o}
  BY AliveKept
<1>2. ThunksOf(P) = T0 /\ ThunksOf(Q) = T0
  BY ThunksKept
<1>3. \A i \in DOMAIN objs : objs[i] \in Objects(m)
  BY ElementOfSeq, LenProperties
<1>4. DOMAIN P = DOMAIN objs /\ DOMAIN Q = DOMAIN objs
  OBVIOUS
<1>5. ASSUME NEW i \in DOMAIN objs
      PROVE  /\ i # o => P[i].isError = objs[i].isError
             /\ i = o => P[i].isError
             /\ Q[i].isError = objs[i].isError
  BY <1>3, <1>5 DEF Objects
<1> HIDE DEF P, Q
<1>6. {i \in DOMAIN P : P[i].isError} = Marked \cup {o}
  BY <1>4, <1>5 DEF Marked
<1>7. {i \in DOMAIN Q : Q[i].isError} = Marked
  BY <1>4, <1>5 DEF Marked
<1>8. objs' = P => Marked' = Marked \cup {o}
  BY <1>6 DEF Marked
<1>9. objs' = Q => Marked' = Marked
  BY <1>7 DEF Marked
<1>10. objs' = P \/ objs' = Q => Z0' = Z0
  <2>1. objs' = P \/ objs' = Q => ThunksOf(objs') = T0
    BY <1>2
  <2> QED
    BY <2>1 DEF Z0, T0
<1>11. objs' = P => Live' = Live
  BY <1>1, <1>10 DEF Live
<1>12. objs' = Q => Live' = Live \ {o}
  BY <1>1, <1>10 DEF Live
<1> QED
  BY <1>8, <1>9, <1>11, <1>12 DEF P, Q

\* The error handler of an object marks it and passes the error on.
LEMMA ErrorHandlerCovers ==
  ASSUME NEW X, NEW Y, Situation(X, Y), ErrorHandler PROVE CoveredBy(X, Y)'
<1> DEFINE m == Len(objs)
           x == call.run.o
           f == Closure(OfObject("ClearMark", x), curDW)
           F == Frames(Len(winds), Len(objs), Len(conts)) \cup {f}
           s == Push(stack, OfObject("ClearMark", x), curDW)
<1>1. /\ call.run.fn = "ErrorHandler" /\ UNCHANGED <<winds, curDW, handlers>>
      /\ objs' = [objs EXCEPT ![x].isError = TRUE] /\ RaiseContinuable(s)
  BY DEF ErrorHandler, Calling
<1>2. Leaving(Y)
  BY <1>1, IsLeaving DEF Raising
<1>3. \A h : Due(h) <=> Set(h) \/ call.run = h
  BY <1>1 DEF Due, Later, Calling, Set
<1>4. x \in DOMAIN objs /\ objs \in Seq(Objects(m))
  BY <1>1, ObjectCalled DEF Situation
<1>5. handlers \in Seq(Handlers(m)) /\ stack \in Stacks
  BY Facts DEF Situation
<1>6. s \in Seq(F)
  <2>1. stack \in Seq(F)
    BY <1>5, SeqMonotonic DEF Stacks
  <2>2. s = Append(stack, f) /\ f \in F
    BY DEF Push
  <2> HIDE DEF s, f, F
  <2> QED
    BY <2>1, <2>2, AppendProperties
<1> HIDE DEF m, x, s, F
<1>7. Raising' /\ \A h : Due(h)' <=> Set(h)
  BY <1>1, <1>5, <1>6, RaiseContinuableCalled
<1>8. Marked' = Marked \cup {x} /\ Live' = Live
  BY <1>1, <1>4, MarksKept
<1>9. /\ \A h : Due(h) => h.fn = "ErrorHandler"
      /\ \A o \in Live : o \in Y[curDW] /\ (o \in Marked \/ Due(OfObject("ErrorHandler", o)))
  BY <1>2 DEF Leaving
<1>10. ASSUME NEW o, call.run = OfObject("ErrorHandler", o) PROVE o = x
  BY <1>10 DEF OfObject, x
<1>11. CoveredBy(X, Y)
  BY DEF Situation
<1>12. \A h : Due(h)' => h.fn = "ErrorHandler"
  BY <1>3, <1>7, <1>9
<1>13. \A o \in Live' : /\ o \in Y[curDW]
                        /\ o \in Marked' \/ Due(OfObject("ErrorHandler", o))'
  BY <1>3, <1>7, <1>8, <1>9, <1>10
<1> QED
  BY <1>1, <1>7, <1>8, <1>11, <1>12, <1>13, LeaveStep

LEMMA CallSetHandlersCovers ==
  ASSUME NEW X, NEW Y, Situation(X, Y), CallSetHandlers PROVE CoveredBy(X, Y)'
<1>1. /\ call.run.fn = "SetHandlers" /\ UNCHANGED <<winds, curDW, objs>> /\ Cont(stack)
      /\ handlers' = call.run.hs
  BY DEF CallSetHandlers, Calling
<1>2. Live' = Live /\ Marked' = Marked
  BY <1>1, ObjectsSame
<1>3. CASE ~Raising
  <2>1. Staying(X, Y)
    BY <1>3, IsStaying
  <2>2. \A o : ~Destroys(call, o, Y, Marked)
    BY <1>1 DEF Destroys, Unwinds, OfObject
  <2> QED
    BY <1>1, <1>2, <2>1, <2>2, StayReturn
<1>4. CASE Raising
  <2>1. Leaving(Y)
    BY <1>4, IsLeaving
  <2>2. call' = Top(stack) /\ Passing(Top(stack).run)
    BY <1>1, <1>4 DEF Raising, Passing, Cont
  <2>3. call'.run.fn = "WindBody"
    BY <2>2 DEF Passing
  <2>4. Raising'
    BY <2>2 DEF Raising
  <2>5. \A h : Due(h)' <=> Due(h)
    BY <1>1, <2>2, <2>3 DEF Due, Later, Calling
  <2>6. /\ \A h : Due(h) => h.fn = "ErrorHandler"
        /\ \A o \in Live : o \in Y[curDW] /\ (o \in Marked \/ Due(OfObject("ErrorHandler", o)))
    BY <2>1 DEF Leaving
  <2>7. CoveredBy(X, Y)
    BY DEF Situation
  <2> QED
    BY <1>1, <1>2, <2>4, <2>5, <2>6, <2>7, LeaveStep
<1> QED
  BY <1>3, <1>4

-----------------------------------------------------------------------------
(* Steps of managed objects *)

\* The environments that are left.
LEMMA LiveObjects ==
  ASSUME NEW X, NEW Y, Situation(X, Y), NEW o \in Live
  PROVE  /\ o \in 1..Len(objs) /\ objs[o].alive
         /\ objs[o].before.fn = "SetEnv" /\ objs[o].after.fn = "SetEnv"
<1>1. /\ DOMAIN objs = 1..Len(objs)
      /\ \A i \in 1..Len(objs) : /\ T0[i].before = objs[i].before /\ T0[i].after = objs[i].after
  BY Facts DEF Situation
<1>2. o \in Z0 /\ o \in Alive
  BY DEF Live
<1>3. o \in DOMAIN objs /\ objs[o].alive
  BY <1>2 DEF Alive
<1>4. T0[o].before.fn = "SetEnv" /\ T0[o].after.fn = "SetEnv"
  BY <1>2 DEF Z0, Envs, T0, Situation, EnvsRestore
<1> QED
  BY <1>1, <1>3, <1>4

LEMMA ErrorThunkCovers ==
  ASSUME NEW X, NEW Y, Situation(X, Y), ErrorThunk PROVE CoveredBy(X, Y)'
<1> DEFINE x == call.run.o
           p == OfObject("SafeBefore", x)
           a == OfObject("SafeAfter", x)
           t == User("thunk")
           q == [fn |-> "WindBody", before |-> p, thunk |-> t, after |-> a]
<1>1. /\ call.run.fn = "ErrorThunk" /\ UNCHANGED <<winds, objs>>
      /\ stack' = Push(stack, q, curDW) /\ Apply(p, curDW)
  BY DEF ErrorThunk, Calling, DynamicWind
<1>2. Staying(X, Y) /\ call.at = curDW
  BY <1>1, IsStaying, Facts DEF Situation, Calling, Raising, Passing
<1>3. /\ p.fn = "SafeBefore" /\ p.o = x /\ t.fn = "User"
      /\ q.fn = "WindBody" /\ q.before = p /\ q.thunk = t /\ q.after = a
      /\ Closure(p, curDW).run = p /\ Closure(p, curDW).at = curDW
      /\ Closure(q, curDW).run = q /\ Closure(q, curDW).at = curDW
  BY DEF OfObject, User, Closure
<1>4. Calm(p) /\ Calm(q)
  BY <1>3 DEF Calm, Paired
<1>5. \A o : ~Destroys(call, o, Y, Marked)
  BY <1>1 DEF Destroys, Unwinds, OfObject
<1>6. ASSUME NEW o, Keeps(call, o, X, Y, Marked)
      PROVE  Keeps(Closure(p, curDW), o, X, Y, Marked) /\ Keeps(Closure(q, curDW), o, X, Y, Marked)
  <2>1. Guarded(curDW, o, X, Y, Marked) \/ (o = x /\ Reports(X[curDW].hs, o))
    BY <1>1, <1>2, <1>6 DEF Keeps, OpensExtent, Closes, OfObject
  <2>2. o = x => p = OfObject("SafeBefore", o)
    OBVIOUS
  <2> HIDE DEF p, q, x, t, a
  <2> QED
    BY <1>3, <2>1, <2>2 DEF Keeps, OpensExtent
<1> HIDE DEF p, q
<1> QED
  BY <1>1, <1>2, <1>4, <1>5, <1>6, StayPush

LEMMA SafeBeforeCovers ==
  ASSUME NEW X, NEW Y, Situation(X, Y), SafeBefore PROVE CoveredBy(X, Y)'
<1> DEFINE x == call.run.o
           p == objs[x].before
<1>1. /\ call.run.fn = "SafeBefore" /\ UNCHANGED <<winds, curDW, stack, objs>> /\ handlers' = handlers
      /\ Apply(IF objs[x].alive THEN p ELSE Raise, curDW)
  BY DEF SafeBefore, Calling
<1>2. Staying(X, Y) /\ call.at = curDW
  BY <1>1, IsStaying, Facts DEF Situation, Calling, Raising, Passing
<1>3. \A o : ~Destroys(call, o, Y, Marked)
  BY <1>1 DEF Destroys, Unwinds, OfObject
<1>4. IsObjectThunk(p)
  BY <1>1, ObjectCalled DEF Situation
<1>5. ASSUME NEW o, Keeps(call, o, X, Y, Marked)
      PROVE  o = x \/ Guarded(curDW, o, X, Y, Marked)
  BY <1>1, <1>2, <1>5 DEF Keeps, OpensExtent, Closes, OfObject
<1>6. CASE objs[x].alive
  <2>1. Apply(p, curDW) /\ Calm(p)
    BY <1>1, <1>4, <1>6 DEF Calm, IsObjectThunk
  <2>2. ASSUME NEW o \in Live, Keeps(call, o, X, Y, Marked)
        PROVE  Keeps(Closure(p, curDW), o, X, Y, Marked)
    <3>1. o = x => p.fn = "SetEnv"
      BY LiveObjects
    <3>2. Closure(p, curDW).run = p /\ Closure(p, curDW).at = curDW
      BY DEF Closure
    <3>3. o = x \/ Guarded(curDW, o, X, Y, Marked)
      BY <1>5, <2>2
    <3> HIDE DEF p
    <3> QED
      BY <1>4, <3>1, <3>2, <3>3 DEF Keeps, IsObjectThunk
  <2> HIDE DEF p
  <2> QED
    BY <1>1, <1>2, <1>3, <2>1, <2>2, StayCall
<1>7. CASE ~objs[x].alive
  <2>1. call'.run = Raise
    BY <1>1, <1>7 DEF Apply, Closure
  <2>2. Raising' /\ \A h : Due(h)' <=> Set(h)
    BY <1>1, <2>1, RaiseCalled
  <2>3. \A o \in Live : o # x
    BY <1>7, LiveObjects
  <2>4. \A o \in Live : Keeps(call, o, X, Y, Marked) => Guarded(curDW, o, X, Y, Marked)
    BY <1>5, <2>3
  <2>5. UNCHANGED <<winds, curDW, objs>> /\ call.run.fn \in {"User", "Destroy", "SafeBefore"}
    BY <1>1
  <2> QED
    BY <1>2, <1>3, <2>2, <2>4, <2>5, RaiseFromHere
<1> QED
  BY <1>6, <1>7

LEMMA SafeAfterCovers ==
  ASSUME NEW X, NEW Y, Situation(X, Y), SafeAfter PROVE CoveredBy(X, Y)'
<1> DEFINE x == call.run.o
           p == objs[x].after
           q == OfObject("Destroy", x)
<1>1. /\ call.run.fn = "SafeAfter" /\ UNCHANGED <<winds, objs>> /\ Apply(p, curDW)
      /\ stack' = IF objs[x].isError THEN Push(stack, q, curDW) ELSE stack
  BY DEF SafeAfter, Calling
<1>2. Staying(X, Y) /\ call.at = curDW
  BY <1>1, IsStaying, Facts DEF Situation, Calling, Raising, Passing
<1>3. IsObjectThunk(p) /\ x \in DOMAIN objs
  BY <1>1, ObjectCalled DEF Situation
<1>4. /\ q.fn = "Destroy" /\ Closure(q, curDW).run = q /\ Closure(q, curDW).at = curDW
      /\ Closure(p, curDW).run = p /\ Closure(p, curDW).at = curDW
  BY DEF OfObject, Closure
<1>5. Calm(p) /\ Calm(q)
  BY <1>3, <1>4 DEF Calm, IsObjectThunk
<1>6. ASSUME NEW o, Keeps(call, o, X, Y, Marked)
      PROVE  o = x \/ Guarded(curDW, o, X, Y, Marked)
  BY <1>1, <1>2, <1>6 DEF Keeps, OpensExtent, Closes, OfObject
<1>7. ASSUME NEW o, Destroys(call, o, Y, Marked) PROVE o = x /\ o \in Marked
  BY <1>1, <1>7 DEF Destroys, Unwinds, OfObject
<1>8. ASSUME NEW o \in Live, o = x \/ Guarded(curDW, o, X, Y, Marked)
      PROVE  Keeps(Closure(p, curDW), o, X, Y, Marked)
  <2>1. o = x => p.fn = "SetEnv"
    BY LiveObjects
  <2> HIDE DEF p, x
  <2> QED
    BY <1>3, <1>4, <1>8, <2>1 DEF Keeps, IsObjectThunk
<1>9. ASSUME NEW o, o = x
      PROVE  Destroys(Closure(q, curDW), o, Y, Marked)
  BY <1>4, <1>9 DEF Destroys
<1>10. ASSUME NEW o, Guarded(curDW, o, X, Y, Marked)
       PROVE  Keeps(Closure(q, curDW), o, X, Y, Marked)
  <2> HIDE DEF q
  <2> QED
    BY <1>4, <1>10 DEF Keeps
<1>11. CASE objs[x].isError
  <2>1. stack' = Push(stack, q, curDW)
    BY <1>1, <1>11
  <2>2. \A o \in Live : Destroys(call, o, Y, Marked) =>
          Keeps(Closure(p, curDW), o, X, Y, Marked) /\ Destroys(Closure(q, curDW), o, Y, Marked)
    BY <1>7, <1>8, <1>9
  <2>3. \A o \in Live : Keeps(call, o, X, Y, Marked) =>
          /\ Keeps(Closure(p, curDW), o, X, Y, Marked)
          /\ Keeps(Closure(q, curDW), o, X, Y, Marked) \/ Destroys(Closure(q, curDW), o, Y, Marked)
    BY <1>6, <1>8, <1>9, <1>10
  <2> HIDE DEF p, q, x
  <2> QED
    BY <1>1, <1>2, <1>5, <2>1, <2>2, <2>3, StayPush
<1>12. CASE ~objs[x].isError
  <2>1. stack' = stack
    BY <1>1, <1>12
  <2>2. x \notin Marked
    BY <1>12 DEF Marked
  <2>3. \A o \in Live : ~Destroys(call, o, Y, Marked)
    BY <1>7, <2>2
  <2>4. \A o \in Live : Keeps(call, o, X, Y, Marked) => Keeps(Closure(p, curDW), o, X, Y, Marked)
    BY <1>6, <1>8
  <2> HIDE DEF p, q, x
  <2> QED
    BY <1>1, <1>2, <1>5, <2>1, <2>3, <2>4, StayCall
<1> QED
  BY <1>11, <1>12

LEMMA DestroyCovers ==
  ASSUME NEW X, NEW Y, Situation(X, Y), Destroy PROVE CoveredBy(X, Y)'
<1> DEFINE x == call.run.o
<1>1. /\ call.run.fn = "Destroy" /\ UNCHANGED winds /\ Cont(stack)
      /\ objs' = [objs EXCEPT ![x].alive = FALSE]
  BY DEF Destroy, Calling
<1>2. Staying(X, Y)
  BY <1>1, IsStaying DEF Calling, Raising, Passing
<1>3. x \in DOMAIN objs /\ objs \in Seq(Objects(Len(objs)))
  BY <1>1, ObjectCalled DEF Situation
<1> DEFINE m == Len(objs)
<1> HIDE DEF m
<1>4. objs \in Seq(Objects(m))
  BY <1>3 DEF m
<1>5. Marked' = Marked /\ Live' = Live \ {x}
  BY <1>1, <1>3, <1>4, MarksKept
<1>6. ASSUME NEW o, Destroys(call, o, Y, Marked) PROVE o = x
  BY <1>1, <1>6 DEF Destroys, Unwinds, OfObject
<1> QED
  BY <1>1, <1>2, <1>5, <1>6, StayReturn

LEMMA DestroyAgainCovers ==
  ASSUME NEW X, NEW Y, Situation(X, Y), DestroyAgain PROVE CoveredBy(X, Y)'
<1> DEFINE x == call.run.o
<1>1. /\ call.run.fn = "Destroy" /\ UNCHANGED <<winds, curDW, objs>> /\ handlers' = handlers
      /\ ~objs[x].alive /\ call'.run = Raise
  BY DEF DestroyAgain, Calling, Apply, Closure
<1>2. Staying(X, Y) /\ call.at = curDW
  BY <1>1, IsStaying, Facts DEF Situation, Calling, Raising, Passing
<1>3. Raising' /\ \A h : Due(h)' <=> Set(h)
  BY <1>1, RaiseCalled
<1>4. \A o \in Live : o # x
  BY <1>1, LiveObjects
<1>5. \A o : Destroys(call, o, Y, Marked) => o = x
  BY <1>1 DEF Destroys, Unwinds, OfObject
<1>6. \A o : Keeps(call, o, X, Y, Marked) => Guarded(curDW, o, X, Y, Marked)
  BY <1>1, <1>2 DEF Keeps, OpensExtent, Closes, OfObject
<1> QED
  BY <1>1, <1>2, <1>3, <1>4, <1>5, <1>6, RaiseFromHere

-----------------------------------------------------------------------------
(* Steps of user code *)

\* The continuation of user code is pushed.
LEMMA HereKept ==
  ASSUME NEW X, NEW Y, Situation(X, Y), Calling("User")
  PROVE  /\ Here \in Seq(Frames(Len(winds), Len(objs), Len(conts)) \cup {Closure(User("main"), curDW)})
         /\ AllCalm(Here)
         /\ \A o \in Live : Guarded(curDW, o, X, Y, Marked) /\ Kept(Here, o, X, Y, Marked)
<1> DEFINE F == Frames(Len(winds), Len(objs), Len(conts))
           p == User("main")
           f == Closure(p, curDW)
           G == F \cup {f}
<1>1. Staying(X, Y) /\ stack \in Seq(F)
  BY IsStaying, Facts DEF Situation, Calling, Raising, Passing, Stacks
<1>2. p.fn = "User" /\ f.run = p /\ f.at = curDW /\ f \in G
  BY DEF User, Closure
<1>3. Here = Push(stack, p, curDW) /\ Push(stack, p, curDW) = Append(stack, f)
  BY DEF Here, Push
<1> HIDE DEF p, f, F
<1>4. Here \in Seq(G)
  <2>1. stack \in Seq(G)
    BY <1>1, SeqMonotonic
  <2> HIDE DEF G
  <2> QED
    BY <2>1, <1>2, <1>3, AppendProperties
<1>5. AllCalm(Here)
  <2>1. Calm(p)
    BY <1>2 DEF Calm
  <2>2. AllCalm(stack)
    BY <1>1 DEF Staying
  <2> QED
    BY <1>1, <1>3, <2>1, <2>2, CalmPush
<1>6. ASSUME NEW o \in Live
      PROVE  Guarded(curDW, o, X, Y, Marked) /\ Kept(Here, o, X, Y, Marked)
  <2>1. Held(call, stack, o, X, Y, Marked)
    BY <1>1 DEF Staying
  <2>2. Guarded(curDW, o, X, Y, Marked) /\ Kept(stack, o, X, Y, Marked)
    BY <2>1, UserGuards DEF Held
  <2>3. Keeps(f, o, X, Y, Marked)
    BY <1>2, <2>2 DEF Keeps
  <2>4. Keeps(Closure(p, curDW), o, X, Y, Marked)
    BY <2>3 DEF f
  <2>5. Kept(Push(stack, p, curDW), o, X, Y, Marked)
    BY <1>1, <2>2, <2>4, KeptPush
  <2> QED
    BY <1>3, <2>2, <2>5
<1> QED
  BY <1>4, <1>5, <1>6 DEF F, G, f, p

LEMMA UserWindCovers ==
  ASSUME NEW X, NEW Y, Situation(X, Y), UserWind PROVE CoveredBy(X, Y)'
<1> DEFINE G == Frames(Len(winds), Len(objs), Len(conts)) \cup {Closure(User("main"), curDW)}
           p == User("before")
           q == [fn |-> "WindBody", before |-> p, thunk |-> User("thunk"), after |-> User("after")]
<1>1. /\ Calling("User") /\ UNCHANGED <<winds, objs>>
      /\ stack' = Push(Here, q, curDW) /\ call' = Closure(p, curDW)
  BY DEF UserWind, Use, DynamicWind, Apply
<1>2. /\ Here \in Seq(G) /\ AllCalm(Here)
      /\ \A o \in Live : Guarded(curDW, o, X, Y, Marked) /\ Kept(Here, o, X, Y, Marked)
  BY <1>1, HereKept
<1>3. /\ p.fn = "User" /\ q.fn = "WindBody" /\ q.before = p /\ q.thunk.fn = "User"
      /\ Closure(p, curDW).run = p /\ Closure(p, curDW).at = curDW
      /\ Closure(q, curDW).run = q /\ Closure(q, curDW).at = curDW
  BY DEF User, Closure
<1>4. Live' = Live /\ Marked' = Marked
  BY <1>1, ObjectsSame
<1> HIDE DEF G, p, q
<1>5. Calm(p) /\ Calm(q)
  BY <1>3 DEF Calm, Paired
<1>6. AllCalm(stack') /\ Calm(call'.run)
  BY <1>1, <1>2, <1>3, <1>5, CalmPush
<1>7. ASSUME NEW o \in Live PROVE Held(call', stack', o, X, Y, Marked)
  <2>1. Guarded(curDW, o, X, Y, Marked) /\ Kept(Here, o, X, Y, Marked)
    BY <1>2
  <2>2. Keeps(Closure(p, curDW), o, X, Y, Marked) /\ Keeps(Closure(q, curDW), o, X, Y, Marked)
    BY <1>3, <2>1 DEF Keeps
  <2>3. Kept(Push(Here, q, curDW), o, X, Y, Marked)
    BY <1>2, <2>1, <2>2, KeptPush
  <2> QED
    BY <1>1, <2>2, <2>3 DEF Held
<1> QED
  BY <1>1, <1>4, <1>6, <1>7, StayStep

\* The objects with a new one.
LEMMA ObjectAdded ==
  ASSUME NEW m \in Nat, objs \in Seq(Objects(m)), Len(objs) = m, NEW before, NEW after,
         objs' = Append(objs, [alive |-> TRUE, isError |-> FALSE,
                               before |-> before, after |-> after])
  PROVE  /\ Marked' = Marked
         /\ Live' \subseteq Live \cup {m + 1}
         /\ \A o \in Z0' : \/ o \in Z0 /\ T0'[o].after = T0[o].after
                           \/ /\ o = m + 1 /\ T0'[o].after = after /\ before.fn = "SetEnv"
<1> DEFINE x == [alive |-> TRUE, isError |-> FALSE, before |-> before, after |-> after]
           O == objs'
           S == Objects(m) \cup {x}
<1>1. objs \in Seq(S)
  BY SeqMonotonic
<1>2. O = Append(objs, x) /\ x \in S
  OBVIOUS
<1>3. x.alive /\ ~x.isError /\ x.before = before /\ x.after = after
  OBVIOUS
<1> HIDE DEF x, O, S
<1>4. /\ O \in Seq(S) /\ Len(O) = m + 1 /\ O[m + 1] = x /\ \A i \in 1..m : O[i] = objs[i]
  BY <1>1, <1>2, AppendProperties
<1>5. DOMAIN O = 1..(m + 1) /\ DOMAIN objs = 1..m
  BY <1>1, <1>4, LenProperties
<1>6. {o \in DOMAIN O : O[o].isError} = Marked
  BY <1>3, <1>4, <1>5 DEF Marked
<1>7. {o \in DOMAIN O : O[o].alive} \subseteq Alive \cup {m + 1}
  BY <1>4, <1>5 DEF Alive
<1>8. Marked' = Marked /\ Alive' \subseteq Alive \cup {m + 1}
  BY <1>6, <1>7 DEF Marked, Alive, O
<1>9. \A o \in DOMAIN O : /\ ThunksOf(O)[o].before = O[o].before
                          /\ ThunksOf(O)[o].after = O[o].after
  BY DEF ThunksOf
<1>10. \A o \in 1..m : T0[o].before = objs[o].before /\ T0[o].after = objs[o].after
  BY <1>5 DEF T0, ThunksOf
<1>11. DOMAIN ThunksOf(O) = 1..(m + 1) /\ DOMAIN T0 = 1..m
  BY <1>5 DEF T0, ThunksOf
<1>12. \A o \in Envs(ThunksOf(O)) : \/ o \in Z0 /\ ThunksOf(O)[o].after = T0[o].after
                                    \/ /\ o = m + 1 /\ ThunksOf(O)[o].after = after
                                       /\ before.fn = "SetEnv"
  <2> SUFFICES ASSUME NEW o \in Envs(ThunksOf(O))
               PROVE  \/ o \in Z0 /\ ThunksOf(O)[o].after = T0[o].after
                      \/ /\ o = m + 1 /\ ThunksOf(O)[o].after = after
                         /\ before.fn = "SetEnv"
    OBVIOUS
  <2>1. o \in 1..(m + 1) /\ ThunksOf(O)[o].before.fn = "SetEnv"
    BY <1>11 DEF Envs
  <2>2. o \in DOMAIN O
    BY <2>1, <1>5
  <2>3. CASE o = m + 1
    BY <2>1, <2>2, <2>3, <1>3, <1>4, <1>9
  <2>4. CASE o # m + 1
    <3>1. o \in 1..m
      BY <2>1, <2>4
    <3>2. O[o] = objs[o]
      BY <3>1, <1>4
    <3>3. T0[o].before.fn = "SetEnv" /\ ThunksOf(O)[o].after = T0[o].after
      BY <2>1, <2>2, <3>1, <3>2, <1>9, <1>10
    <3> QED
      BY <3>1, <3>3, <1>11 DEF Z0, Envs
  <2> QED
    BY <2>3, <2>4
<1>13. \A o \in Z0' : \/ o \in Z0 /\ T0'[o].after = T0[o].after
                      \/ /\ o = m + 1 /\ T0'[o].after = after /\ before.fn = "SetEnv"
  BY <1>12 DEF Z0, T0, O
<1>14. Live' \subseteq Live \cup {m + 1}
  BY <1>8, <1>13 DEF Live
<1> QED
  BY <1>8, <1>13, <1>14

\* The handlers with one in front.
LEMMA OneMoreHandler ==
  ASSUME NEW m, NEW hs \in Seq(Handlers(m)), NEW x
  PROVE  /\ Reports(<<OfObject("ErrorHandler", x)>> \o hs, x)
         /\ \A o : Reports(hs, o) => Reports(<<OfObject("ErrorHandler", x)>> \o hs, o)
<1> DEFINE e == OfObject("ErrorHandler", x)
           S == Handlers(m) \cup {e}
           u == <<e>>
           t == u \o hs
<1>1. hs \in Seq(S) /\ u \in Seq(S) /\ Len(u) = 1 /\ u[1] = e
  BY SeqMonotonic
<1>2. Len(hs) \in Nat
  BY LenProperties
<1> HIDE DEF e, S, u
<1>3. /\ Len(t) = 1 + Len(hs) /\ t[1] = e
      /\ \A i \in 1..Len(hs) : t[i + 1] = hs[i]
  <2>1. /\ Len(t) = Len(u) + Len(hs)
        /\ \A i \in 1..Len(t) : t[i] = IF i <= Len(u) THEN u[i] ELSE hs[i - Len(u)]
    BY <1>1, ConcatProperties
  <2> HIDE DEF t
  <2>2. 1 \in 1..Len(t) /\ \A i \in 1..Len(hs) : i + 1 \in 1..Len(t) /\ ~(i + 1 <= 1) /\ (i + 1) - 1 = i
    BY <1>1, <1>2, <2>1
  <2> QED
    BY <1>1, <2>1, <2>2
<1> HIDE DEF t
<1>4. Reports(t, x)
  <2>1. 1 \in 1..Len(t)
    BY <1>2, <1>3
  <2> QED
    BY <2>1, <1>3 DEF Reports, e
<1>5. ASSUME NEW o, Reports(hs, o) PROVE Reports(t, o)
  <2>1. PICK i \in 1..Len(hs) : hs[i] = OfObject("ErrorHandler", o)
    BY <1>5 DEF Reports
  <2>2. i + 1 \in 1..Len(t)
    BY <1>2, <1>3
  <2> QED
    BY <2>1, <2>2, <1>3 DEF Reports
<1> QED
  BY <1>4, <1>5 DEF t, u, e

\* A new object: it is destroyed on continuing, and inside by an error.
LEMMA ManagedCovers ==
  ASSUME NEW X, NEW Y, Situation(X, Y), Calling("User"), NEW before, NEW after,
         ManagedObjectWind(Here, before, after), UNCHANGED winds
  PROVE  CoveredBy(X, Y)'
<1> DEFINE m == Len(objs)
           x == m + 1
           d == OfObject("Destroy", x)
           t == OfObject("ErrorThunk", x)
           hs == <<OfObject("ErrorHandler", x)>> \o handlers
           b == SetHandlers(hs)
           a == SetHandlers(handlers)
           q == [fn |-> "WindBody", before |-> b, thunk |-> t, after |-> a]
           s == Push(Here, d, curDW)
           F == Frames(Len(winds), Len(objs), Len(conts)) \cup {Closure(User("main"), curDW)}
           G == F \cup {Closure(d, curDW)}
<1>1. /\ stack' = Push(s, q, curDW) /\ call' = Closure(b, curDW)
      /\ objs' = Append(objs, [alive |-> TRUE, isError |-> FALSE,
                               before |-> before, after |-> after])
  BY DEF ManagedObjectWind, WithExceptionHandlers, DynamicWind, Apply
<1>2. /\ Here \in Seq(F) /\ AllCalm(Here)
      /\ \A o \in Live : Guarded(curDW, o, X, Y, Marked) /\ Kept(Here, o, X, Y, Marked)
  BY HereKept
<1>3. /\ m \in Nat /\ objs \in Seq(Objects(m)) /\ handlers \in Seq(Handlers(m))
      /\ handlers = X[curDW].hs
  BY Facts DEF Situation, Calling, Quiet, Changes
<1>4. Marked' = Marked /\ Live' \subseteq Live \cup {x}
  <2> HIDE DEF m
  <2>1. Len(objs) = m
    BY DEF m
  <2> QED
    BY <1>1, <1>3, <2>1, ObjectAdded
<1>5. /\ q.fn = "WindBody" /\ q.before = b /\ q.thunk = t /\ q.after = a
      /\ b.fn = "SetHandlers" /\ b.hs = hs /\ a.fn = "SetHandlers" /\ t.fn = "ErrorThunk"
      /\ d.fn = "Destroy"
      /\ Closure(q, curDW).run = q /\ Closure(q, curDW).at = curDW
      /\ Closure(b, curDW).run = b
      /\ Closure(d, curDW).run = d /\ Closure(d, curDW).at = curDW
  BY DEF SetHandlers, OfObject, Closure
<1>6. Reports(hs, x) /\ \A o : Reports(handlers, o) => Reports(hs, o)
  BY <1>3, OneMoreHandler
<1>7. t = OfObject("ErrorThunk", x) /\ d = OfObject("Destroy", x)
  OBVIOUS
<1>8. s \in Seq(G)
  <2>1. Here \in Seq(G) /\ Closure(d, curDW) \in G
    BY <1>2, SeqMonotonic
  <2>2. s = Append(Here, Closure(d, curDW))
    BY DEF Push
  <2> HIDE DEF s, G, d
  <2> QED
    BY <2>1, <2>2, AppendProperties
<1>9. s = Push(Here, d, curDW)
  OBVIOUS
<1> HIDE DEF q, b, a, t, d, hs, F, G, x, m, s
<1>10. Calm(q) /\ Calm(b) /\ Calm(d)
  BY <1>5 DEF Calm, Paired
<1>11. AllCalm(stack') /\ Calm(call'.run)
  <2>1. AllCalm(s)
    BY <1>2, <1>9, <1>10, CalmPush
  <2> QED
    BY <1>1, <1>5, <1>8, <1>10, <2>1, CalmPush
<1>12. ASSUME NEW o \in Live' PROVE Held(call', stack', o, X, Y, Marked)
  <2>1. Keeps(Closure(b, curDW), o, X, Y, Marked)
    BY <1>5 DEF Keeps
  <2>2. Keeps(Closure(q, curDW), o, X, Y, Marked) /\ Kept(s, o, X, Y, Marked)
    <3>1. CASE o = x
      <4>1. Keeps(Closure(q, curDW), o, X, Y, Marked)
        BY <3>1, <1>5, <1>6, <1>7 DEF Keeps, OpensExtent
      <4>2. Destroys(Closure(d, curDW), o, Y, Marked)
        BY <3>1, <1>5, <1>7 DEF Destroys
      <4>3. Kept(s, o, X, Y, Marked)
        BY <1>2, <1>9, <4>2, KeptPush
      <4> QED
        BY <4>1, <4>3
    <3>2. CASE o \in Live
      <4>1. Guarded(curDW, o, X, Y, Marked) /\ Kept(Here, o, X, Y, Marked)
        BY <3>2, <1>2
      <4>2. o \in Marked \/ Reports(hs, o)
        BY <4>1, <1>3, <1>6 DEF Guarded
      <4>3. Keeps(Closure(q, curDW), o, X, Y, Marked)
        BY <4>1, <4>2, <1>5 DEF Keeps
      <4>4. Keeps(Closure(d, curDW), o, X, Y, Marked)
        BY <4>1, <1>5 DEF Keeps
      <4>5. Kept(s, o, X, Y, Marked)
        BY <1>2, <1>9, <4>1, <4>4, KeptPush
      <4> QED
        BY <4>3, <4>5
    <3> QED
      BY <1>4, <3>1, <3>2
  <2>3. Kept(Push(s, q, curDW), o, X, Y, Marked)
    BY <1>8, <2>2, KeptPush
  <2> QED
    BY <1>1, <2>1, <2>3 DEF Held
<1> QED
  BY <1>4, <1>11, <1>12, StayStep

\* Nothing is left when the loop has ended.
LEMMA NothingHeld ==
  ASSUME NEW X, NEW Y, Situation(X, Y), Halted
  PROVE  Staying(X, Y) /\ Live = {} /\ stack = <<>>
<1>1. call.run.fn = "Bottom"
  BY DEF Halted, Calling
<1>2. Staying(X, Y)
  BY <1>1, IsStaying DEF Calling, Raising, Passing
<1>3. stack = <<>>
  <2>1. Runs(call, stack, winds, conts, Len(objs))
    BY Parts DEF Situation, ContextInv
  <2> QED
    BY <1>1, <2>1 DEF Runs
<1>4. \A o : ~Held(call, stack, o, X, Y, Marked)
  BY <1>1, <1>3, EmptySeq DEF Held, Destroys, Unwinds, OfObject, Keeps, OpensExtent, Closes
<1> QED
  BY <1>2, <1>3, <1>4 DEF Staying

LEMMA HostCallCovers ==
  ASSUME NEW X, NEW Y, Situation(X, Y), HostCall PROVE CoveredBy(X, Y)'
<1>1. /\ Halted /\ UNCHANGED <<stack, winds, objs>> /\ call'.run = User("main")
  BY DEF HostCall, Apply, Closure
<1>2. Live = {} /\ AllCalm(stack)
  BY <1>1, NothingHeld DEF Staying
<1>3. Live' = Live /\ Marked' = Marked
  BY <1>1, ObjectsSame
<1>4. AllCalm(stack') /\ Calm(call'.run)
  BY <1>1, <1>2 DEF Calm, User
<1> QED
  BY <1>1, <1>2, <1>3, <1>4, StayStep

-----------------------------------------------------------------------------
(* A winding is opened *)

LEMMA KeptGrows ==
  ASSUME NEW n \in Nat, NEW m \in Nat, NEW k \in Nat, NEW s \in Seq(Frames(n, m, k)),
         NEW X, NEW Y, NEW X2, NEW Y2, \A w \in 0..n : X2[w] = X[w] /\ Y2[w] = Y[w],
         NEW E, NEW o, Kept(s, o, X, Y, E)
  PROVE  Kept(s, o, X2, Y2, E)
<1>1. ASSUME NEW i \in 1..Len(s)
      PROVE  /\ Destroys(s[i], o, Y, E) => Destroys(s[i], o, Y2, E)
             /\ Keeps(s[i], o, X, Y, E) => Keeps(s[i], o, X2, Y2, E)
  <2> DEFINE f == s[i]
  <2>1. f \in Frames(n, m, k)
    BY ElementOfSeq
  <2>2. f.at \in 0..n /\ f.run \in Pending(n, m, k)
    BY <2>1 DEF Frames, Pending
  <2>3. f.run.fn = "WindExit" => f.run.prev \in 0..n
    BY <2>2, Captures
  <2> HIDE DEF f
  <2>4. /\ X2[f.at] = X[f.at] /\ Y2[f.at] = Y[f.at]
        /\ f.run.fn = "WindExit" => X2[f.run.prev] = X[f.run.prev] /\ Y2[f.run.prev] = Y[f.run.prev]
    BY <2>2, <2>3
  <2>5. Destroys(f, o, Y, E) => Destroys(f, o, Y2, E)
    BY <2>4 DEF Destroys, Unwinds
  <2>6. Keeps(f, o, X, Y, E) => Keeps(f, o, X2, Y2, E)
    BY <2>4 DEF Keeps, OpensExtent, Closes, Guarded
  <2> QED
    BY <2>5, <2>6 DEF f
<1>2. PICK j \in 1..Len(s) : /\ Destroys(s[j], o, Y, E)
                             /\ \A i \in (j + 1)..Len(s) : Keeps(s[i], o, X, Y, E)
  BY DEF Kept
<1>3. Len(s) \in Nat
  BY LenProperties
<1>4. \A i \in (j + 1)..Len(s) : i \in 1..Len(s)
  BY <1>3
<1>5. /\ Destroys(s[j], o, Y2, E)
      /\ \A i \in (j + 1)..Len(s) : Keeps(s[i], o, X2, Y2, E)
  BY <1>1, <1>2, <1>4
<1> QED
  BY <1>5 DEF Kept

\* The context and the objects of the new extent.
LEMMA NewExtent ==
  ASSUME NEW X, NEW Y, Situation(X, Y), WindBody,
         NEW X2, NEW Y2, \A w \in 0..Len(winds) : X2[w] = X[w] /\ Y2[w] = Y[w],
         ContextOf(X2)', ObjectsOf(Y2)'
  PROVE  /\ X2[Len(winds) + 1].hs = IF call.run.before.fn = "SetHandlers" THEN call.run.before.hs
                                    ELSE X[curDW].hs
         /\ Y2[Len(winds) + 1] = Y[curDW] \cup Opened(call.run.before)
         /\ X2[curDW] = X[curDW] /\ Y2[curDW] = Y[curDW]
<1> DEFINE e == Len(winds) + 1
           T == T0'
<1>1. /\ Len(winds') = e /\ winds'[e].parent = curDW /\ winds'[e].before = call.run.before
      /\ e \in 1..Len(winds')
  BY NewWinding DEF Situation, ContextInv
<1>2. curDW \in 0..Len(winds)
  BY Facts DEF Situation
<1>3. X2[curDW] = X[curDW] /\ Y2[curDW] = Y[curDW]
  BY <1>2
<1>4. WindsRestore(winds', X2, T)
  BY DEF ContextOf, T0
<1>5. Around0(winds', Y2, Len(objs'))
  BY DEF ObjectsOf
<1> HIDE DEF e, T
<1>6. X2[e] = Effect(call.run.before, T, X2[curDW])
  BY <1>1, <1>4 DEF WindsRestore
<1>7. Y2[e] = Y2[curDW] \cup Opened(call.run.before)
  BY <1>1, <1>5 DEF Around0
<1> QED
  BY <1>3, <1>6, <1>7 DEF Effect, e

\* No handler of the user is set in the new extent either.
LEMMA ErrorsInside ==
  ASSUME NEW X, NEW Y, Situation(X, Y), WindBody, ~UserHandled',
         NEW X2, NEW Y2, \A w \in 0..Len(winds) : X2[w] = X[w] /\ Y2[w] = Y[w],
         ContextOf(X2)', ObjectsOf(Y2)'
  PROVE  \A w \in 0..Len(winds') : Errors(X2[w].hs)
<1> DEFINE n == Len(winds)
           b == call.run.before
<1>1. X2[n + 1].hs = IF b.fn = "SetHandlers" THEN b.hs ELSE X[curDW].hs
  BY NewExtent
<1>2. /\ n \in Nat /\ Len(winds') = n + 1 /\ winds'[n + 1].before = b
      /\ n + 1 \in DOMAIN winds'
  BY NewWinding DEF Situation, ContextInv
<1>3. curDW \in 0..n /\ \A w \in 0..n : Errors(X[w].hs)
  BY Facts DEF Situation, CoveredBy
<1>4. b.fn = "SetHandlers" => Errors(b.hs)
  <2> SUFFICES ASSUME b.fn = "SetHandlers" PROVE Errors(b.hs)
    OBVIOUS
  <2>1. /\ call.run \in Pending(n, Len(objs), Len(conts)) /\ call.run.fn = "WindBody"
        /\ Len(objs) \in Nat /\ Len(conts) \in Nat
    BY Facts DEF Situation, WindBody, Calling
  <2>2. b \in Thunks(Len(objs))
    BY <1>2, <2>1, Captures
  <2>3. b.hs \in Seq(Handlers(Len(objs)))
    <3>1. b \in Pending(n, Len(objs), Len(conts))
      BY <2>2 DEF Pending
    <3> HIDE DEF b
    <3> QED
      BY <1>2, <2>1, <3>1, Captures
  <2>4. ASSUME NEW i \in 1..Len(b.hs) PROVE b.hs[i].fn = "ErrorHandler"
    <3>1. b.hs[i] \in Handlers(Len(objs)) /\ i \in DOMAIN b.hs
      BY <2>3, ElementOfSeq, LenProperties
    <3>2. b.hs[i].fn # "User"
      BY <1>2, <3>1 DEF UserHandled, InstallsHandlers
    <3> QED
      BY <3>1, <3>2 DEF Handlers
  <2> QED
    BY <2>4 DEF Errors
<1>5. Errors(X2[n + 1].hs)
  BY <1>1, <1>3, <1>4
<1>6. ASSUME NEW w \in 0..(n + 1) PROVE Errors(X2[w].hs)
  <2>1. CASE w = n + 1
    BY <2>1, <1>5
  <2>2. CASE w # n + 1
    <3>1. w \in 0..n
      BY <2>2, <1>2
    <3>2. X2[w] = X[w]
      BY <3>1
    <3> QED
      BY <3>1, <3>2, <1>3
  <2> QED
    BY <2>1, <2>2
<1> QED
  BY <1>2, <1>6

LEMMA PairedInside ==
  ASSUME NEW X, NEW Y, Situation(X, Y), WindBody
  PROVE  \A w \in 1..Len(winds') : Paired(winds'[w].before, winds'[w].after)
<1> DEFINE n == Len(winds)
<1>1. /\ Len(winds') = n + 1 /\ n \in Nat
      /\ \A w \in 1..n : winds'[w] = winds[w]
      /\ winds'[n + 1].before = call.run.before /\ winds'[n + 1].after = call.run.after
  BY NewWinding DEF Situation, ContextInv
<1>2. \A w \in 1..n : Paired(winds[w].before, winds[w].after)
  BY DEF Situation, CoveredBy
<1>3. Paired(call.run.before, call.run.after)
  <2>1. CASE Raising
    BY <2>1 DEF Raising, Passing, WindBody, Calling, Paired
  <2>2. CASE ~Raising
    <3>1. Staying(X, Y)
      BY <2>2, IsStaying
    <3> QED
      BY <3>1 DEF Staying, Calm, WindBody, Calling
  <2> QED
    BY <2>1, <2>2
<1> HIDE DEF n
<1> QED
  BY <1>1, <1>2, <1>3

LEMMA WindBodyCovers ==
  ASSUME NEW X, NEW Y, Situation(X, Y), WindBody, ~UserHandled',
         NEW X2, NEW Y2, \A w \in 0..Len(winds) : X2[w] = X[w] /\ Y2[w] = Y[w],
         ContextOf(X2)', ObjectsOf(Y2)'
  PROVE  CoveredBy(X2, Y2)'
<1> DEFINE n == Len(winds)
           new == n + 1
           b == call.run.before
           t == call.run.thunk
           a == call.run.after
           q == [fn |-> "WindExit", after |-> a, prev |-> curDW]
           f == Closure(q, new)
           c2 == Closure(t, new)
           hs == IF b.fn = "SetHandlers" THEN b.hs ELSE X[curDW].hs
<1>1. /\ call.run.fn = "WindBody" /\ stack' = Push(stack, q, new) /\ call' = c2 /\ curDW' = new
      /\ handlers' = handlers /\ UNCHANGED objs
  BY DEF WindBody, Calling, Apply
<1>2. /\ f.run = q /\ q.fn = "WindExit" /\ q.after = a /\ q.prev = curDW
      /\ c2.run = t /\ c2.at = new
  BY DEF Closure
<1>3. /\ X2[new].hs = hs /\ Y2[new] = Y[curDW] \cup Opened(b)
      /\ X2[curDW] = X[curDW] /\ Y2[curDW] = Y[curDW]
  BY NewExtent
<1>4. /\ \A w \in 0..Len(winds') : Errors(X2[w].hs)
      /\ \A w \in 1..Len(winds') : Paired(winds'[w].before, winds'[w].after)
  BY ErrorsInside, PairedInside
<1>5. Live' = Live /\ Marked' = Marked
  BY <1>1, ObjectsSame
<1>6. call.at = curDW /\ stack \in Stacks
  BY Facts DEF Situation
<1>7. CASE Raising
  <2>1. Passing(call.run)
    BY <1>1, <1>7 DEF Raising, Calling
  <2>2. Leaving(Y)
    BY <1>7, IsLeaving
  <2>3. t.fn = "HandlerThunk"
    BY <2>1 DEF Passing
  <2>4. Raising'
    BY <1>1, <1>2, <2>3 DEF Raising
  <2>5. \A h : Due(h) <=> Set(h) \/ t.h = h
    BY <1>1 DEF Due, Later, Calling, Set
  <2>6. \A h : Due(h)' <=> Set(h) \/ t.h = h
    BY <1>1, <1>2, <2>3 DEF Due, Later, Calling, Set
  <2>7. /\ \A h : Due(h) => h.fn = "ErrorHandler"
        /\ \A o \in Live : o \in Y[curDW] /\ (o \in Marked \/ Due(OfObject("ErrorHandler", o)))
    BY <2>2 DEF Leaving
  <2>8. Leaving(Y2)'
    <3>1. \A h : Due(h)' <=> Due(h)
      BY <2>5, <2>6
    <3>2. \A o \in Live' : o \in Y2[curDW']
      BY <1>1, <1>3, <1>5, <2>7
    <3> HIDE DEF new
    <3> QED
      BY <1>5, <2>4, <2>7, <3>1, <3>2 DEF Leaving
  <2> QED
    BY <1>4, <2>8 DEF CoveredBy
<1>8. CASE ~Raising
  <2>1. AllCalm(stack) /\ Calm(call.run) /\ \A o \in Live : Held(call, stack, o, X, Y, Marked)
    BY <1>8, IsStaying DEF Staying
  <2>2. t.fn \in {"User", "ErrorThunk"} /\ Paired(b, a)
    BY <1>1, <2>1 DEF Calm
  <2>3. AllCalm(stack') /\ Calm(call'.run)
    <3> DEFINE F == Frames(Len(winds), Len(objs), Len(conts))
    <3>1. stack \in Seq(F) /\ Calm(q) /\ Calm(t)
      BY <1>2, <1>6, <2>2 DEF Stacks, Calm
    <3> HIDE DEF F, q
    <3>2. AllCalm(Push(stack, q, new))
      BY <3>1, <2>1, CalmPush
    <3> QED
      BY <1>1, <1>2, <3>1, <3>2
  <2>4. ASSUME NEW o \in Live PROVE Held(c2, stack', o, X2, Y2, Marked)
    <3>1. Held(call, stack, o, X, Y, Marked)
      BY <2>1
    <3>2. ~Destroys(call, o, Y, Marked)
      BY <1>1 DEF Destroys, Unwinds, OfObject
    <3>3. Keeps(call, o, X, Y, Marked) /\ Kept(stack, o, X, Y, Marked)
      BY <3>1, <3>2 DEF Held
    <3>4. Kept(stack, o, X2, Y2, Marked)
      <4> DEFINE m == Len(objs)
                 k == Len(conts)
                 E == Marked
      <4>1. n \in Nat /\ m \in Nat /\ k \in Nat /\ stack \in Seq(Frames(n, m, k))
        BY Facts DEF Situation, Stacks
      <4>2. \A w \in 0..n : X2[w] = X[w] /\ Y2[w] = Y[w]
        OBVIOUS
      <4>3. Kept(stack, o, X, Y, E)
        BY <3>3
      <4> HIDE DEF n, m, k, E
      <4>4. Kept(stack, o, X2, Y2, E)
        BY <4>1, <4>2, <4>3, KeptGrows
      <4> QED
        BY <4>4 DEF E
    <3>5. \/ b = OfObject("SafeBefore", o) /\ Reports(X[curDW].hs, o)
          \/ /\ t = OfObject("ErrorThunk", o) /\ b.fn = "SetHandlers" /\ Reports(b.hs, o)
             /\ a.fn = "SetHandlers"
          \/ /\ Guarded(curDW, o, X, Y, Marked)
             /\ b.fn = "SetHandlers" => o \in Marked \/ Reports(b.hs, o)
      BY <1>1, <1>6, <3>3 DEF Keeps, OpensExtent, Closes, OfObject
    <3>6. Keeps(f, o, X2, Y2, Marked) /\ Keeps(c2, o, X2, Y2, Marked)
      <4>1. CASE b = OfObject("SafeBefore", o) /\ Reports(X[curDW].hs, o)
        <5>1. b.fn = "SafeBefore" /\ b.o = o
          BY <4>1 DEF OfObject
        <5>2. a = OfObject("SafeAfter", o) /\ o \in Y2[new] /\ hs = X[curDW].hs
          BY <1>3, <2>2, <5>1 DEF Paired, Opened
        <5> HIDE DEF hs, b, a, t, q, f, c2, new
        <5>3. Guarded(new, o, X2, Y2, Marked)
          BY <1>3, <4>1, <5>2 DEF Guarded
        <5>4. Keeps(f, o, X2, Y2, Marked)
          BY <1>2, <5>2 DEF Keeps, Closes
        <5>5. Keeps(c2, o, X2, Y2, Marked)
          BY <1>2, <2>2, <5>3 DEF Keeps
        <5> QED
          BY <5>4, <5>5
      <4>2. CASE /\ t = OfObject("ErrorThunk", o) /\ b.fn = "SetHandlers" /\ Reports(b.hs, o)
                 /\ a.fn = "SetHandlers"
        <5>1. hs = b.hs
          BY <4>2
        <5> HIDE DEF hs, b, a, t, q, f, c2, new
        <5>2. Keeps(f, o, X2, Y2, Marked)
          BY <1>2, <4>2 DEF Keeps
        <5>3. Keeps(c2, o, X2, Y2, Marked)
          BY <1>2, <1>3, <4>2, <5>1 DEF Keeps, OpensExtent
        <5> QED
          BY <5>2, <5>3
      <4>3. CASE /\ Guarded(curDW, o, X, Y, Marked)
                 /\ b.fn = "SetHandlers" => o \in Marked \/ Reports(b.hs, o)
        <5>1. o \in Marked \/ Reports(hs, o)
          BY <4>3 DEF Guarded
        <5> HIDE DEF hs, b, a, t, q, f, c2, new
        <5>2. Guarded(curDW, o, X2, Y2, Marked)
          BY <1>3, <4>3 DEF Guarded
        <5>3. Guarded(new, o, X2, Y2, Marked)
          BY <1>3, <4>3, <5>1 DEF Guarded
        <5>4. Keeps(f, o, X2, Y2, Marked)
          BY <1>2, <5>2 DEF Keeps
        <5>5. Keeps(c2, o, X2, Y2, Marked)
          BY <1>2, <2>2, <5>3 DEF Keeps
        <5> QED
          BY <5>4, <5>5
      <4> QED
        BY <3>5, <4>1, <4>2, <4>3
    <3>7. Kept(Push(stack, q, new), o, X2, Y2, Marked)
      <4> DEFINE F == Frames(Len(winds), Len(objs), Len(conts))
      <4>1. stack \in Seq(F)
        BY <1>6 DEF Stacks
      <4>2. Keeps(Closure(q, new), o, X2, Y2, Marked)
        BY <3>6
      <4> HIDE DEF F, q, new
      <4> QED
        BY <3>4, <4>1, <4>2, KeptPush
    <3> HIDE DEF c2, q, new
    <3> QED
      BY <1>1, <3>6, <3>7 DEF Held
  <2>5. Staying(X2, Y2)'
    <3> HIDE DEF c2, q, new
    <3> QED
      BY <1>1, <1>5, <2>3, <2>4 DEF Staying
  <2> QED
    BY <1>4, <2>5 DEF CoveredBy
<1> QED
  BY <1>7, <1>8

-----------------------------------------------------------------------------
(* Steps that cannot happen, and all of them *)

\* Nothing enters an extent again, and no handler returns to clear a mark.
LEMMA NoReturn ==
  ASSUME NEW X, NEW Y, Situation(X, Y)
  PROVE  call.run.fn \notin {"EnterWind", "SetDW", "Escape", "Restore", "RaiseAgain", "ClearMark"}
<1> SUFFICES ASSUME call.run.fn \in {"EnterWind", "SetDW", "Escape", "Restore",
                                     "RaiseAgain", "ClearMark"}
             PROVE  FALSE
  OBVIOUS
<1>1. Staying(X, Y)
  BY IsStaying DEF Calling, Raising, Passing
<1> QED
  BY <1>1 DEF Staying, Calm

\* Traversals go to the null winding, which is not below any other.
LEMMA NotDown ==
  ASSUME NEW X, NEW Y, Situation(X, Y)
  PROVE  ~TraverseDown
<1> SUFFICES ASSUME TraverseDown PROVE FALSE
  OBVIOUS
<1> DEFINE n == Len(winds)
           m == Len(objs)
           src == call.run.src
<1>1. call.run.fn = "Traverse" /\ Depth(src) < Depth(call.run.dest)
  BY DEF TraverseDown, Calling
<1>2. Staying(X, Y)
  BY <1>1, IsStaying DEF Calling, Raising, Passing
<1>3. call.run.dest = 0
  BY <1>1, <1>2 DEF Staying, Calm
<1>4. /\ call.run \in Pending(n, m, Len(conts)) /\ n \in Nat /\ m \in Nat /\ Len(conts) \in Nat
      /\ winds \in Seq(Windings(n, m))
  BY Facts DEF Situation
<1>5. src \in 0..n
  BY <1>1, <1>4, Captures
<1>6. ASSUME src # 0 PROVE winds[src] \in Windings(n, m)
  BY <1>4, <1>5, <1>6, ElementOfSeq
<1> HIDE DEF src, n
<1>7. Depth(src) \in Nat
  BY <1>6 DEF Depth, Windings
<1> QED
  BY <1>1, <1>3, <1>7 DEF Depth, src

\* Without saved continuations there is nothing to call.
LEMMA NoThrow ==
  ASSUME conts = <<>> PROVE ~UserThrow
<1>1. DOMAIN conts = {}
  BY EmptySeq, LenProperties
<1> QED
  BY <1>1 DEF UserThrow

\* The handler of the user is being installed.
LEMMA HandlerInstalls ==
  ASSUME IInv, UserHandler PROVE Installing'
<1> DEFINE hs == <<User("handler")>> \o handlers
           p == [fn |-> "WindBody", before |-> SetHandlers(hs), thunk |-> User("thunk"),
                 after |-> SetHandlers(handlers)]
           F == Frames(Len(winds), Len(objs), Len(conts))
           f == Closure(User("main"), curDW)
           g == Closure(p, curDW)
           S == F \cup {f, g}
<1>1. stack \in Seq(F) /\ handlers \in Seq(Handlers(Len(objs)))
  BY Parts DEF Data, InOrder
<1>2. hs[1] = User("handler") /\ 1 \in 1..Len(hs)
  <2>1. handlers \in Seq(Handlers(Len(objs)) \cup {User("handler")})
    BY <1>1, SeqMonotonic
  <2> HIDE DEF hs
  <2> QED
    BY <2>1, ConcatProperties, LenProperties DEF hs
<1>3. HasUser(hs)
  BY <1>2 DEF HasUser, User
<1>4. stack \in Seq(S)
  BY <1>1, SeqMonotonic
<1>5. Here \in Seq(S)
  BY <1>4, AppendProperties DEF Here, Push
<1>6. stack' = Push(Here, p, curDW) /\ call'.run = SetHandlers(hs)
  BY DEF UserHandler, WithExceptionHandlers, DynamicWind, Apply, Closure
<1>7. p.fn = "WindBody" /\ p.before = SetHandlers(hs) /\ g.run = p /\ g \in S
  BY DEF Closure
<1>8. SetHandlers(hs).fn = "SetHandlers" /\ SetHandlers(hs).hs = hs
  BY DEF SetHandlers
<1> HIDE DEF hs, p, S
<1>9. stack' # <<>> /\ Top(stack') = g
  BY <1>5, <1>6, <1>7, PushFrames
<1> QED
  BY <1>3, <1>6, <1>7, <1>8, <1>9 DEF Installing, Calling

\* Every step but the opening of a winding keeps the environments covered.
LEMMA StepCovers ==
  ASSUME NEW X, NEW Y, Situation(X, Y), Unhandled, Unhandled', [Next]_vars, ~WindBody
  PROVE  CoveredBy(X, Y)'
<1>1. CASE WindStep
  <2>1. CASE Forward
    BY <2>1, ReturnCovers DEF Forward, Calling
  <2> QED
    BY <1>1, <2>1, WindExitCovers DEF WindStep
<1>2. CASE TraverseStep
  BY <1>2, NotDown, NoReturn, TraverseArriveCovers, TraverseUpCovers, ContinueUpCovers
     DEF TraverseStep, EnterWind, SetDW, Calling
<1>3. CASE EscapeStep
  BY <1>3, NoReturn DEF EscapeStep, CallEscape, Restore, Calling
<1>4. CASE RaiseStep
  <2>1. ~RaiseAgain
    BY NoReturn DEF RaiseAgain, Calling
  <2> QED
    BY <1>4, <2>1, CallSetHandlersCovers, RaiseUncaughtCovers, RaiseToHandlerCovers,
       CallHandlerThunkCovers DEF RaiseStep
<1>5. CASE ObjectStep
  <2>1. ~ClearMark
    BY NoReturn DEF ClearMark, Calling
  <2>2. CASE CallSetEnv
    BY <2>2, ReturnCovers DEF CallSetEnv, Calling
  <2> QED
    BY <1>5, <2>1, <2>2, ErrorThunkCovers, SafeBeforeCovers, SafeAfterCovers, ErrorHandlerCovers,
       DestroyCovers, DestroyAgainCovers DEF ObjectStep
<1>6. CASE UserStep
  <2>1. CASE UserReturn
    BY <2>1, ReturnCovers DEF UserReturn, Calling
  <2>2. ~UserCallCC
    <3>1. conts' = <<>> /\ conts = <<>>
      BY DEF Unhandled
    <3> SUFFICES ASSUME UserCallCC PROVE FALSE
      OBVIOUS
    <3> DEFINE c == [stack |-> Here, dw |-> curDW]
    <3>2. conts' = Append(conts, c)
      BY DEF UserCallCC
    <3>3. conts \in Seq({c})
      BY <3>1
    <3> HIDE DEF c
    <3> QED
      BY <3>1, <3>2, <3>3, AppendProperties, EmptySeq
  <2>3. ~UserThrow
    BY NoThrow DEF Unhandled
  <2>4. ~UserHandler
    BY HandlerInstalls DEF Situation, ContextInv, Unhandled
  <2>5. CASE UserManaged
    BY <2>5, ManagedCovers DEF UserManaged, Use
  <2>6. CASE UserWithEnv
    BY <2>6, ManagedCovers DEF UserWithEnv, Use
  <2> QED
    BY <1>6, <2>1, <2>2, <2>3, <2>4, <2>5, <2>6, UserWindCovers, UserRaiseCovers,
       UserRaiseContinuableCovers DEF UserStep
<1>7. CASE HostCall
  BY <1>7, HostCallCovers
<1>8. CASE UNCHANGED vars
  <2>1. CoveredBy(X, Y)
    BY DEF Situation
  <2>2. Live' = Live /\ Marked' = Marked
    BY <1>8, ObjectsSame DEF vars
  <2>3. UNCHANGED <<stack, call, curDW, winds, handlers>>
    BY <1>8 DEF vars
  <2>4. Leaving(Y) => Leaving(Y)'
    BY <2>2, <2>3 DEF Leaving, Raising, Calling, Due, Later
  <2>5. Staying(X, Y) => Staying(X, Y)'
    BY <2>2, <2>3 DEF Staying
  <2> QED
    BY <2>1, <2>3, <2>4, <2>5 DEF CoveredBy
<1> QED
  BY <1>1, <1>2, <1>3, <1>4, <1>5, <1>6, <1>7, <1>8 DEF Next, Turn

\* Environments are made with a closure that sets the one before them.
LEMMA EnvsRestoreKept ==
  ASSUME IInv, EnvsRestore, [Next]_vars
  PROVE  EnvsRestore'
<1>1. objs \in Seq(Objects(Len(objs))) /\ Len(objs) \in Nat
  BY Parts DEF Data
<1>2. ASSUME T0' = T0 PROVE EnvsRestore'
  BY <1>2 DEF EnvsRestore, Z0
<1>3. CASE UNCHANGED objs
  BY <1>2, <1>3 DEF T0
<1>4. ASSUME NEW o, NEW b,
             objs' = [objs EXCEPT ![o].alive = b] \/ objs' = [objs EXCEPT ![o].isError = b]
      PROVE  EnvsRestore'
  <2>1. \/ ThunksOf(objs') = ThunksOf([objs EXCEPT ![o].alive = b])
        \/ ThunksOf(objs') = ThunksOf([objs EXCEPT ![o].isError = b])
    BY <1>4
  <2>2. /\ ThunksOf([objs EXCEPT ![o].alive = b]) = T0
        /\ ThunksOf([objs EXCEPT ![o].isError = b]) = T0
    BY <1>1, ThunksKept
  <2> QED
    BY <1>2, <2>1, <2>2 DEF T0
<1>5. ASSUME NEW before, NEW after, ManagedObjectWind(Here, before, after),
             before.fn = "SetEnv" => after.fn = "SetEnv"
      PROVE  EnvsRestore'
  <2> DEFINE m == Len(objs)
  <2>1. objs' = Append(objs, [alive |-> TRUE, isError |-> FALSE,
                              before |-> before, after |-> after])
    BY <1>5 DEF ManagedObjectWind
  <2>2. m \in Nat /\ objs \in Seq(Objects(m)) /\ Len(objs) = m
    BY <1>1
  <2> HIDE DEF m
  <2>3. \A o \in Z0' : \/ o \in Z0 /\ T0'[o].after = T0[o].after
                       \/ /\ o = m + 1 /\ T0'[o].after = after /\ before.fn = "SetEnv"
    BY <2>1, <2>2, ObjectAdded
  <2> QED
    BY <1>5, <2>3 DEF EnvsRestore
<1>6. CASE WindStep \/ TraverseStep \/ EscapeStep \/ RaiseStep \/ HostCall
  <2>1. UNCHANGED objs
    BY <1>6 DEF WindStep, WindBody, WindExit, Forward, TraverseStep, TraverseArrive, TraverseDown,
     TraverseUp, ContinueUp, EnterWind, SetDW, EscapeStep, CallEscape, Restore, RaiseStep,
     CallSetHandlers, RaiseUncaught, RaiseToHandler, CallHandlerThunk, RaiseAgain, HostCall
  <2> QED
    BY <2>1, <1>3
<1>7. CASE ObjectStep
  <2>1. CASE ErrorHandler
    BY <2>1, <1>4 DEF ErrorHandler
  <2>2. CASE ClearMark
    BY <2>2, <1>4 DEF ClearMark
  <2>3. CASE Destroy
    BY <2>3, <1>4 DEF Destroy
  <2>4. CASE ErrorThunk \/ SafeBefore \/ SafeAfter \/ DestroyAgain \/ CallSetEnv
    BY <2>4, <1>3 DEF ErrorThunk, SafeBefore, SafeAfter, DestroyAgain, CallSetEnv
  <2> QED
    BY <2>1, <2>2, <2>3, <2>4, <1>7 DEF ObjectStep
<1>8. CASE UserStep
  <2>1. CASE UserManaged
    BY <2>1, <1>5 DEF UserManaged, User
  <2>2. CASE UserWithEnv
    BY <2>2, <1>5 DEF UserWithEnv, SetEnv
  <2>3. CASE ~UserManaged /\ ~UserWithEnv
    <3>1. UNCHANGED objs
      BY <2>3, <1>8 DEF UserStep, UserReturn, UserWind, UserCallCC, UserThrow, UserRaise,
         UserRaiseContinuable, UserHandler
    <3> QED
      BY <3>1, <1>3
  <2> QED
    BY <2>1, <2>2, <2>3
<1>9. CASE UNCHANGED vars
  BY <1>9, <1>3 DEF vars
<1> QED
  BY <1>6, <1>7, <1>8, <1>9 DEF Next, Turn

-----------------------------------------------------------------------------
(* The invariant of the environments, and the theorem *)

LEMMA InitEnvironment == Init => EnvironmentInv
<1> SUFFICES ASSUME Init PROVE EnvironmentInv
  OBVIOUS
<1>1. ContextInv /\ ObjectInv
  BY InitContext, InitObjects
<1>2. PICK X : ContextOf(X) /\ ChainsInstall(X, winds, T0)
  BY <1>1 DEF ContextInv
<1>3. PICK Y : ObjectsOf(Y) /\ Outside(Y, winds)
  BY <1>1 DEF ObjectInv
<1>4. Len(winds) = 0 /\ Len(stack) = 0 /\ 0..0 = {0} /\ 1..0 = {}
  BY EmptySeq DEF Init
<1>5. Z0 = {} /\ Live = {}
  <2>1. DOMAIN objs = {}
    BY EmptySeq, LenProperties DEF Init
  <2> QED
    BY <2>1 DEF Z0, Envs, T0, ThunksOf, Live
<1>6. X[0].hs = <<>>
  BY <1>2 DEF ContextOf, WindsRestore, Base
<1>7. \A w \in 0..Len(winds) : Errors(X[w].hs)
  <2>1. Len(X[0].hs) = 0
    BY <1>6, EmptySeq
  <2> QED
    BY <1>4, <2>1 DEF Errors
<1>8. Staying(X, Y)
  <2>1. AllCalm(stack)
    BY <1>4 DEF AllCalm
  <2>2. Calm(call.run)
    BY DEF Init, Bottom, Closure, Calm
  <2> QED
    BY <1>5, <2>1, <2>2 DEF Staying
<1>9. CoveredBy(X, Y)
  BY <1>4, <1>7, <1>8 DEF CoveredBy
<1>10. EnvsRestore
  BY <1>5 DEF EnvsRestore
<1> QED
  BY <1>1, <1>2, <1>3, <1>9, <1>10 DEF EnvironmentInv

LEMMA NextEnvironment == EnvironmentInv /\ [Next]_vars => EnvironmentInv'
<1> SUFFICES ASSUME EnvironmentInv, [Next]_vars PROVE EnvironmentInv'
  OBVIOUS
<1>1. PICK X, Y : /\ ContextOf(X) /\ ChainsInstall(X, winds, T0)
                  /\ ObjectsOf(Y) /\ Outside(Y, winds)
                  /\ Unhandled => CoveredBy(X, Y)
  BY DEF EnvironmentInv
<1>2. ContextInv /\ ContextInv' /\ IInv
  BY NextContext DEF EnvironmentInv, ContextInv
<1>3. EnvsRestore /\ EnvsRestore'
  BY <1>2, EnvsRestoreKept DEF EnvironmentInv
<1>4. Unhandled' => Unhandled /\ Situation(X, Y)
  BY <1>1, <1>2, <1>3, UnhandledBefore DEF Situation
<1>5. CASE WindBody
  <2>1. PICK X2 : (\A w \in 0..Len(winds) : X2[w] = X[w]) /\ ContextOf(X2)'
    BY <1>1, <1>2, <1>5, WindBodyContext
  <2>2. ChainsInstall(X2, winds', T0')
    BY <1>1, <1>2, <1>5, <2>1, ChainsOfWindBody
  <2>3. PICK Y2 : (\A w \in 0..Len(winds) : Y2[w] = Y[w]) /\ ObjectsOf(Y2)'
    BY <1>1, <1>2, <1>5, WindBodyObjects
  <2>4. Outside(Y2, winds')
    BY <1>1, <1>2, <1>5, <2>3, OutsideOfWindBody
  <2>5. Unhandled' => CoveredBy(X2, Y2)'
    <3> SUFFICES ASSUME Unhandled' PROVE CoveredBy(X2, Y2)'
      OBVIOUS
    <3>1. Situation(X, Y) /\ ~UserHandled'
      BY <1>4 DEF Unhandled
    <3>2. \A w \in 0..Len(winds) : X2[w] = X[w] /\ Y2[w] = Y[w]
      BY <2>1, <2>3
    <3> QED
      BY <1>5, <2>1, <2>3, <3>1, <3>2, WindBodyCovers
  <2> QED
    BY <1>2, <1>3, <2>1, <2>2, <2>3, <2>4, <2>5 DEF EnvironmentInv
<1>6. CASE ~WindBody
  <2>1. ContextOf(X)' /\ ObjectsOf(Y)'
    BY <1>1, <1>2, <1>6, StepContext, StepObjects
  <2>2. winds' = winds
    BY <1>6, WindsKept
  <2>3. ChainsInstall(X, winds, T0')
    <3>1. winds \in Seq(Windings(Len(winds), Len(objs))) /\ Len(winds) \in Nat /\ Len(objs) \in Nat
      BY <1>2, Parts DEF Data
    <3>2. \A o \in 1..Len(objs) : T0'[o] = T0[o]
      BY <1>2, ThunksGrow
    <3> DEFINE T2 == T0'
               m == Len(objs)
    <3> HIDE DEF T2, m
    <3>3. ChainsInstall(X, winds, T2)
      BY <3>1, <3>2, <1>1, ChainsSame DEF T2, m
    <3> QED
      BY <3>3 DEF T2
  <2>4. Unhandled' => CoveredBy(X, Y)'
    BY <1>4, <1>6, StepCovers
  <2> QED
    BY <1>1, <1>2, <1>3, <2>1, <2>2, <2>3, <2>4 DEF EnvironmentInv
<1> QED
  BY <1>5, <1>6

\* The inductive invariant of the environments: without saved continuations
\* and handlers of the user, what is pending or on the stack destroys each.
THEOREM EnvironmentInvariant == Spec => []EnvironmentInv
BY InitEnvironment, NextEnvironment, PTL DEF Spec

\* Every way out of the extent of a WithEnv has destroyed its environment when
\* the loop ends, unless a continuation was saved or the user handled errors.
THEOREM EnvironmentsDestroyed == Spec => []NoneLeftUnhandled
<1>1. EnvironmentInv => NoneLeftUnhandled
  <2> SUFFICES ASSUME EnvironmentInv, Halted, conts = <<>>, ~UserHandled,
                      NEW o \in DOMAIN objs, objs[o].before.fn = "SetEnv", objs[o].alive
               PROVE  FALSE
    BY DEF NoneLeftUnhandled
  <2>1. ~Installing
    BY DEF Installing, Halted, Calling
  <2>2. PICK X, Y : ContextOf(X) /\ ObjectsOf(Y) /\ CoveredBy(X, Y)
    BY <2>1 DEF EnvironmentInv, Unhandled
  <2>3. Situation(X, Y)
    BY <2>2 DEF EnvironmentInv, Situation
  <2>4. Live = {}
    BY <2>3, NothingHeld
  <2>5. o \in Z0 /\ o \in Alive
    BY DEF Z0, Envs, T0, ThunksOf, Alive
  <2> QED
    BY <2>4, <2>5 DEF Live
<1> QED
  BY <1>1, EnvironmentInvariant, PTL
=============================================================================
