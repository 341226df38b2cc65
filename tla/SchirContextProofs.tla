-------------------------- MODULE SchirContextProofs --------------------------
(***************************************************************************)
(* For every number of user operations: wherever user code runs, the       *)
(* exception handlers and the environment are those of the extent it runs  *)
(* in, and nothing is left of them when the loop has ended.                *)
(*                                                                         *)
(* The context is what windings install: the handlers and the environment. *)
(* The context of an extent is that of its parent changed by the Before    *)
(* thunk of its winding.  The actual context is not always that of the     *)
(* extent control is in: between a Before thunk and the winding it opens   *)
(* it is ahead, and before an After thunk it is behind.  So each frame of  *)
(* the stack is said to need a context, and each frame is to leave the one *)
(* the frame below it needs, except a frame that never returns: a raise on *)
(* the way into an extent is on top of a frame that is never reached.      *)
(***************************************************************************)
EXTENDS SchirRuntimeProofs

-----------------------------------------------------------------------------
(* What thunks do to the context *)

\* The thunks of an object, which no step changes.
ThunksOf(O) == [o \in DOMAIN O |-> [before |-> O[o].before, after |-> O[o].after]]

\* The procedure a thunk of an object comes to, with object thunks T.
Inner(p, T) == IF p.fn = "SafeBefore" THEN T[p.o].before
               ELSE IF p.fn = "SafeAfter" THEN T[p.o].after
               ELSE p

\* The context after procedure p was called in context x and has returned.
Effect(p, T, x) ==
  [hs  |-> IF p.fn = "SetHandlers" THEN p.hs ELSE x.hs,
   env |-> IF Inner(p, T).fn = "SetEnv" THEN Inner(p, T).e ELSE x.env]

Base == [hs |-> <<>>, env |-> 0]
Now == [hs |-> handlers, env |-> env]

\* Procedures that may change the context.
Changes(p) == p.fn \in {"SetHandlers", "SetEnv", "SafeBefore", "SafeAfter"}

\* Procedures that raise, restore another stack, or raise again when what they
\* call returns.
FailsOnReturn(p) == p.fn = "HandlerThunk" /\ ~p.continuable
NeverReturns(p) ==
  \/ p.fn \in {"Raise", "RaiseAgain", "Escape", "Restore"}
  \/ FailsOnReturn(p)
  \/ p.fn = "WindBody" /\ FailsOnReturn(p.thunk)

-----------------------------------------------------------------------------
(* The context of each extent, X, and of each frame *)

\* The context frame f needs when it is continued.
Needs(f, X, T) ==
  IF f.run.fn = "WindBody" THEN Effect(f.run.before, T, X[f.at])
  ELSE IF f.run.fn = "SetDW" THEN X[f.run.dest]
  ELSE X[f.at]

\* f leaves the context that g below it needs.
Fits(f, g, X, T) == NeverReturns(f.run) \/ X[LeadsTo(f)] = Needs(g, X, T)

\* Something above frame i of s never returns to it, if c is the pending call.
Shadowed(s, i, c) ==
  NeverReturns(c.run) \/ \E j \in (i + 1)..Len(s) : NeverReturns(s[j].run)

\* The frames of s that may be reached by returning fit.
Linked(s, c, X, T) == \A i \in 1..Len(s) :
  Fits(s[i], Below(s, i), X, T) \/ Shadowed(s, i, c)

\* The winding of object o, opened in context x, restores it.
ObjectRestores(o, T, x) ==
  Effect(OfObject("SafeAfter", o), T, Effect(OfObject("SafeBefore", o), T, x)) = x

IsBefore(p) == p.fn \in {"User", "SetHandlers", "SafeBefore"}
IsAfter(p)  == p.fn \in {"User", "SetHandlers", "SafeAfter"}

\* A winding about to be opened restores the context it is opened in.
Opens(f, X, T) == f.run.fn = "WindBody" =>
  LET inside == Effect(f.run.before, T, X[f.at])
  IN /\ IsBefore(f.run.before) /\ IsAfter(f.run.after) /\ ~Changes(f.run.thunk)
     /\ Effect(f.run.after, T, inside) = X[f.at]
     /\ f.run.thunk.fn = "ErrorThunk" => ObjectRestores(f.run.thunk.o, T, inside)

AllOpen(s, X, T) == \A i \in 1..Len(s) : Opens(s[i], X, T)

WindsRestore(W, X, T) ==
  /\ X[0] = Base
  /\ \A w \in 1..Len(W) :
       /\ IsBefore(W[w].before) /\ IsAfter(W[w].after)
       /\ X[w] = Effect(W[w].before, T, X[W[w].parent])
       /\ Effect(W[w].after, T, X[w]) = X[W[w].parent]

IsObjectThunk(p) == p.fn \in {"User", "SetEnv"}
ObjectsSetEnv(T) == \A o \in DOMAIN T :
  /\ IsObjectThunk(T[o].before) /\ IsObjectThunk(T[o].after)
  /\ T[o].before.fn = "SetEnv" => T[o].before.e = o

\* What was saved is continued in user code.
SavedLinked(C, X, T) == \A k \in 1..Len(C) :
  LET s == C[k].stack
  IN /\ Linked(s, Bottom, X, T) /\ AllOpen(s, X, T)
     /\ s # <<>> /\ Top(s).run.fn = "User"

\* Closure c may be called in context x with g as the top of the stack.
CallFits(c, g, x, X, T) ==
  /\ IF Changes(c.run) THEN Effect(c.run, T, x) = Needs(g, X, T)
     ELSE x = Needs(c, X, T) /\ Fits(c, g, X, T)
  /\ c.run.fn = "SafeBefore" => x = X[c.at]
  /\ c.run.fn = "SafeAfter" => Effect(c.run, T, x) = X[c.at]
  /\ c.run.fn = "ErrorThunk" => ObjectRestores(c.run.o, T, X[c.at])
  /\ Opens(c, X, T)

\* Closure c may be called in context x with s as the stack.
InContext(c, s, x, X, T) ==
  /\ CallFits(c, Top(s), x, X, T)
  /\ Linked(s, c, X, T)
  /\ AllOpen(s, X, T)

ContextOf(X) ==
  LET T == ThunksOf(objs)
  IN /\ WindsRestore(winds, X, T)
     /\ ObjectsSetEnv(T)
     /\ SavedLinked(conts, X, T)
     /\ InContext(call, stack, Now, X, T)

-----------------------------------------------------------------------------
(* The continuation stack *)

\* What Push, Pop and Top do, frame by frame.
LEMMA PushFrames ==
  ASSUME NEW S, NEW s \in Seq(S), NEW p, NEW d, Closure(p, d) \in S
  PROVE  LET t == Push(s, p, d)
         IN /\ Len(s) \in Nat /\ t \in Seq(S) /\ Len(t) = Len(s) + 1
            /\ \A i \in 1..Len(s) : t[i] = s[i] /\ Below(t, i) = Below(s, i)
            /\ t[Len(s) + 1] = Closure(p, d) /\ Below(t, Len(s) + 1) = Top(s)
            /\ Top(t) = Closure(p, d)
<1> DEFINE f == Closure(p, d)
           t == Push(s, p, d)
<1> HIDE DEF f
<1>1. /\ Len(s) \in Nat /\ t \in Seq(S) /\ Len(t) = Len(s) + 1 /\ t # <<>>
      /\ \A i \in 1..Len(s) : t[i] = s[i]
      /\ t[Len(s) + 1] = f
  BY AppendProperties, LenProperties DEF f, Push
<1> HIDE DEF t
<1>2. Top(t) = f
  BY <1>1 DEF Top
<1>3. ASSUME NEW i \in 1..Len(s)
      PROVE  t[i] = s[i] /\ Below(t, i) = Below(s, i)
  <2>1. i # 1 => i - 1 \in 1..Len(s)
    BY <1>1
  <2> QED
    BY <2>1, <1>1 DEF Below
<1>4. Below(t, Len(s) + 1) = Top(s)
  <2>1. CASE s = <<>>
    BY <2>1, <1>1, EmptySeq DEF Below, Top
  <2>2. CASE s # <<>>
    <3>1. Len(s) # 0
      BY <2>2, EmptySeq
    <3>2. Len(s) + 1 # 1 /\ (Len(s) + 1) - 1 = Len(s) /\ Len(s) \in 1..Len(s)
      BY <3>1, <1>1
    <3> QED
      BY <3>2, <2>2, <1>1 DEF Below, Top
  <2> QED
    BY <2>1, <2>2
<1> QED
  BY <1>1, <1>2, <1>3, <1>4 DEF f, t

LEMMA PopFrames ==
  ASSUME NEW S, NEW s \in Seq(S), s # <<>>
  PROVE  LET t == Pop(s)
             n == Len(s)
         IN /\ n \in Nat \ {0} /\ t \in Seq(S) /\ Len(t) = n - 1
            /\ \A i \in 1..(n - 1) : t[i] = s[i] /\ Below(t, i) = Below(s, i)
            /\ Top(s) = s[n] /\ Top(s) \in S /\ Top(t) = Below(s, n)
<1> DEFINE n == Len(s)
           t == Pop(s)
<1>1. n \in Nat /\ n # 0
  BY EmptySeq, LenProperties
<1>2. \A i \in 1..n : s[i] \in S
  BY ElementOfSeq
<1>3. t = SubSeq(s, 1, n - 1)
  BY DEF Pop
<1>4. t \in Seq(S) /\ Len(t) = n - 1 /\ \A i \in 1..(n - 1) : t[i] = s[i]
  <2>1. \A i \in 1..(n - 1) : s[i] \in S
    BY <1>2, <1>1
  <2>2. n - 1 \in Int /\ 1 \in Int
    BY <1>1
  <2> HIDE DEF n, t
  <2>3. /\ t \in Seq(S)
        /\ Len(t) = IF 1 <= n - 1 THEN n - 1 - 1 + 1 ELSE 0
        /\ \A i \in 1..(n - 1 - 1 + 1) : t[i] = s[1 + i - 1]
    BY <1>3, <2>1, <2>2, SubSeqProperties
  <2> QED
    BY <2>3, <1>1
<1>5. Top(s) = s[n] /\ s[n] \in S
  BY <1>1, <1>2 DEF Top
<1> HIDE DEF n, t
<1>6. ASSUME NEW i \in 1..(n - 1)
      PROVE  t[i] = s[i] /\ Below(t, i) = Below(s, i)
  <2>1. i # 1 => i - 1 \in 1..(n - 1)
    BY <1>1
  <2> QED
    BY <2>1, <1>4 DEF Below
<1>7. Top(t) = Below(s, n)
  <2>1. CASE n = 1
    <3>1. t = <<>>
      BY <2>1, <1>4, EmptySeq
    <3> QED
      BY <2>1, <3>1 DEF Top, Below
  <2>2. CASE n # 1
    <3>1. n - 1 \in 1..(n - 1) /\ n - 1 # 0
      BY <2>2, <1>1
    <3>2. t # <<>>
      BY <3>1, <1>4, EmptySeq
    <3> QED
      BY <3>1, <3>2, <2>2, <1>4 DEF Top, Below
  <2> QED
    BY <2>1, <2>2
<1> QED
  BY <1>1, <1>4, <1>5, <1>6, <1>7 DEF n, t

\* Pushing a frame that fits; what is shadowed stays so.
LEMMA PushLinked ==
  ASSUME NEW S, NEW s \in Seq(S), NEW p, NEW d, Closure(p, d) \in S,
         NEW X, NEW T, NEW c, NEW c2,
         Linked(s, c, X, T), AllOpen(s, X, T),
         Fits(Closure(p, d), Top(s), X, T) \/ NeverReturns(c2.run),
         Opens(Closure(p, d), X, T),
         NeverReturns(c.run) => NeverReturns(p) \/ NeverReturns(c2.run)
  PROVE  /\ Push(s, p, d) \in Seq(S)
         /\ Linked(Push(s, p, d), c2, X, T)
         /\ AllOpen(Push(s, p, d), X, T)
         /\ Top(Push(s, p, d)) = Closure(p, d)
<1> DEFINE f == Closure(p, d)
           t == Push(s, p, d)
           n == Len(s)
<1>1. /\ n \in Nat /\ t \in Seq(S) /\ Len(t) = n + 1
      /\ \A i \in 1..n : t[i] = s[i] /\ Below(t, i) = Below(s, i)
      /\ t[n + 1] = f /\ Below(t, n + 1) = Top(s) /\ Top(t) = f
  BY PushFrames
<1>2. f.run = p
  BY DEF Closure
<1> HIDE DEF f, t, n
<1>3. \A i \in 1..(n + 1) : i = n + 1 \/ i \in 1..n
  BY <1>1
<1>4. ASSUME NEW i \in 1..(n + 1)
      PROVE  Fits(t[i], Below(t, i), X, T) \/ Shadowed(t, i, c2)
  <2>1. CASE i = n + 1
    BY <2>1, <1>1 DEF f, Shadowed
  <2>2. CASE i \in 1..n
    <3>1. Fits(s[i], Below(s, i), X, T) \/ Shadowed(s, i, c)
      BY <2>2 DEF Linked, n
    <3>2. ASSUME NEW j \in (i + 1)..n, NeverReturns(s[j].run)
          PROVE  Shadowed(t, i, c2)
      <4>1. j \in 1..n /\ j \in (i + 1)..(n + 1)
        BY <1>1, <2>2
      <4> QED
        BY <3>2, <4>1, <1>1 DEF Shadowed
    <3>3. NeverReturns(p) => Shadowed(t, i, c2)
      <4>1. n + 1 \in (i + 1)..(n + 1)
        BY <1>1, <2>2
      <4> QED
        BY <4>1, <1>1, <1>2 DEF Shadowed
    <3>4. NeverReturns(c2.run) => Shadowed(t, i, c2)
      BY DEF Shadowed
    <3>5. Shadowed(s, i, c) => Shadowed(t, i, c2)
      BY <3>2, <3>3, <3>4 DEF Shadowed, n
    <3> QED
      BY <2>2, <3>1, <3>5, <1>1
  <2> QED
    BY <2>1, <2>2, <1>3
<1>5. ASSUME NEW i \in 1..(n + 1)
      PROVE  Opens(t[i], X, T)
  <2>1. CASE i = n + 1
    BY <2>1, <1>1 DEF f
  <2>2. CASE i \in 1..n
    BY <2>2, <1>1 DEF AllOpen, n
  <2> QED
    BY <2>1, <2>2, <1>3
<1> QED
  BY <1>1, <1>4, <1>5 DEF Linked, AllOpen, f, t

\* Another pending call over the same stack.
LEMMA CallLinked ==
  ASSUME NEW s, NEW X, NEW T, NEW c, NEW c2, Linked(s, c, X, T),
         NeverReturns(c.run) => NeverReturns(c2.run)
  PROVE  Linked(s, c2, X, T)
BY DEF Linked, Shadowed

\* The frame on top is called by a procedure that returns: it fits.
LEMMA PopLinked ==
  ASSUME NEW S, NEW s \in Seq(S), NEW X, NEW T, NEW c,
         Linked(s, c, X, T), AllOpen(s, X, T), ~NeverReturns(c.run)
  PROVE  /\ Linked(Pop(s), Top(s), X, T) /\ AllOpen(Pop(s), X, T)
         /\ Fits(Top(s), Top(Pop(s)), X, T) /\ Opens(Top(s), X, T)
         /\ Pop(s) \in Seq(S)
<1>1. CASE s = <<>>
  <2>1. Pop(s) = <<>> /\ Top(s) = Bottom /\ Top(Pop(s)) = Bottom
    BY <1>1 DEF Pop, Top
  <2>2. Fits(Bottom, Bottom, X, T) /\ Opens(Bottom, X, T)
    BY DEF Bottom, Closure, Fits, Needs, LeadsTo, Opens
  <2>3. Len(s) = 0
    BY <1>1, EmptySeq
  <2> QED
    BY <2>1, <2>2, <2>3, <1>1 DEF Linked, AllOpen
<1>2. CASE s # <<>>
  <2> DEFINE n == Len(s)
             t == Pop(s)
  <2>1. /\ n \in Nat \ {0} /\ t \in Seq(S) /\ Len(t) = n - 1
        /\ \A i \in 1..(n - 1) : t[i] = s[i] /\ Below(t, i) = Below(s, i)
        /\ Top(s) = s[n] /\ Top(t) = Below(s, n)
    BY <1>2, PopFrames
  <2>2. \A i \in 1..n : Fits(s[i], Below(s, i), X, T) \/ Shadowed(s, i, c)
    BY DEF Linked
  <2>3. \A i \in 1..n : Opens(s[i], X, T)
    BY DEF AllOpen
  <2>4. \A i \in 1..n : Shadowed(s, i, c) =>
          \E j \in (i + 1)..n : NeverReturns(s[j].run)
    BY DEF Shadowed
  <2> HIDE DEF n, t
  <2>5. n \in 1..n /\ (n + 1)..n = {}
    BY <2>1
  <2>6. Fits(s[n], Below(s, n), X, T) /\ Opens(s[n], X, T)
    BY <2>2, <2>3, <2>4, <2>5
  <2>7. ASSUME NEW i \in 1..(n - 1)
        PROVE  /\ Fits(t[i], Below(t, i), X, T) \/ Shadowed(t, i, Top(s))
               /\ Opens(t[i], X, T)
    <3>1. i \in 1..n
      BY <2>1
    <3>2. Opens(t[i], X, T)
      BY <3>1, <2>1, <2>3
    <3>3. CASE Fits(s[i], Below(s, i), X, T)
      BY <3>2, <3>3, <2>1
    <3>4. CASE Shadowed(s, i, c)
      <4>1. PICK j \in (i + 1)..n : NeverReturns(s[j].run)
        BY <3>1, <3>4, <2>4
      <4>2. CASE j = n
        BY <4>1, <4>2, <3>2, <2>1 DEF Shadowed
      <4>3. CASE j # n
        <5>1. j \in (i + 1)..(n - 1) /\ j \in 1..(n - 1)
          BY <4>3, <2>1
        <5>2. NeverReturns(t[j].run)
          BY <5>1, <4>1, <2>1
        <5> QED
          BY <5>1, <5>2, <3>2, <2>1 DEF Shadowed
      <4> QED
        BY <4>2, <4>3
    <3> QED
      BY <3>1, <3>3, <3>4, <2>2
  <2> QED
    BY <2>1, <2>6, <2>7 DEF Linked, AllOpen, t
<1> QED
  BY <1>1, <1>2

-----------------------------------------------------------------------------
(* The pending call and the context *)

\* What the closures on a stack are not.
LEMMA FrameKinds ==
  ASSUME NEW n, NEW m, NEW k, NEW s \in Seq(Frames(n, m, k))
  PROVE  /\ ~Changes(Top(s).run) /\ Top(s).run.fn # "ErrorThunk"
         /\ s # <<>> => Top(s) \in Frames(n, m, k)
<1>1. CASE s = <<>>
  BY <1>1 DEF Top, Bottom, Closure, Changes
<1>2. CASE s # <<>>
  <2>1. Top(s) \in Frames(n, m, k)
    BY <1>2, PopFrames
  <2>2. Top(s).run \in Continuations(n, m, k)
    BY <2>1 DEF Frames
  <2>3. Top(s).run.fn \in {"User", "WindBody", "WindExit", "EnterWind", "SetDW", "ContinueUp",
                           "Restore", "ClearMark", "Destroy", "Forward", "RaiseAgain"}
    BY <2>2 DEF Continuations
  <2> QED
    BY <2>1, <2>3 DEF Changes
<1> QED
  BY <1>1, <1>2

\* A call returns to the frame on top, which needs the context there is.
LEMMA Returns ==
  ASSUME NEW n, NEW m, NEW k, NEW s \in Seq(Frames(n, m, k)),
         NEW c, NEW x, NEW X, NEW T,
         Linked(s, c, X, T), AllOpen(s, X, T), ~NeverReturns(c.run),
         x = Needs(Top(s), X, T)
  PROVE  InContext(Top(s), Pop(s), x, X, T)
<1>1. /\ Linked(Pop(s), Top(s), X, T) /\ AllOpen(Pop(s), X, T)
      /\ Fits(Top(s), Top(Pop(s)), X, T) /\ Opens(Top(s), X, T)
  BY PopLinked
<1>2. ~Changes(Top(s).run) /\ Top(s).run.fn # "ErrorThunk"
  BY FrameKinds
<1> QED
  BY <1>1, <1>2 DEF InContext, CallFits, Changes

\* A frame is pushed and a procedure called, with frame and call fitting.
LEMMA PushAndCall ==
  ASSUME NEW S, NEW s \in Seq(S), NEW p, NEW d, Closure(p, d) \in S,
         NEW c, NEW c2, NEW x, NEW X, NEW T,
         Linked(s, c, X, T), AllOpen(s, X, T),
         Fits(Closure(p, d), Top(s), X, T) \/ NeverReturns(c2.run),
         Opens(Closure(p, d), X, T),
         NeverReturns(c.run) => NeverReturns(p) \/ NeverReturns(c2.run),
         CallFits(c2, Closure(p, d), x, X, T)
  PROVE  InContext(c2, Push(s, p, d), x, X, T)
BY PushLinked DEF InContext

\* A procedure is called over the same stack.
LEMMA CallOnly ==
  ASSUME NEW s, NEW c, NEW c2, NEW x, NEW X, NEW T,
         Linked(s, c, X, T), AllOpen(s, X, T),
         NeverReturns(c.run) => NeverReturns(c2.run),
         CallFits(c2, Top(s), x, X, T)
  PROVE  InContext(c2, s, x, X, T)
BY CallLinked DEF InContext

\* A procedure that changes nothing in the context of its extent.
LEMMA CallHere ==
  ASSUME NEW p, NEW d, NEW g, NEW x, NEW X, NEW T,
         x = X[d], ~Changes(p), p.fn \notin {"WindBody", "SetDW", "ErrorThunk"},
         NeverReturns(p) \/ X[LeadsTo(Closure(p, d))] = Needs(g, X, T)
  PROVE  CallFits(Closure(p, d), g, x, X, T)
BY DEF CallFits, Closure, Needs, Fits, Opens, Changes

\* The context is a record of the two.
IsContext(x) == x = [hs |-> x.hs, env |-> x.env]

\* A procedure that is neither SetHandlers, SetEnv nor a thunk of an object
\* leaves the context alone.
LEMMA NoEffect ==
  ASSUME NEW p, ~Changes(p), NEW x, IsContext(x), NEW T
  PROVE  Effect(p, T, x) = x
<1>1. Inner(p, T) = p
  BY DEF Changes, Inner
<1>2. Effect(p, T, x) = [hs |-> x.hs, env |-> x.env]
  BY <1>1 DEF Changes, Effect
<1> QED
  BY <1>2 DEF IsContext

LEMMA EffectIsContext ==
  ASSUME NEW p, NEW x, NEW T
  PROVE  /\ IsContext(Effect(p, T, x))
         /\ IsContext([hs |-> x.hs, env |-> x.env])
<1>1. ASSUME NEW h, NEW e
      PROVE  [hs |-> h, env |-> e].hs = h /\ [hs |-> h, env |-> e].env = e
  OBVIOUS
<1> QED
  BY <1>1 DEF Effect, IsContext

\* DynamicWind(s, ...) in extent d, with thunks that restore its context.
LEMMA WindInContext ==
  ASSUME NEW S, NEW s \in Seq(S), NEW d, NEW before, NEW thunk, NEW after,
         NEW c, NEW x, NEW X, NEW T,
         Closure([fn |-> "WindBody", before |-> before, thunk |-> thunk,
                  after |-> after], d) \in S,
         Linked(s, c, X, T), AllOpen(s, X, T),
         x = X[d], IsContext(x),
         IsBefore(before), IsAfter(after), ~Changes(thunk),
         Effect(after, T, Effect(before, T, x)) = x,
         thunk.fn = "ErrorThunk" => ObjectRestores(thunk.o, T, Effect(before, T, x)),
         FailsOnReturn(thunk) \/ X[d] = Needs(Top(s), X, T),
         NeverReturns(c.run) => FailsOnReturn(thunk)
  PROVE  InContext(Closure(before, d),
                   Push(s, [fn |-> "WindBody", before |-> before, thunk |-> thunk,
                            after |-> after], d), x, X, T)
<1> DEFINE body == [fn |-> "WindBody", before |-> before, thunk |-> thunk,
                    after |-> after]
           f == Closure(body, d)
<1>1. /\ f.run = body /\ f.at = d /\ body.fn = "WindBody" /\ body.before = before
      /\ body.thunk = thunk /\ body.after = after
  BY DEF Closure
<1>2. NeverReturns(body) \/ ~FailsOnReturn(thunk)
  BY <1>1 DEF NeverReturns
<1>3. LeadsTo(f) = d /\ Needs(f, X, T) = Effect(before, T, x)
  BY <1>1 DEF LeadsTo, Needs
<1> HIDE DEF body, f
<1>4. Fits(f, Top(s), X, T)
  BY <1>1, <1>2, <1>3 DEF Fits
<1>5. Opens(f, X, T)
  BY <1>1 DEF Opens
<1>6. CallFits(Closure(before, d), f, x, X, T)
  <2>1. /\ before.fn \in {"User", "SetHandlers", "SafeBefore"}
        /\ Closure(before, d).run = before /\ Closure(before, d).at = d
    BY DEF IsBefore, Closure
  <2>2. CASE Changes(before)
    BY <2>1, <2>2, <1>3 DEF CallFits, Opens
  <2>3. CASE ~Changes(before)
    <3>1. X[LeadsTo(Closure(before, d))] = Needs(f, X, T)
      BY <2>1, <2>3, <1>3, NoEffect DEF LeadsTo
    <3> QED
      BY <2>1, <2>3, <3>1, CallHere
  <2> QED
    BY <2>2, <2>3
<1>7. NeverReturns(c.run) => NeverReturns(body)
  BY <1>1 DEF NeverReturns
<1>8. InContext(Closure(before, d), Push(s, body, d), x, X, T)
  BY <1>4, <1>5, <1>6, <1>7, PushAndCall DEF f, body
<1> QED
  BY <1>8 DEF body

\* WithExceptionHandlers(s, hs, thunk) in extent d.
LEMMA HandlersInContext ==
  ASSUME NEW S, NEW s \in Seq(S), NEW d, NEW hs, NEW thunk,
         NEW c, NEW x, NEW X, NEW T,
         Closure([fn |-> "WindBody", before |-> SetHandlers(hs), thunk |-> thunk,
                  after |-> SetHandlers(x.hs)], d) \in S,
         Linked(s, c, X, T), AllOpen(s, X, T),
         x = X[d], IsContext(x), ~Changes(thunk),
         thunk.fn = "ErrorThunk" => ObjectRestores(thunk.o, T, [hs |-> hs, env |-> x.env]),
         FailsOnReturn(thunk) \/ X[d] = Needs(Top(s), X, T),
         NeverReturns(c.run) => FailsOnReturn(thunk)
  PROVE  InContext(Closure(SetHandlers(hs), d),
                   Push(s, [fn |-> "WindBody", before |-> SetHandlers(hs), thunk |-> thunk,
                            after |-> SetHandlers(x.hs)], d), x, X, T)
<1>1. ASSUME NEW h, NEW y
      PROVE  /\ Effect(SetHandlers(h), T, y) = [hs |-> h, env |-> y.env]
             /\ IsBefore(SetHandlers(h)) /\ IsAfter(SetHandlers(h))
  BY DEF SetHandlers, Effect, Inner, IsBefore, IsAfter
<1>2. Effect(SetHandlers(hs), T, x) = [hs |-> hs, env |-> x.env]
  BY <1>1
<1>3. Effect(SetHandlers(x.hs), T, [hs |-> hs, env |-> x.env]) = [hs |-> x.hs, env |-> x.env]
  BY <1>1
<1>4. Effect(SetHandlers(x.hs), T, Effect(SetHandlers(hs), T, x)) = x
  BY <1>2, <1>3 DEF IsContext
<1> DEFINE b == SetHandlers(hs)
           a == SetHandlers(x.hs)
<1>5. IsBefore(b) /\ IsAfter(a) /\ Effect(a, T, Effect(b, T, x)) = x
  BY <1>1, <1>4
<1>6. thunk.fn = "ErrorThunk" => ObjectRestores(thunk.o, T, Effect(b, T, x))
  BY <1>2
<1>7. Closure([fn |-> "WindBody", before |-> b, thunk |-> thunk, after |-> a], d) \in S
  OBVIOUS
<1> HIDE DEF a, b
<1>8. InContext(Closure(b, d), Push(s, [fn |-> "WindBody", before |-> b, thunk |-> thunk,
                                        after |-> a], d), x, X, T)
  BY <1>5, <1>6, <1>7, WindInContext
<1> QED
  BY <1>8 DEF a, b

\* Entering winding w: its Before thunk is called for what needs its context.
LEMMA BeforeFits ==
  ASSUME NEW W, NEW X, NEW T, WindsRestore(W, X, T), NEW w \in 1..Len(W), NEW g,
         Needs(g, X, T) = X[w], IsContext(X[W[w].parent])
  PROVE  CallFits(Closure(W[w].before, W[w].parent), g, X[W[w].parent], X, T)
<1> DEFINE p == W[w].before
           d == W[w].parent
<1>1. IsBefore(p) /\ X[w] = Effect(p, T, X[d])
  BY DEF WindsRestore
<1>2. IsContext(X[d])
  OBVIOUS
<1> SUFFICES CallFits(Closure(p, d), g, X[d], X, T)
  OBVIOUS
<1> HIDE DEF p, d
<1>3. Closure(p, d).run = p /\ Closure(p, d).at = d
  BY DEF Closure
<1>4. p.fn \in {"User", "SetHandlers", "SafeBefore"}
  BY <1>1 DEF IsBefore
<1>5. CASE Changes(p)
  BY <1>5, <1>1, <1>3, <1>4 DEF CallFits, Opens
<1>6. CASE ~Changes(p)
  <2>1. X[LeadsTo(Closure(p, d))] = Needs(g, X, T)
    BY <1>1, <1>2, <1>3, <1>4, <1>6, NoEffect DEF LeadsTo
  <2> QED
    BY <1>3, <1>4, <1>6, <2>1, CallHere
<1> QED
  BY <1>5, <1>6

\* Leaving winding w: its After thunk is called for what needs the context of
\* its parent.
LEMMA AfterFits ==
  ASSUME NEW W, NEW X, NEW T, WindsRestore(W, X, T), NEW w \in 1..Len(W), NEW g,
         Needs(g, X, T) = X[W[w].parent]
  PROVE  CallFits(Closure(W[w].after, W[w].parent), g, X[w], X, T)
<1> DEFINE p == W[w].after
           d == W[w].parent
<1>1. IsAfter(p) /\ X[d] = Effect(p, T, X[w]) /\ Needs(g, X, T) = X[d]
  BY DEF WindsRestore
<1>2. IsContext(X[w])
  <2>1. X[w] = Effect(W[w].before, T, X[d])
    BY DEF WindsRestore
  <2> QED
    BY <2>1, EffectIsContext
<1> SUFFICES CallFits(Closure(p, d), g, X[w], X, T)
  OBVIOUS
<1> HIDE DEF p, d
<1>3. Closure(p, d).run = p /\ Closure(p, d).at = d
  BY DEF Closure
<1>4. p.fn \in {"User", "SetHandlers", "SafeAfter"}
  BY <1>1 DEF IsAfter
<1>5. CASE Changes(p)
  BY <1>5, <1>1, <1>3, <1>4 DEF CallFits, Opens
<1>6. CASE ~Changes(p)
  <2>1. X[w] = X[d] /\ X[LeadsTo(Closure(p, d))] = Needs(g, X, T)
    BY <1>1, <1>2, <1>3, <1>4, <1>6, NoEffect DEF LeadsTo
  <2> QED
    BY <1>3, <1>4, <1>6, <2>1, CallHere
<1> QED
  BY <1>5, <1>6

-----------------------------------------------------------------------------
(* The state *)

T0 == ThunksOf(objs)
Stacks == Seq(Frames(Len(winds), Len(objs), Len(conts)))

\* Neither what changes the context nor what was left a changed one.
Quiet(p) == ~Changes(p) /\ p.fn \notin {"WindBody", "SetDW"}

\* The parts of the invariant.
LEMMA Given ==
  ASSUME IInv, NEW X, ContextOf(X)
  PROVE  /\ stack \in Stacks /\ call.at = curDW
         /\ WindsRestore(winds, X, T0) /\ ObjectsSetEnv(T0) /\ SavedLinked(conts, X, T0)
         /\ CallFits(call, Top(stack), Now, X, T0)
         /\ Linked(stack, call, X, T0) /\ AllOpen(stack, X, T0)
         /\ IsContext(Now)
         /\ Quiet(call.run) =>
              /\ Now = X[curDW]
              /\ NeverReturns(call.run) \/ X[LeadsTo(call)] = Needs(Top(stack), X, T0)
<1>1. stack \in Stacks /\ call.at = curDW
  BY Parts DEF InOrder, Stacks
<1>2. /\ WindsRestore(winds, X, T0) /\ ObjectsSetEnv(T0) /\ SavedLinked(conts, X, T0)
      /\ CallFits(call, Top(stack), Now, X, T0)
      /\ Linked(stack, call, X, T0) /\ AllOpen(stack, X, T0)
  BY DEF ContextOf, InContext, T0
<1>3. IsContext(Now)
  BY DEF IsContext, Now
<1>4. ASSUME Quiet(call.run)
      PROVE  /\ Now = X[curDW]
             /\ NeverReturns(call.run) \/ X[LeadsTo(call)] = Needs(Top(stack), X, T0)
  <2>1. Now = Needs(call, X, T0) /\ Fits(call, Top(stack), X, T0)
    BY <1>2, <1>4 DEF CallFits, Quiet
  <2>2. Needs(call, X, T0) = X[curDW]
    BY <1>1, <1>4 DEF Needs, Quiet
  <2> QED
    BY <2>1, <2>2 DEF Fits
<1> QED
  BY <1>1, <1>2, <1>3, <1>4

\* Steps that add no winding, no continuation and no object.
LEMMA SameExtents ==
  ASSUME NEW X, ContextOf(X), UNCHANGED <<winds, conts>>, ThunksOf(objs') = T0,
         InContext(call', stack', Now', X, T0)
  PROVE  ContextOf(X)'
BY DEF ContextOf, T0

\* The pending call returns.
LEMMA ReturnStep ==
  ASSUME IInv, NEW X, ContextOf(X), UNCHANGED <<winds, conts>>, ThunksOf(objs') = T0,
         Cont(stack), ~NeverReturns(call.run), Now' = Needs(Top(stack), X, T0)
  PROVE  ContextOf(X)'
<1> DEFINE n == Len(winds)
           m == Len(objs)
           k == Len(conts)
<1>1. stack \in Seq(Frames(n, m, k)) /\ Linked(stack, call, X, T0) /\ AllOpen(stack, X, T0)
  BY Given DEF Stacks
<1> HIDE DEF n, m, k
<1>2. InContext(Top(stack), Pop(stack), Now', X, T0)
  BY <1>1, Returns
<1>3. stack' = Pop(stack) /\ call' = Top(stack)
  BY DEF Cont
<1> QED
  BY <1>2, <1>3, SameExtents

\* A procedure of the current extent is called.
LEMMA CallContext ==
  ASSUME IInv, NEW X, ContextOf(X), UNCHANGED <<stack, winds, conts, handlers, env>>,
         ThunksOf(objs') = T0, NEW p, Apply(p, curDW),
         NeverReturns(call.run) => NeverReturns(p),
         CallFits(Closure(p, curDW), Top(stack), Now, X, T0)
  PROVE  ContextOf(X)'
<1>1. Linked(stack, call, X, T0) /\ AllOpen(stack, X, T0)
  BY Given
<1>2. InContext(Closure(p, curDW), stack, Now, X, T0)
  <2>1. Closure(p, curDW).run = p
    BY DEF Closure
  <2> QED
    BY <1>1, <2>1, CallOnly
<1>3. call' = Closure(p, curDW) /\ stack' = stack /\ Now' = Now
  BY DEF Apply, Now
<1> QED
  BY <1>2, <1>3, SameExtents

\* A frame is pushed and a procedure called.
LEMMA PushCallContext ==
  ASSUME IInv, NEW X, ContextOf(X), UNCHANGED <<winds, conts, handlers, env>>,
         ThunksOf(objs') = T0,
         NEW q \in Continuations(Len(winds), Len(objs), Len(conts)), NEW d \in 0..Len(winds),
         stack' = Push(stack, q, d),
         NEW p, NEW e, Apply(p, e),
         Fits(Closure(q, d), Top(stack), X, T0), q.fn # "WindBody",
         NeverReturns(call.run) => NeverReturns(q) \/ NeverReturns(p),
         CallFits(Closure(p, e), Closure(q, d), Now, X, T0)
  PROVE  ContextOf(X)'
<1> DEFINE F == Frames(Len(winds), Len(objs), Len(conts))
           c2 == Closure(p, e)
<1>1. stack \in Seq(F) /\ Linked(stack, call, X, T0) /\ AllOpen(stack, X, T0)
  BY Given DEF Stacks
<1>2. Closure(q, d) \in F /\ Opens(Closure(q, d), X, T0) /\ c2.run = p
  BY DEF Closure, Frames, Opens
<1>3. call' = c2 /\ Now' = Now /\ CallFits(c2, Closure(q, d), Now, X, T0)
  BY DEF Apply, Now
<1> HIDE DEF F, c2
<1>4. InContext(c2, Push(stack, q, d), Now, X, T0)
  BY <1>1, <1>2, <1>3, PushAndCall
<1>5. InContext(call', stack', Now', X, T0)
  BY <1>3, <1>4
<1> QED
  BY <1>5, SameExtents

-----------------------------------------------------------------------------
(* Steps of dynamic-wind and TraverseWindings *)

LEMMA WindExitContext ==
  ASSUME IInv, NEW X, ContextOf(X), WindExit PROVE ContextOf(X)'
<1> DEFINE d == call.run.prev
           q == [fn |-> "Forward"]
           p == call.run.after
<1>1. /\ Runs(call, stack, winds, conts, Len(objs)) /\ call.at = curDW
      /\ Len(winds) \in Nat /\ Len(conts) \in Nat /\ Len(objs) \in Nat
      /\ curDW \in 0..Len(winds)
      /\ call.run \in Pending(Len(winds), Len(objs), Len(conts))
  BY Parts
<1>2. d \in 0..Len(winds)
  BY <1>1, Captures DEF WindExit, Calling
<1>3. curDW \in 1..Len(winds) /\ d = winds[curDW].parent /\ p = winds[curDW].after
  BY <1>1 DEF Runs, Placed, Up, WindExit, Calling
<1>4. Now = X[curDW] /\ X[d] = Needs(Top(stack), X, T0) /\ WindsRestore(winds, X, T0)
  BY Given DEF WindExit, Calling, Quiet, Changes, LeadsTo, NeverReturns, FailsOnReturn
<1>5. Needs(Closure(q, d), X, T0) = X[d] /\ Fits(Closure(q, d), Top(stack), X, T0)
  BY <1>4 DEF Needs, Closure, Fits, LeadsTo
<1>6. CallFits(Closure(p, d), Closure(q, d), Now, X, T0)
  <2>1. \A g : Needs(g, X, T0) = X[winds[curDW].parent] =>
          CallFits(Closure(winds[curDW].after, winds[curDW].parent), g, X[curDW], X, T0)
    BY <1>3, <1>4, AfterFits
  <2> HIDE DEF q
  <2> QED
    BY <1>3, <1>4, <1>5, <2>1
<1>7. q \in Continuations(Len(winds), Len(objs), Len(conts)) /\ q.fn # "WindBody"
  BY DEF Continuations
<1>8. ~NeverReturns(call.run)
  BY DEF WindExit, Calling, NeverReturns, FailsOnReturn
<1>9. /\ stack' = Push(stack, q, d) /\ Apply(p, d) /\ ThunksOf(objs') = T0
      /\ UNCHANGED <<winds, conts, handlers, env>>
  BY DEF WindExit, T0
<1> HIDE DEF d, q, p
<1> QED
  BY <1>2, <1>5, <1>6, <1>7, <1>8, <1>9, PushCallContext

\* What returns without having changed the context.
LEMMA QuietReturn ==
  ASSUME IInv, NEW X, ContextOf(X), UNCHANGED <<winds, conts, handlers, env>>,
         ThunksOf(objs') = T0, Cont(stack), Quiet(call.run), ~NeverReturns(call.run),
         LeadsTo(call) = curDW
  PROVE  ContextOf(X)'
<1>1. Now' = Now
  BY DEF Now
<1>2. Now = Needs(Top(stack), X, T0)
  BY Given
<1> QED
  BY <1>1, <1>2, ReturnStep

LEMMA ForwardContext ==
  ASSUME IInv, NEW X, ContextOf(X), Forward PROVE ContextOf(X)'
<1>1. /\ Quiet(call.run) /\ ~NeverReturns(call.run) /\ ThunksOf(objs') = T0
      /\ LeadsTo(call) = curDW
  BY Given DEF Forward, Calling, Quiet, Changes, NeverReturns, FailsOnReturn, LeadsTo, T0
<1> QED
  BY <1>1, QuietReturn DEF Forward

LEMMA TraverseArriveContext ==
  ASSUME IInv, NEW X, ContextOf(X), TraverseArrive PROVE ContextOf(X)'
<1>1. call.run.src = curDW
  BY Travelling DEF TraverseArrive, Calling
<1>2. /\ Quiet(call.run) /\ ~NeverReturns(call.run) /\ ThunksOf(objs') = T0
      /\ LeadsTo(call) = curDW
  BY <1>1 DEF TraverseArrive, Calling, Quiet, Changes, NeverReturns, FailsOnReturn, LeadsTo, T0
<1> QED
  BY <1>2, QuietReturn DEF TraverseArrive

\* What is known of the context while a traversal goes on.
LEMMA TravellingContext ==
  ASSUME IInv, NEW X, ContextOf(X), call.run.fn \in {"Traverse", "ContinueUp", "EnterWind"}
  PROVE  /\ Now = X[curDW] /\ X[call.run.dest] = Needs(Top(stack), X, T0)
         /\ ~NeverReturns(call.run)
<1>1. Quiet(call.run) /\ LeadsTo(call) = call.run.dest /\ ~NeverReturns(call.run)
  BY DEF Quiet, Changes, LeadsTo, NeverReturns, FailsOnReturn
<1> QED
  BY <1>1, Given

\* A traversal to dest may be called in the context of its source.
LEMMA TraverseFits ==
  ASSUME NEW src, NEW dest, NEW g, NEW X, NEW T, X[dest] = Needs(g, X, T)
  PROVE  CallFits(Closure(Traverse(src, dest), src), g, X[src], X, T)
<1>1. ~Changes(Traverse(src, dest)) /\ Traverse(src, dest).fn = "Traverse"
  BY DEF Traverse, Changes
<1>2. LeadsTo(Closure(Traverse(src, dest), src)) = dest
  BY DEF Traverse, Closure, LeadsTo
<1> QED
  BY <1>1, <1>2, CallHere

LEMMA TraverseDownContext ==
  ASSUME IInv, NEW X, ContextOf(X), TraverseDown PROVE ContextOf(X)'
<1> DEFINE src == call.run.src
           dest == call.run.dest
           d == Parent(dest)
           q == [fn |-> "EnterWind", dest |-> dest]
           p == Traverse(src, d)
<1>1. /\ Data /\ Len(winds) \in Nat /\ Len(objs) \in Nat /\ curDW \in 0..Len(winds)
      /\ dest \in 0..Len(winds) /\ src = curDW
  BY Travelling DEF TraverseDown, Calling
<1>2. dest \in 1..Len(winds)
  <2>1. Depth(src) \in Nat
    <3>1. curDW # 0 => Depth(curDW) \in Nat
      BY <1>1, Winding
    <3> QED
      BY <3>1, <1>1 DEF Depth
  <2>2. Depth(src) < Depth(dest)
    BY DEF TraverseDown
  <2>3. dest # 0
    BY <2>1, <2>2 DEF Depth
  <2> QED
    BY <2>3, <1>1
<1>3. d \in 0..Len(winds)
  BY <1>1, <1>2, Winding
<1>4. Now = X[curDW] /\ X[dest] = Needs(Top(stack), X, T0) /\ ~NeverReturns(call.run)
  BY TravellingContext DEF TraverseDown, Calling
<1>5. q \in Continuations(Len(winds), Len(objs), Len(conts)) /\ q.fn # "WindBody"
  BY <1>2 DEF Continuations
<1>6. Fits(Closure(q, d), Top(stack), X, T0) /\ Needs(Closure(q, d), X, T0) = X[d]
  BY <1>4 DEF Fits, Needs, Closure, LeadsTo
<1>7. CallFits(Closure(p, curDW), Closure(q, d), Now, X, T0)
  <2> HIDE DEF d, q
  <2> QED
    BY <1>1, <1>4, <1>6, TraverseFits
<1>8. /\ stack' = Push(stack, q, d) /\ Apply(p, curDW) /\ ThunksOf(objs') = T0
      /\ UNCHANGED <<winds, conts, handlers, env>>
  BY DEF TraverseDown, T0
<1> HIDE DEF d, q, p
<1> QED
  BY <1>3, <1>4, <1>5, <1>6, <1>7, <1>8, PushCallContext

LEMMA TraverseUpContext ==
  ASSUME IInv, NEW X, ContextOf(X), TraverseUp PROVE ContextOf(X)'
<1> DEFINE src == call.run.src
           dest == call.run.dest
           d == winds[src].parent
           q == [fn |-> "ContinueUp", src |-> src, dest |-> dest]
           p == winds[src].after
<1>1. /\ Data /\ Len(winds) \in Nat /\ Len(objs) \in Nat /\ curDW \in 0..Len(winds)
      /\ dest \in 0..Len(winds) /\ src = curDW
  BY Travelling DEF TraverseUp, Calling
<1>2. src \in 1..Len(winds)
  BY <1>1, LeavesWinding
<1>3. d \in 0..Len(winds) /\ Parent(src) = d
  BY <1>1, <1>2, Winding
<1>4. /\ Now = X[src] /\ X[dest] = Needs(Top(stack), X, T0) /\ ~NeverReturns(call.run)
      /\ WindsRestore(winds, X, T0)
  BY <1>1, TravellingContext, Given DEF TraverseUp, Calling
<1>5. q \in Continuations(Len(winds), Len(objs), Len(conts)) /\ q.fn # "WindBody"
  BY <1>1, <1>2 DEF Continuations
<1>6. Fits(Closure(q, d), Top(stack), X, T0) /\ Needs(Closure(q, d), X, T0) = X[d]
  BY <1>4 DEF Fits, Needs, Closure, LeadsTo
<1>7. CallFits(Closure(p, d), Closure(q, d), Now, X, T0)
  <2>1. \A g : Needs(g, X, T0) = X[winds[src].parent] =>
          CallFits(Closure(winds[src].after, winds[src].parent), g, X[src], X, T0)
    BY <1>2, <1>4, AfterFits
  <2> HIDE DEF q
  <2> QED
    BY <1>4, <1>6, <2>1
<1>8. /\ stack' = Push(stack, q, d) /\ Apply(p, d) /\ ThunksOf(objs') = T0
      /\ UNCHANGED <<winds, conts, handlers, env>>
  BY <1>3 DEF TraverseUp, T0
<1> HIDE DEF d, q, p
<1> QED
  BY <1>3, <1>4, <1>5, <1>6, <1>7, <1>8, PushCallContext

LEMMA ContinueUpContext ==
  ASSUME IInv, NEW X, ContextOf(X), ContinueUp PROVE ContextOf(X)'
<1> DEFINE p == Traverse(Parent(call.run.src), call.run.dest)
<1>1. curDW = Parent(call.run.src)
  BY Travelling DEF ContinueUp, Calling
<1>2. Now = X[curDW] /\ X[call.run.dest] = Needs(Top(stack), X, T0) /\ ~NeverReturns(call.run)
  BY TravellingContext DEF ContinueUp, Calling
<1>3. CallFits(Closure(p, curDW), Top(stack), Now, X, T0)
  BY <1>1, <1>2, TraverseFits
<1>4. /\ Apply(p, curDW) /\ ThunksOf(objs') = T0
      /\ UNCHANGED <<stack, winds, conts, handlers, env>>
  BY DEF ContinueUp, T0
<1> HIDE DEF p
<1> QED
  BY <1>2, <1>3, <1>4, CallContext

LEMMA EnterWindContext ==
  ASSUME IInv, NEW X, ContextOf(X), EnterWind PROVE ContextOf(X)'
<1> DEFINE dest == call.run.dest
           d == winds[dest].parent
           q == [fn |-> "SetDW", dest |-> dest]
           p == winds[dest].before
<1>1. /\ Data /\ Len(winds) \in Nat /\ Len(objs) \in Nat /\ curDW \in 0..Len(winds)
      /\ dest \in 1..Len(winds) /\ curDW = Parent(dest)
  BY Travelling DEF EnterWind, Calling
<1>2. d = curDW
  BY <1>1, Winding
<1>3. /\ Now = X[d] /\ X[dest] = Needs(Top(stack), X, T0) /\ ~NeverReturns(call.run)
      /\ WindsRestore(winds, X, T0) /\ IsContext(X[d])
  BY <1>2, TravellingContext, Given DEF EnterWind, Calling
<1>4. q \in Continuations(Len(winds), Len(objs), Len(conts)) /\ q.fn # "WindBody"
  BY <1>1 DEF Continuations
<1>5. Fits(Closure(q, d), Top(stack), X, T0) /\ Needs(Closure(q, d), X, T0) = X[dest]
  BY <1>3 DEF Fits, Needs, Closure, LeadsTo
<1>6. CallFits(Closure(p, d), Closure(q, d), Now, X, T0)
  <2>1. \A g : Needs(g, X, T0) = X[dest] =>
          CallFits(Closure(winds[dest].before, winds[dest].parent), g,
                   X[winds[dest].parent], X, T0)
    BY <1>1, <1>3, BeforeFits
  <2> HIDE DEF q
  <2> QED
    BY <1>3, <1>5, <2>1
<1>7. /\ stack' = Push(stack, q, d) /\ Apply(p, d) /\ ThunksOf(objs') = T0
      /\ UNCHANGED <<winds, conts, handlers, env>> /\ d \in 0..Len(winds)
  BY <1>1, <1>2 DEF EnterWind, T0
<1> HIDE DEF d, q, p
<1> QED
  BY <1>3, <1>4, <1>5, <1>6, <1>7, PushCallContext

LEMMA SetDWContext ==
  ASSUME IInv, NEW X, ContextOf(X), SetDW PROVE ContextOf(X)'
<1>1. /\ ~Changes(call.run) /\ ~NeverReturns(call.run) /\ ThunksOf(objs') = T0
      /\ LeadsTo(call) = call.run.dest /\ Needs(call, X, T0) = X[call.run.dest]
      /\ Now' = Now
  BY DEF SetDW, Calling, Changes, NeverReturns, FailsOnReturn, LeadsTo, Needs, T0, Now
<1>2. Now = Needs(call, X, T0) /\ Fits(call, Top(stack), X, T0)
  BY <1>1, Given DEF CallFits
<1>3. Now' = Needs(Top(stack), X, T0)
  BY <1>1, <1>2 DEF Fits
<1> QED
  BY <1>1, <1>3, ReturnStep DEF SetDW

-----------------------------------------------------------------------------
(* Steps of escape procedures and exceptions *)

LEMMA CallEscapeContext ==
  ASSUME IInv, NEW X, ContextOf(X), CallEscape PROVE ContextOf(X)'
<1> DEFINE dw == conts[call.run.k].dw
           q == [fn |-> "Restore", k |-> call.run.k]
           p == Traverse(curDW, dw)
<1>1. /\ Data /\ Len(winds) \in Nat /\ Len(conts) \in Nat /\ Len(objs) \in Nat
      /\ call.run \in Pending(Len(winds), Len(objs), Len(conts))
  BY Parts
<1>2. call.run.k \in 1..Len(conts)
  BY <1>1, Captures DEF CallEscape, Calling
<1>3. dw \in 0..Len(winds)
  BY <1>1, <1>2, SavedCont
<1>4. Now = X[curDW]
  BY Given DEF CallEscape, Calling, Quiet, Changes
<1>5. q \in Continuations(Len(winds), Len(objs), Len(conts)) /\ q.fn # "WindBody"
  BY <1>2 DEF Continuations
<1>6. /\ Fits(Closure(q, dw), Top(stack), X, T0) /\ NeverReturns(q)
      /\ Needs(Closure(q, dw), X, T0) = X[dw]
  BY DEF Fits, Needs, Closure, NeverReturns
<1>7. CallFits(Closure(p, curDW), Closure(q, dw), Now, X, T0)
  <2> HIDE DEF dw, q
  <2> QED
    BY <1>4, <1>6, TraverseFits
<1>8. /\ stack' = Push(stack, q, dw) /\ Apply(p, curDW) /\ ThunksOf(objs') = T0
      /\ UNCHANGED <<winds, conts, handlers, env>>
  BY DEF CallEscape, T0
<1> HIDE DEF dw, q, p
<1> QED
  BY <1>3, <1>5, <1>6, <1>7, <1>8, PushCallContext

LEMMA RestoreContext ==
  ASSUME IInv, NEW X, ContextOf(X), Restore PROVE ContextOf(X)'
<1> DEFINE k == call.run.k
           s == conts[k].stack
<1>1. /\ Data /\ Len(winds) \in Nat /\ Len(conts) \in Nat /\ Len(objs) \in Nat
      /\ Runs(call, stack, winds, conts, Len(objs)) /\ call.at = curDW
      /\ call.run \in Pending(Len(winds), Len(objs), Len(conts))
  BY Parts
<1>2. k \in 1..Len(conts)
  BY <1>1, Captures DEF Restore, Calling
<1>3. s \in Stacks /\ Top(s).at = conts[k].dw
  BY <1>1, <1>2, SavedCont DEF InOrder, Stacks
<1>4. curDW = conts[k].dw
  BY <1>1 DEF Runs, Placed, Restore, Calling
<1>5. Linked(s, Bottom, X, T0) /\ AllOpen(s, X, T0) /\ Top(s).run.fn = "User"
  BY <1>2, Given DEF SavedLinked
<1>6. Now = X[curDW]
  BY Given DEF Restore, Calling, Quiet, Changes
<1>7. Now = Needs(Top(s), X, T0)
  BY <1>3, <1>4, <1>5, <1>6 DEF Needs
<1>8. ~NeverReturns(Bottom.run)
  BY DEF Bottom, Closure, NeverReturns, FailsOnReturn
<1>9. stack' = Pop(s) /\ call' = Top(s) /\ Now' = Now /\ ThunksOf(objs') = T0
  BY DEF Restore, Cont, Now, T0
<1> HIDE DEF s, k
<1>10. InContext(Top(s), Pop(s), Now, X, T0)
  BY <1>3, <1>5, <1>7, <1>8, Returns DEF Stacks
<1>11. InContext(call', stack', Now', X, T0)
  BY <1>9, <1>10
<1> QED
  BY <1>9, <1>11, SameExtents DEF Restore

LEMMA CallSetHandlersContext ==
  ASSUME IInv, NEW X, ContextOf(X), CallSetHandlers PROVE ContextOf(X)'
<1>1. /\ Changes(call.run) /\ ~NeverReturns(call.run) /\ ThunksOf(objs') = T0
      /\ Effect(call.run, T0, Now) = [hs |-> call.run.hs, env |-> Now.env]
  BY DEF CallSetHandlers, Calling, Changes, NeverReturns, FailsOnReturn, T0, Effect, Inner
<1>2. Now' = Effect(call.run, T0, Now)
  BY <1>1 DEF CallSetHandlers, Now
<1>3. Now' = Needs(Top(stack), X, T0)
  BY <1>1, <1>2, Given DEF CallFits
<1> QED
  BY <1>1, <1>3, ReturnStep DEF CallSetHandlers

\* The context of a call that raises, and of its handlers.
LEMMA RaiseFits ==
  ASSUME NEW g, NEW d, NEW X, NEW T
  PROVE  CallFits(Closure(Raise, d), g, X[d], X, T) /\ NeverReturns(Raise)
<1>1. NeverReturns(Raise) /\ ~Changes(Raise) /\ Raise.fn = "Raise"
  BY DEF Raise, NeverReturns, Changes
<1> QED
  BY <1>1, CallHere

LEMMA RaiseUncaughtContext ==
  ASSUME IInv, NEW X, ContextOf(X), RaiseUncaught PROVE ContextOf(X)'
<1>1. Now = X[curDW] /\ bottomDW = 0
  BY Given DEF RaiseUncaught, Calling, Quiet, Changes, IInv
<1>2. Top(<<>>) = Bottom /\ X[0] = Needs(Bottom, X, T0) /\ Len(<<>>) = 0
  BY EmptySeq DEF Top, Needs, Bottom, Closure
<1>3. CallFits(Closure(Traverse(curDW, 0), curDW), Top(<<>>), Now, X, T0)
  <2>1. X[0] = Needs(Top(<<>>), X, T0)
    BY <1>2
  <2> QED
    BY <1>1, <2>1, TraverseFits
<1>4. Linked(<<>>, call', X, T0) /\ AllOpen(<<>>, X, T0)
  BY <1>2 DEF Linked, AllOpen
<1>5. stack' = <<>> /\ call' = Closure(Traverse(curDW, 0), curDW) /\ Now' = Now
  BY <1>1 DEF RaiseUncaught, Apply, Now
<1>6. InContext(call', stack', Now', X, T0)
  BY <1>3, <1>4, <1>5 DEF InContext
<1>7. ThunksOf(objs') = T0
  BY DEF RaiseUncaught, T0
<1> QED
  BY <1>6, <1>7, SameExtents DEF RaiseUncaught

LEMMA WindFrame ==
  ASSUME NEW n, NEW m, NEW k, NEW d \in 0..n,
         NEW before \in Thunks(m), NEW thunk \in Thunks(m), NEW after \in Thunks(m)
  PROVE  Closure([fn |-> "WindBody", before |-> before, thunk |-> thunk,
                  after |-> after], d) \in Frames(n, m, k)
BY DEF Closure, Frames, Continuations

\* WithExceptionHandlers(s, hs, thunk), over the objects there are then.
LEMMA HandlersContext ==
  ASSUME NEW n, NEW m, NEW k, curDW \in 0..n, handlers \in Seq(Handlers(m)),
         NEW s \in Seq(Frames(n, m, k)),
         NEW hs \in Seq(Handlers(m)), NEW thunk \in Thunks(m),
         NEW c, NEW X, NEW T,
         Linked(s, c, X, T), AllOpen(s, X, T), Now = X[curDW], ~Changes(thunk),
         thunk.fn = "ErrorThunk" => ObjectRestores(thunk.o, T, [hs |-> hs, env |-> env]),
         FailsOnReturn(thunk) \/ X[curDW] = Needs(Top(s), X, T),
         NeverReturns(c.run) => FailsOnReturn(thunk),
         WithExceptionHandlers(s, hs, thunk), UNCHANGED <<handlers, env>>
  PROVE  InContext(call', stack', Now', X, T)
<1> DEFINE b == SetHandlers(hs)
           a == SetHandlers(handlers)
           body == [fn |-> "WindBody", before |-> b, thunk |-> thunk, after |-> a]
<1>1. b \in Thunks(m) /\ a \in Thunks(m)
  BY DEF SetHandlers, Thunks
<1>2. Closure(body, curDW) \in Frames(n, m, k)
  <2> HIDE DEF a, b
  <2> QED
    BY <1>1, WindFrame
<1>3. /\ stack' = Push(s, body, curDW) /\ call' = Closure(b, curDW) /\ Now' = Now
      /\ Now.hs = handlers /\ Now.env = env /\ IsContext(Now)
  BY DEF WithExceptionHandlers, DynamicWind, Apply, Now, IsContext
<1>4. InContext(Closure(b, curDW), Push(s, body, curDW), Now, X, T)
  BY <1>2, <1>3, HandlersInContext
<1> HIDE DEF b, body
<1> QED
  BY <1>3, <1>4

LEMMA RaiseToHandlerContext ==
  ASSUME IInv, NEW X, ContextOf(X), RaiseToHandler PROVE ContextOf(X)'
<1> DEFINE hs == Tail(handlers)
           thunk == HandlerThunk(Head(handlers), FALSE)
           n == Len(winds)
           m == Len(objs)
           k == Len(conts)
<1>1. /\ Data /\ m \in Nat /\ curDW \in 0..n
      /\ handlers \in Seq(Handlers(m)) /\ stack \in Seq(Frames(n, m, k))
  BY Parts DEF Data, InOrder
<1>2. handlers # <<>>
  BY DEF RaiseToHandler, IsPair
<1>3. hs \in Seq(Handlers(m)) /\ Head(handlers) \in Handlers(m)
  <2> HIDE DEF m
  <2> QED
    BY <1>1, <1>2, HeadTailProperties
<1>4. thunk \in Thunks(m)
  BY <1>3 DEF HandlerThunk, Thunks
<1>5. /\ FailsOnReturn(thunk) /\ ~Changes(thunk) /\ thunk.fn # "ErrorThunk"
  BY DEF HandlerThunk, FailsOnReturn, Changes
<1>6. Now = X[curDW] /\ Linked(stack, call, X, T0) /\ AllOpen(stack, X, T0)
  BY Given DEF RaiseToHandler, Calling, Quiet, Changes
<1>7. /\ WithExceptionHandlers(stack, hs, thunk) /\ ThunksOf(objs') = T0
      /\ UNCHANGED <<winds, conts, handlers, env>>
  BY DEF RaiseToHandler, T0
<1> HIDE DEF n, m, k, hs, thunk
<1>8. InContext(call', stack', Now', X, T0)
  BY <1>1, <1>3, <1>4, <1>5, <1>6, <1>7, HandlersContext
<1> QED
  BY <1>7, <1>8, SameExtents

LEMMA CallHandlerThunkContext ==
  ASSUME IInv, NEW X, ContextOf(X), CallHandlerThunk PROVE ContextOf(X)'
<1> DEFINE q == [fn |-> "RaiseAgain"]
           h == call.run.h
<1>1. /\ Data /\ Len(winds) \in Nat /\ Len(objs) \in Nat /\ Len(conts) \in Nat
      /\ curDW \in 0..Len(winds) /\ call.at = curDW
      /\ call.run \in Pending(Len(winds), Len(objs), Len(conts))
  BY Parts
<1>2. h \in Handlers(Len(objs)) /\ call.run.continuable \in BOOLEAN
  BY <1>1, Captures DEF CallHandlerThunk, Calling
<1>3. h.fn \in {"User", "ErrorHandler"}
  BY <1>2 DEF Handlers
<1>4. /\ Now = X[curDW]
      /\ NeverReturns(call.run) \/ X[curDW] = Needs(Top(stack), X, T0)
  BY <1>1, Given DEF CallHandlerThunk, Calling, Quiet, Changes, LeadsTo
<1> HIDE DEF h
<1>5. /\ ~Changes(h) /\ ~NeverReturns(h) /\ h.fn \notin {"WindBody", "SetDW", "ErrorThunk"}
      /\ LeadsTo(Closure(h, curDW)) = curDW
  BY <1>3 DEF Changes, NeverReturns, FailsOnReturn, LeadsTo, Closure
<1>6. \A g : X[curDW] = Needs(g, X, T0) => CallFits(Closure(h, curDW), g, Now, X, T0)
  BY <1>4, <1>5, CallHere
<1>7. /\ Apply(h, curDW) /\ ThunksOf(objs') = T0
      /\ UNCHANGED <<winds, conts, handlers, env>>
  BY DEF CallHandlerThunk, T0, h
<1>8. CASE call.run.continuable
  <2>1. ~NeverReturns(call.run) /\ stack' = stack
    BY <1>8 DEF CallHandlerThunk, Calling, NeverReturns, FailsOnReturn
  <2>2. CallFits(Closure(h, curDW), Top(stack), Now, X, T0)
    BY <2>1, <1>4, <1>6
  <2> QED
    BY <2>1, <2>2, <1>7, CallContext
<1>9. CASE ~call.run.continuable
  <2>1. stack' = Push(stack, q, curDW)
    BY <1>9 DEF CallHandlerThunk
  <2>2. /\ Fits(Closure(q, curDW), Top(stack), X, T0) /\ NeverReturns(q)
        /\ Needs(Closure(q, curDW), X, T0) = X[curDW]
        /\ q \in Continuations(Len(winds), Len(objs), Len(conts)) /\ q.fn # "WindBody"
    BY DEF Fits, Needs, Closure, NeverReturns, Continuations
  <2> HIDE DEF q
  <2>3. CallFits(Closure(h, curDW), Closure(q, curDW), Now, X, T0)
    BY <2>2, <1>6
  <2> QED
    BY <2>1, <2>2, <2>3, <1>1, <1>7, PushCallContext
<1> QED
  BY <1>2, <1>8, <1>9

\* What raises, whatever the call was.
LEMMA RaisingContext ==
  ASSUME IInv, NEW X, ContextOf(X), UNCHANGED <<stack, winds, conts, handlers, env>>,
         ThunksOf(objs') = T0, Apply(Raise, curDW), Now = X[curDW]
  PROVE  ContextOf(X)'
BY RaiseFits, CallContext

LEMMA RaiseAgainContext ==
  ASSUME IInv, NEW X, ContextOf(X), RaiseAgain PROVE ContextOf(X)'
<1>1. Now = X[curDW]
  BY Given DEF RaiseAgain, Calling, Quiet, Changes
<1>2. ThunksOf(objs') = T0
  BY DEF RaiseAgain, T0
<1> QED
  BY <1>1, <1>2, RaisingContext DEF RaiseAgain

\* RaiseContinuable(s) where user code or an error handler runs.
LEMMA RaiseContinuableContext ==
  ASSUME NEW n, NEW m \in Nat, NEW k, curDW \in 0..n, handlers \in Seq(Handlers(m)),
         NEW s \in Seq(Frames(n, m, k)), NEW c, NEW X, NEW T,
         Linked(s, c, X, T), AllOpen(s, X, T), Now = X[curDW],
         X[curDW] = Needs(Top(s), X, T), ~NeverReturns(c.run),
         RaiseContinuable(s), UNCHANGED <<handlers, env>>
  PROVE  InContext(call', stack', Now', X, T)
<1>1. CASE IsPair(handlers)
  <2> DEFINE hs == Tail(handlers)
             thunk == HandlerThunk(Head(handlers), TRUE)
  <2>1. handlers # <<>>
    BY <1>1 DEF IsPair
  <2>2. hs \in Seq(Handlers(m)) /\ Head(handlers) \in Handlers(m)
    BY <2>1, HeadTailProperties
  <2>3. thunk \in Thunks(m)
    BY <2>2 DEF HandlerThunk, Thunks
  <2>4. ~Changes(thunk) /\ thunk.fn # "ErrorThunk"
    BY DEF HandlerThunk, Changes
  <2>5. WithExceptionHandlers(s, hs, thunk)
    BY <1>1 DEF RaiseContinuable
  <2> HIDE DEF hs, thunk
  <2> QED
    BY <2>2, <2>3, <2>4, <2>5, HandlersContext
<1>2. CASE ~IsPair(handlers)
  <2>1. stack' = s /\ call' = Closure(Raise, curDW) /\ Now' = Now
    BY <1>2 DEF RaiseContinuable, Apply, Now
  <2>2. InContext(Closure(Raise, curDW), s, Now, X, T)
    BY RaiseFits, CallOnly
  <2> QED
    BY <2>1, <2>2
<1> QED
  BY <1>1, <1>2

-----------------------------------------------------------------------------
(* Steps of managed objects and environments *)

\* What is known of a call that returns and runs in the context of its extent.
LEMMA PlainContext ==
  ASSUME IInv, NEW X, ContextOf(X),
         call.run.fn \in {"ErrorThunk", "ErrorHandler", "ClearMark", "Destroy", "User"}
  PROVE  /\ Now = X[curDW] /\ X[curDW] = Needs(Top(stack), X, T0)
         /\ ~NeverReturns(call.run) /\ Quiet(call.run) /\ LeadsTo(call) = curDW
<1>1. Quiet(call.run) /\ ~NeverReturns(call.run)
  BY DEF Quiet, Changes, NeverReturns, FailsOnReturn
<1>2. LeadsTo(call) = curDW
  BY Given DEF LeadsTo
<1> QED
  BY <1>1, <1>2, Given

\* The thunks of an object stay what they are when it is marked or destroyed.
LEMMA ThunksKept ==
  ASSUME NEW m, objs \in Seq(Objects(m)), NEW o, NEW b
  PROVE  /\ ThunksOf([objs EXCEPT ![o].alive = b]) = T0
         /\ ThunksOf([objs EXCEPT ![o].isError = b]) = T0
<1>1. \A i \in DOMAIN objs : objs[i] \in Objects(m)
  BY ElementOfSeq, LenProperties
<1>2. ASSUME NEW P, DOMAIN P = DOMAIN objs,
             \A i \in DOMAIN objs :
               P[i].before = objs[i].before /\ P[i].after = objs[i].after
      PROVE  ThunksOf(P) = T0
  BY <1>2 DEF ThunksOf, T0
<1> DEFINE P == [objs EXCEPT ![o].alive = b]
           Q == [objs EXCEPT ![o].isError = b]
<1>3. DOMAIN P = DOMAIN objs /\ DOMAIN Q = DOMAIN objs
  OBVIOUS
<1>4. ASSUME NEW i \in DOMAIN objs
      PROVE  /\ P[i].before = objs[i].before /\ P[i].after = objs[i].after
             /\ Q[i].before = objs[i].before /\ Q[i].after = objs[i].after
  BY <1>1 DEF Objects
<1> HIDE DEF P, Q
<1>5. ThunksOf(P) = T0 /\ ThunksOf(Q) = T0
  BY <1>2, <1>3, <1>4
<1> QED
  BY <1>5 DEF P, Q

LEMMA ClearMarkContext ==
  ASSUME IInv, NEW X, ContextOf(X), ClearMark PROVE ContextOf(X)'
<1>1. Quiet(call.run) /\ ~NeverReturns(call.run) /\ LeadsTo(call) = curDW
  BY PlainContext DEF ClearMark, Calling
<1>2. ThunksOf(objs') = T0
  <2>1. objs \in Seq(Objects(Len(objs)))
    BY Parts DEF Data
  <2>2. objs' = [objs EXCEPT ![call.run.o].isError = FALSE]
    BY DEF ClearMark
  <2> QED
    BY <2>1, <2>2, ThunksKept
<1> QED
  BY <1>1, <1>2, QuietReturn DEF ClearMark

LEMMA DestroyContext ==
  ASSUME IInv, NEW X, ContextOf(X), Destroy PROVE ContextOf(X)'
<1>1. Quiet(call.run) /\ ~NeverReturns(call.run) /\ LeadsTo(call) = curDW
  BY PlainContext DEF Destroy, Calling
<1>2. ThunksOf(objs') = T0
  <2>1. objs \in Seq(Objects(Len(objs)))
    BY Parts DEF Data
  <2>2. objs' = [objs EXCEPT ![call.run.o].alive = FALSE]
    BY DEF Destroy
  <2> QED
    BY <2>1, <2>2, ThunksKept
<1> QED
  BY <1>1, <1>2, QuietReturn DEF Destroy

LEMMA DestroyAgainContext ==
  ASSUME IInv, NEW X, ContextOf(X), DestroyAgain PROVE ContextOf(X)'
<1>1. Now = X[curDW]
  BY PlainContext DEF DestroyAgain, Calling
<1>2. ThunksOf(objs') = T0
  BY DEF DestroyAgain, T0
<1> QED
  BY <1>1, <1>2, RaisingContext DEF DestroyAgain

LEMMA CallSetEnvContext ==
  ASSUME IInv, NEW X, ContextOf(X), CallSetEnv PROVE ContextOf(X)'
<1>1. /\ Changes(call.run) /\ ~NeverReturns(call.run) /\ ThunksOf(objs') = T0
      /\ Effect(call.run, T0, Now) = [hs |-> Now.hs, env |-> call.run.e]
  BY DEF CallSetEnv, Calling, Changes, NeverReturns, FailsOnReturn, T0, Effect, Inner
<1>2. Now' = Effect(call.run, T0, Now)
  BY <1>1 DEF CallSetEnv, Now
<1>3. Now' = Needs(Top(stack), X, T0)
  BY <1>1, <1>2, Given DEF CallFits
<1> QED
  BY <1>1, <1>3, ReturnStep DEF CallSetEnv

\* ErrorThunk enters the extent of the object, which restores the context.
LEMMA ErrorThunkContext ==
  ASSUME IInv, NEW X, ContextOf(X), ErrorThunk PROVE ContextOf(X)'
<1> DEFINE o == call.run.o
           before == OfObject("SafeBefore", o)
           after == OfObject("SafeAfter", o)
           thunk == User("thunk")
           F == Frames(Len(winds), Len(objs), Len(conts))
<1>1. /\ Len(winds) \in Nat /\ Len(objs) \in Nat /\ Len(conts) \in Nat
      /\ curDW \in 0..Len(winds) /\ call.at = curDW
      /\ call.run \in Pending(Len(winds), Len(objs), Len(conts))
  BY Parts
<1>2. o \in 1..Len(objs)
  BY <1>1, Captures DEF ErrorThunk, Calling
<1>3. before \in Thunks(Len(objs)) /\ after \in Thunks(Len(objs)) /\ thunk \in Thunks(Len(objs))
  <2>1. before \in Thunks(Len(objs)) /\ after \in Thunks(Len(objs))
    BY <1>2 DEF OfObject, Thunks
  <2> QED
    BY <2>1, Users DEF Roles
<1>4. /\ Now = X[curDW] /\ X[curDW] = Needs(Top(stack), X, T0) /\ ~NeverReturns(call.run)
  BY PlainContext DEF ErrorThunk, Calling
<1>5. /\ stack \in Seq(F) /\ Linked(stack, call, X, T0) /\ AllOpen(stack, X, T0)
      /\ IsContext(Now) /\ CallFits(call, Top(stack), Now, X, T0)
  BY Given DEF Stacks
<1>6. Effect(after, T0, Effect(before, T0, Now)) = Now
  BY <1>1, <1>4, <1>5 DEF CallFits, ErrorThunk, Calling, ObjectRestores
<1>7. /\ IsBefore(before) /\ IsAfter(after) /\ ~Changes(thunk) /\ thunk.fn # "ErrorThunk"
  BY DEF OfObject, IsBefore, IsAfter, User, Changes
<1>8. /\ stack' = Push(stack, [fn |-> "WindBody", before |-> before, thunk |-> thunk,
                               after |-> after], curDW)
      /\ call' = Closure(before, curDW) /\ Now' = Now /\ ThunksOf(objs') = T0
  BY DEF ErrorThunk, DynamicWind, Apply, Now, T0
<1> HIDE DEF o, before, after, thunk
<1>9. Closure([fn |-> "WindBody", before |-> before, thunk |-> thunk, after |-> after],
              curDW) \in F
  BY <1>1, <1>3, WindFrame
<1> HIDE DEF F
<1>10. InContext(Closure(before, curDW),
                 Push(stack, [fn |-> "WindBody", before |-> before, thunk |-> thunk,
                              after |-> after], curDW), Now, X, T0)
  BY <1>4, <1>5, <1>6, <1>7, <1>9, WindInContext
<1>11. InContext(call', stack', Now', X, T0)
  BY <1>8, <1>10
<1> QED
  BY <1>8, <1>11, SameExtents DEF ErrorThunk

\* A thunk of an object is called for its SafeBefore or SafeAfter.
LEMMA InnerFits ==
  ASSUME NEW p, NEW d, NEW g, NEW x, NEW X, NEW T, IsContext(x),
         x = X[d] \/ Effect(p, T, x) = X[d],
         p.fn \in {"SafeBefore", "SafeAfter"},
         NEW q, q = Inner(p, T), IsObjectThunk(q),
         Effect(p, T, x) = Needs(g, X, T)
  PROVE  CallFits(Closure(q, d), g, x, X, T) /\ ~NeverReturns(q)
<1>1. q.fn \in {"User", "SetEnv"}
  BY DEF IsObjectThunk
<1>2. Inner(q, T) = q
  BY <1>1 DEF Inner
<1>3. Effect(q, T, x) = Effect(p, T, x)
  BY <1>1, <1>2 DEF Effect
<1>4. ~NeverReturns(q) /\ Closure(q, d).run = q /\ Closure(q, d).at = d
  BY <1>1 DEF NeverReturns, FailsOnReturn, Closure
<1>5. CASE Changes(q)
  BY <1>1, <1>3, <1>4, <1>5 DEF CallFits, Opens
<1>6. CASE ~Changes(q)
  <2>1. x = X[d] /\ X[LeadsTo(Closure(q, d))] = Needs(g, X, T)
    BY <1>1, <1>3, <1>4, <1>6, NoEffect DEF LeadsTo
  <2> QED
    BY <1>1, <1>4, <1>6, <2>1, CallHere
<1> QED
  BY <1>4, <1>5, <1>6

LEMMA SafeBeforeContext ==
  ASSUME IInv, NEW X, ContextOf(X), SafeBefore PROVE ContextOf(X)'
<1> DEFINE o == call.run.o
           p == call.run
           q == objs[o].before
<1>1. /\ objs \in Seq(Objects(Len(objs))) /\ Len(objs) \in Nat /\ call.at = curDW
      /\ Len(winds) \in Nat /\ Len(conts) \in Nat
      /\ call.run \in Pending(Len(winds), Len(objs), Len(conts))
  BY Parts DEF Data
<1>2. o \in DOMAIN objs
  BY <1>1, Captures, LenProperties DEF SafeBefore, Calling
<1>3. Inner(p, T0) = q /\ IsObjectThunk(q)
  <2>1. o \in DOMAIN T0 /\ T0[o].before = q
    BY <1>2 DEF T0, ThunksOf
  <2>2. ObjectsSetEnv(T0)
    BY Given
  <2> QED
    BY <2>1, <2>2 DEF SafeBefore, Calling, Inner, ObjectsSetEnv
<1>4. /\ Now = X[curDW] /\ IsContext(Now) /\ Effect(p, T0, Now) = Needs(Top(stack), X, T0)
      /\ ~NeverReturns(p)
  <2>1. Changes(p) /\ ~NeverReturns(p)
    BY DEF SafeBefore, Calling, Changes, NeverReturns, FailsOnReturn
  <2> QED
    BY <2>1, <1>1, Given DEF SafeBefore, Calling, CallFits
<1>5. ThunksOf(objs') = T0 /\ p.fn \in {"SafeBefore", "SafeAfter"}
  BY DEF SafeBefore, Calling, T0
<1>6. CASE objs[o].alive
  <2>1. Apply(q, curDW) /\ UNCHANGED <<stack, winds, conts, handlers, env>>
    BY <1>6 DEF SafeBefore
  <2> HIDE DEF q, p
  <2>2. CallFits(Closure(q, curDW), Top(stack), Now, X, T0)
    BY <1>3, <1>4, <1>5, InnerFits
  <2> QED
    BY <2>1, <2>2, <1>4, <1>5, CallContext DEF p
<1>7. CASE ~objs[o].alive
  BY <1>4, <1>5, <1>7, RaisingContext DEF SafeBefore
<1> QED
  BY <1>6, <1>7

LEMMA SafeAfterContext ==
  ASSUME IInv, NEW X, ContextOf(X), SafeAfter PROVE ContextOf(X)'
<1> DEFINE o == call.run.o
           p == call.run
           q == objs[o].after
           r == OfObject("Destroy", o)
<1>1. /\ objs \in Seq(Objects(Len(objs))) /\ Len(objs) \in Nat /\ call.at = curDW
      /\ Len(winds) \in Nat /\ Len(conts) \in Nat /\ curDW \in 0..Len(winds)
      /\ call.run \in Pending(Len(winds), Len(objs), Len(conts))
  BY Parts DEF Data
<1>2. o \in 1..Len(objs)
  BY <1>1, Captures DEF SafeAfter, Calling
<1>3. Inner(p, T0) = q /\ IsObjectThunk(q)
  <2>1. o \in DOMAIN T0 /\ T0[o].after = q
    BY <1>1, <1>2, LenProperties DEF T0, ThunksOf
  <2>2. ObjectsSetEnv(T0)
    BY Given
  <2> QED
    BY <2>1, <2>2 DEF SafeAfter, Calling, Inner, ObjectsSetEnv
<1>4. ~NeverReturns(p) /\ Changes(p) /\ p.fn = "SafeAfter"
  BY DEF SafeAfter, Calling, Changes, NeverReturns, FailsOnReturn
<1>5. /\ Effect(p, T0, Now) = Needs(Top(stack), X, T0) /\ Effect(p, T0, Now) = X[curDW]
      /\ IsContext(Now)
  BY <1>1, <1>4, Given DEF CallFits
<1>6. /\ Apply(q, curDW) /\ UNCHANGED <<winds, conts, handlers, env>> /\ ThunksOf(objs') = T0
  BY DEF SafeAfter, T0
<1> HIDE DEF q, p
<1>7. \A g : Needs(g, X, T0) = X[curDW] => CallFits(Closure(q, curDW), g, Now, X, T0)
  BY <1>3, <1>4, <1>5, InnerFits
<1>8. CASE objs[o].isError
  <2>1. stack' = Push(stack, r, curDW)
    BY <1>8 DEF SafeAfter
  <2>2. /\ Fits(Closure(r, curDW), Top(stack), X, T0)
        /\ Needs(Closure(r, curDW), X, T0) = X[curDW] /\ r.fn # "WindBody"
    BY <1>5 DEF Fits, Needs, Closure, LeadsTo, OfObject
  <2>3. r \in Continuations(Len(winds), Len(objs), Len(conts))
    BY <1>2 DEF OfObject, Continuations
  <2> HIDE DEF r
  <2>4. CallFits(Closure(q, curDW), Closure(r, curDW), Now, X, T0)
    BY <2>2, <1>7
  <2> QED
    BY <2>1, <2>2, <2>3, <2>4, <1>1, <1>4, <1>6, PushCallContext DEF p
<1>9. CASE ~objs[o].isError
  <2>1. stack' = stack
    BY <1>9 DEF SafeAfter
  <2>2. CallFits(Closure(q, curDW), Top(stack), Now, X, T0)
    BY <1>5, <1>7
  <2> QED
    BY <2>1, <2>2, <1>4, <1>6, CallContext DEF p
<1> QED
  BY <1>8, <1>9

LEMMA ErrorHandlerContext ==
  ASSUME IInv, NEW X, ContextOf(X), ErrorHandler PROVE ContextOf(X)'
<1> DEFINE n == Len(winds)
           m == Len(objs)
           k == Len(conts)
           r == OfObject("ClearMark", call.run.o)
           s == Push(stack, r, curDW)
<1>1. /\ n \in Nat /\ m \in Nat /\ k \in Nat /\ curDW \in 0..n
      /\ objs \in Seq(Objects(m)) /\ handlers \in Seq(Handlers(m))
      /\ stack \in Seq(Frames(n, m, k)) /\ call.run \in Pending(n, m, k)
  BY Parts DEF Data, InOrder
<1>2. call.run.o \in 1..m
  BY <1>1, Captures DEF ErrorHandler, Calling
<1>3. /\ Now = X[curDW] /\ X[curDW] = Needs(Top(stack), X, T0) /\ ~NeverReturns(call.run)
      /\ Linked(stack, call, X, T0) /\ AllOpen(stack, X, T0)
  BY PlainContext, Given DEF ErrorHandler, Calling
<1>4. Closure(r, curDW) \in Frames(n, m, k)
  BY <1>1, <1>2 DEF Closure, Frames, Continuations, OfObject
<1>5. /\ Fits(Closure(r, curDW), Top(stack), X, T0) /\ Opens(Closure(r, curDW), X, T0)
      /\ Needs(Closure(r, curDW), X, T0) = X[curDW]
  BY <1>3 DEF Fits, Needs, Closure, LeadsTo, OfObject, Opens
<1>6. /\ objs' = [objs EXCEPT ![call.run.o].isError = TRUE] /\ RaiseContinuable(s)
      /\ UNCHANGED <<winds, conts, handlers, env>>
  BY DEF ErrorHandler
<1>7. ThunksOf(objs') = T0
  BY <1>1, <1>6, ThunksKept
<1> HIDE DEF n, m, k, r
<1>8. /\ s \in Seq(Frames(n, m, k)) /\ Linked(s, call, X, T0) /\ AllOpen(s, X, T0)
      /\ X[curDW] = Needs(Top(s), X, T0)
  <2>1. /\ Push(stack, r, curDW) \in Seq(Frames(n, m, k))
        /\ Linked(Push(stack, r, curDW), call, X, T0)
        /\ AllOpen(Push(stack, r, curDW), X, T0)
        /\ Top(Push(stack, r, curDW)) = Closure(r, curDW)
    BY <1>1, <1>3, <1>4, <1>5, PushLinked
  <2> QED
    BY <2>1, <1>5
<1> HIDE DEF s
<1>9. InContext(call', stack', Now', X, T0)
  BY <1>1, <1>3, <1>6, <1>8, RaiseContinuableContext
<1> QED
  BY <1>6, <1>7, <1>9, SameExtents

-----------------------------------------------------------------------------
(* Steps of user code *)

\* What is known of the context while user code runs.
LEMMA HereContext ==
  ASSUME IInv, NEW X, ContextOf(X), Calling("User")
  PROVE  /\ Now = X[curDW] /\ X[curDW] = Needs(Top(stack), X, T0)
         /\ ~NeverReturns(call.run) /\ Quiet(call.run) /\ LeadsTo(call) = curDW
         /\ Here \in Stacks
         /\ Linked(Here, call, X, T0) /\ AllOpen(Here, X, T0)
         /\ X[curDW] = Needs(Top(Here), X, T0)
         /\ Top(Here) = Closure(User("main"), curDW) /\ Here # <<>>
<1> DEFINE F == Frames(Len(winds), Len(objs), Len(conts))
           f == Closure(User("main"), curDW)
<1>1. /\ Now = X[curDW] /\ X[curDW] = Needs(Top(stack), X, T0)
      /\ ~NeverReturns(call.run) /\ Quiet(call.run) /\ LeadsTo(call) = curDW
  BY PlainContext DEF Calling
<1>2. /\ stack \in Seq(F) /\ Linked(stack, call, X, T0) /\ AllOpen(stack, X, T0)
      /\ curDW \in 0..Len(winds)
  BY Given, Parts DEF Stacks
<1>3. f \in F
  BY <1>2, Users DEF Roles, Closure, Frames
<1>4. /\ Fits(f, Top(stack), X, T0) /\ Opens(f, X, T0) /\ Needs(f, X, T0) = X[curDW]
  BY <1>1 DEF Fits, Needs, Opens, Closure, LeadsTo, User
<1> HIDE DEF F
<1>5. /\ Here \in Seq(F) /\ Linked(Here, call, X, T0) /\ AllOpen(Here, X, T0) /\ Top(Here) = f
  BY <1>1, <1>2, <1>3, <1>4, PushLinked DEF Here
<1>6. Here # <<>>
  <2>1. Len(Here) = Len(stack) + 1 /\ Len(stack) \in Nat
    BY <1>2, <1>3, PushFrames DEF Here
  <2> QED
    BY <2>1, EmptySeq
<1> QED
  BY <1>1, <1>4, <1>5, <1>6 DEF F, Stacks

LEMMA UserReturnContext ==
  ASSUME IInv, NEW X, ContextOf(X), UserReturn PROVE ContextOf(X)'
<1>1. Quiet(call.run) /\ ~NeverReturns(call.run) /\ LeadsTo(call) = curDW
  BY HereContext DEF UserReturn
<1>2. ThunksOf(objs') = T0
  BY DEF UserReturn, T0
<1> QED
  BY <1>1, <1>2, QuietReturn DEF UserReturn

LEMMA UserWindContext ==
  ASSUME IInv, NEW X, ContextOf(X), UserWind PROVE ContextOf(X)'
<1> DEFINE before == User("before")
           thunk == User("thunk")
           after == User("after")
           F == Frames(Len(winds), Len(objs), Len(conts))
<1>1. /\ Now = X[curDW] /\ ~NeverReturns(call.run)
      /\ Here \in Seq(F) /\ Linked(Here, call, X, T0) /\ AllOpen(Here, X, T0)
      /\ X[curDW] = Needs(Top(Here), X, T0) /\ IsContext(Now) /\ curDW \in 0..Len(winds)
  BY HereContext, Given, Parts DEF UserWind, Use, Stacks
<1>2. /\ before \in Thunks(Len(objs)) /\ after \in Thunks(Len(objs))
      /\ thunk \in Thunks(Len(objs))
  BY Users DEF Roles
<1>3. /\ IsBefore(before) /\ IsAfter(after) /\ ~Changes(thunk) /\ thunk.fn # "ErrorThunk"
      /\ ~Changes(before) /\ ~Changes(after)
  BY DEF IsBefore, IsAfter, User, Changes
<1>4. /\ stack' = Push(Here, [fn |-> "WindBody", before |-> before, thunk |-> thunk,
                              after |-> after], curDW)
      /\ call' = Closure(before, curDW) /\ Now' = Now /\ ThunksOf(objs') = T0
  BY DEF UserWind, Use, DynamicWind, Apply, Now, T0
<1> HIDE DEF before, after, thunk
<1>5. Closure([fn |-> "WindBody", before |-> before, thunk |-> thunk, after |-> after],
              curDW) \in F
  BY <1>1, <1>2, WindFrame
<1>6. Effect(after, T0, Effect(before, T0, Now)) = Now
  BY <1>1, <1>3, NoEffect
<1> HIDE DEF F
<1>7. InContext(Closure(before, curDW),
                Push(Here, [fn |-> "WindBody", before |-> before, thunk |-> thunk,
                            after |-> after], curDW), Now, X, T0)
  BY <1>1, <1>3, <1>5, <1>6, WindInContext
<1>8. InContext(call', stack', Now', X, T0)
  BY <1>4, <1>7
<1> QED
  BY <1>4, <1>8, SameExtents DEF UserWind, Use

LEMMA UserThrowContext ==
  ASSUME IInv, NEW X, ContextOf(X), UserThrow PROVE ContextOf(X)'
<1>1. PICK k \in DOMAIN conts : Apply(Escape(k), curDW)
  BY DEF UserThrow
<1>2. /\ NeverReturns(Escape(k)) /\ ~Changes(Escape(k))
      /\ Escape(k).fn \notin {"WindBody", "SetDW", "ErrorThunk"}
  BY DEF Escape, NeverReturns, Changes
<1>3. Now = X[curDW]
  BY HereContext DEF UserThrow, Use
<1>4. CallFits(Closure(Escape(k), curDW), Top(stack), Now, X, T0)
  BY <1>2, <1>3, CallHere
<1>5. ThunksOf(objs') = T0 /\ UNCHANGED <<stack, winds, conts, handlers, env>>
  BY DEF UserThrow, Use, T0
<1> QED
  BY <1>1, <1>2, <1>4, <1>5, CallContext

LEMMA UserRaiseContext ==
  ASSUME IInv, NEW X, ContextOf(X), UserRaise PROVE ContextOf(X)'
<1>1. Now = X[curDW]
  BY HereContext DEF UserRaise, Use
<1>2. ThunksOf(objs') = T0
  BY DEF UserRaise, T0
<1> QED
  BY <1>1, <1>2, RaisingContext DEF UserRaise, Use

LEMMA UserRaiseContinuableContext ==
  ASSUME IInv, NEW X, ContextOf(X), UserRaiseContinuable PROVE ContextOf(X)'
<1> DEFINE n == Len(winds)
           m == Len(objs)
           k == Len(conts)
<1>1. /\ Now = X[curDW] /\ ~NeverReturns(call.run)
      /\ Here \in Seq(Frames(n, m, k)) /\ Linked(Here, call, X, T0) /\ AllOpen(Here, X, T0)
      /\ X[curDW] = Needs(Top(Here), X, T0)
  BY HereContext DEF UserRaiseContinuable, Use, Stacks
<1>2. curDW \in 0..n /\ m \in Nat /\ handlers \in Seq(Handlers(m))
  BY Parts DEF Data
<1>3. /\ RaiseContinuable(Here) /\ ThunksOf(objs') = T0
      /\ UNCHANGED <<winds, conts, handlers, env>>
  BY DEF UserRaiseContinuable, Use, T0
<1> HIDE DEF n, m, k
<1>4. InContext(call', stack', Now', X, T0)
  BY <1>1, <1>2, <1>3, RaiseContinuableContext
<1> QED
  BY <1>3, <1>4, SameExtents

LEMMA UserHandlerContext ==
  ASSUME IInv, NEW X, ContextOf(X), UserHandler PROVE ContextOf(X)'
<1> DEFINE n == Len(winds)
           m == Len(objs)
           k == Len(conts)
           hs == <<User("handler")>> \o handlers
           thunk == User("thunk")
<1>1. /\ Now = X[curDW] /\ ~NeverReturns(call.run)
      /\ Here \in Seq(Frames(n, m, k)) /\ Linked(Here, call, X, T0) /\ AllOpen(Here, X, T0)
      /\ X[curDW] = Needs(Top(Here), X, T0)
  BY HereContext DEF UserHandler, Use, Stacks
<1>2. curDW \in 0..n /\ m \in Nat /\ handlers \in Seq(Handlers(m))
  BY Parts DEF Data
<1>3. thunk \in Thunks(m) /\ ~Changes(thunk) /\ thunk.fn # "ErrorThunk"
  <2>1. thunk \in Thunks(m)
    BY Users DEF Roles
  <2> QED
    BY <2>1 DEF Changes, User
<1>4. hs \in Seq(Handlers(m))
  <2>1. User("handler") \in Handlers(m)
    BY Users DEF Roles
  <2> HIDE DEF m
  <2>2. <<User("handler")>> \in Seq(Handlers(m))
    BY <2>1
  <2> QED
    BY <2>2, <1>2, ConcatProperties
<1>5. /\ WithExceptionHandlers(Here, hs, thunk) /\ ThunksOf(objs') = T0
      /\ UNCHANGED <<winds, conts, handlers, env>>
  BY DEF UserHandler, Use, T0
<1> HIDE DEF n, m, k, hs, thunk
<1>6. InContext(call', stack', Now', X, T0)
  BY <1>1, <1>2, <1>3, <1>4, <1>5, HandlersContext
<1> QED
  BY <1>5, <1>6, SameExtents

\* The program around the runtime starts where the loop ended.
LEMMA HostCallContext ==
  ASSUME IInv, NEW X, ContextOf(X), HostCall PROVE ContextOf(X)'
<1>1. stack = <<>> /\ LeadsTo(call) = curDW /\ call.run.fn = "Bottom" /\ call.at = curDW
  BY DEF HostCall, Halted, Calling, IInv, LeadsTo
<1>2. curDW = 0
  BY <1>1 DEF IInv, Above, Top, Bottom, Closure
<1>3. Now = X[curDW] /\ ~NeverReturns(call.run)
  BY <1>1, Given DEF Quiet, Changes, NeverReturns, FailsOnReturn
<1>4. CallFits(Closure(User("main"), curDW), Top(stack), Now, X, T0)
  <2>1. Needs(Top(stack), X, T0) = X[0]
    BY <1>1 DEF Needs, Top, Bottom, Closure
  <2>2. /\ ~Changes(User("main")) /\ User("main").fn = "User"
        /\ LeadsTo(Closure(User("main"), curDW)) = curDW
    BY DEF User, Changes, LeadsTo, Closure
  <2> QED
    BY <2>1, <2>2, <1>2, <1>3, CallHere
<1>5. /\ Apply(User("main"), curDW) /\ ThunksOf(objs') = T0
      /\ UNCHANGED <<stack, winds, conts, handlers, env>>
  BY DEF HostCall, T0
<1> QED
  BY <1>3, <1>4, <1>5, CallContext

\* The escape procedure that is made remembers where user code goes on.
LEMMA UserCallCCContext ==
  ASSUME IInv, NEW X, ContextOf(X), UserCallCC PROVE ContextOf(X)'
<1> DEFINE k == Len(conts)
           saved == [stack |-> Here, dw |-> curDW]
           D == conts'
<1>1. /\ Now = X[curDW] /\ ~NeverReturns(call.run)
      /\ Linked(Here, call, X, T0) /\ AllOpen(Here, X, T0)
      /\ X[curDW] = Needs(Top(Here), X, T0)
      /\ Top(Here).run.fn = "User" /\ Here # <<>>
  BY HereContext DEF UserCallCC, Use, Closure, User
<1>2. /\ WindsRestore(winds, X, T0) /\ ObjectsSetEnv(T0) /\ SavedLinked(conts, X, T0)
  BY Given
<1>3. D = Append(conts, saved) /\ conts \in Seq(SavedStacks(Len(winds), Len(objs), k))
  BY Parts DEF UserCallCC, Data
<1>4. k \in Nat /\ Len(D) = k + 1 /\ (\A i \in 1..k : D[i] = conts[i]) /\ D[k + 1] = saved
  <2> HIDE DEF saved, D
  <2>1. k \in Nat
    BY Parts
  <2> HIDE DEF k
  <2>2. conts \in Seq(SavedStacks(Len(winds), Len(objs), k) \cup {saved})
    BY <1>3, SeqMonotonic
  <2> QED
    BY <2>1, <2>2, <1>3, AppendProperties DEF k
<1>5. Linked(Here, Bottom, X, T0)
  BY <1>1, CallLinked
<1>6. ASSUME NEW i \in 1..(k + 1)
      PROVE  /\ Linked(D[i].stack, Bottom, X, T0) /\ AllOpen(D[i].stack, X, T0)
             /\ D[i].stack # <<>> /\ Top(D[i].stack).run.fn = "User"
  <2>1. CASE i = k + 1
    <3>1. D[i].stack = Here
      BY <2>1, <1>4
    <3> QED
      BY <3>1, <1>1, <1>5
  <2>2. CASE i # k + 1
    <3>1. i \in 1..k /\ D[i] = conts[i]
      BY <2>2, <1>4
    <3> QED
      BY <3>1, <1>2 DEF SavedLinked
  <2> QED
    BY <2>1, <2>2
<1>7. SavedLinked(D, X, T0)
  BY <1>4, <1>6 DEF SavedLinked
<1>8. InContext(Closure(User("thunk"), curDW), Here, Now, X, T0)
  <2>1. /\ ~Changes(User("thunk")) /\ User("thunk").fn = "User"
        /\ LeadsTo(Closure(User("thunk"), curDW)) = curDW
    BY DEF User, Changes, LeadsTo, Closure
  <2>2. CallFits(Closure(User("thunk"), curDW), Top(Here), Now, X, T0)
    BY <2>1, <1>1, CallHere
  <2> QED
    BY <2>2, <1>1, CallOnly
<1>9. /\ stack' = Here /\ call' = Closure(User("thunk"), curDW) /\ Now' = Now
      /\ ThunksOf(objs') = T0 /\ winds' = winds
  BY DEF UserCallCC, Use, Apply, Now, T0
<1>10. InContext(call', stack', Now', X, T0)
  BY <1>8, <1>9
<1> QED
  BY <1>2, <1>7, <1>9, <1>10 DEF ContextOf, T0

-----------------------------------------------------------------------------
(* Windings and objects are only ever added *)

\* X2 and T2 extend what X and T say of n windings and m objects.
Extends(X, X2, n, T, T2, m) ==
  /\ \A w \in 0..n : X2[w] = X[w]
  /\ \A o \in 1..m : T2[o] = T[o]

LEMMA SameEffect ==
  ASSUME NEW n \in Nat, NEW m \in Nat, NEW X, NEW X2, NEW T, NEW T2,
         Extends(X, X2, n, T, T2, m), NEW p \in Thunks(m), NEW x
  PROVE  Effect(p, T2, x) = Effect(p, T, x)
<1>1. p.fn \in {"SafeBefore", "SafeAfter"} => p.o \in 1..m
  BY Captures DEF Pending
<1>2. Inner(p, T2) = Inner(p, T)
  BY <1>1 DEF Inner, Extends
<1> QED
  BY <1>2 DEF Effect

LEMMA SameNeeds ==
  ASSUME NEW n \in Nat, NEW m \in Nat, NEW k \in Nat, NEW X, NEW X2, NEW T, NEW T2,
         Extends(X, X2, n, T, T2, m), NEW f, f \in Frames(n, m, k) \/ f = Bottom
  PROVE  /\ Needs(f, X2, T2) = Needs(f, X, T)
         /\ X2[LeadsTo(f)] = X[LeadsTo(f)]
         /\ Opens(f, X, T) => Opens(f, X2, T2)
<1>1. /\ f.at \in 0..n
      /\ f.run.fn \in {"EnterWind", "SetDW"} => f.run.dest \in 0..n
      /\ f.run.fn = "ContinueUp" => f.run.dest \in 0..n
      /\ f.run.fn = "WindExit" => f.run.prev \in 0..n
      /\ f.run.fn # "Traverse"
      /\ f.run.fn = "WindBody" => /\ f.run.before \in Thunks(m)
                                  /\ f.run.thunk \in Thunks(m)
                                  /\ f.run.after \in Thunks(m)
  <2>1. CASE f = Bottom
    BY <2>1 DEF Bottom, Closure
  <2>2. CASE f \in Frames(n, m, k)
    <3>1. f.at \in 0..n /\ f.run \in Continuations(n, m, k)
      BY <2>2 DEF Frames
    <3>2. f.run \in Pending(n, m, k)
      BY <3>1 DEF Pending
    <3>3. f.run.fn # "Traverse"
      BY <3>1 DEF Continuations
    <3> QED
      BY <3>1, <3>2, <3>3, Captures
  <2> QED
    BY <2>1, <2>2
<1>2. X2[f.at] = X[f.at] /\ X2[LeadsTo(f)] = X[LeadsTo(f)]
  BY <1>1 DEF Extends, LeadsTo
<1>3. f.run.fn = "SetDW" => X2[f.run.dest] = X[f.run.dest]
  BY <1>1 DEF Extends
<1>4. f.run.fn = "WindBody" =>
        \A x : /\ Effect(f.run.before, T2, x) = Effect(f.run.before, T, x)
               /\ Effect(f.run.after, T2, x) = Effect(f.run.after, T, x)
  BY <1>1, SameEffect
<1>5. f.run.fn = "WindBody" /\ f.run.thunk.fn = "ErrorThunk" =>
        \A x : ObjectRestores(f.run.thunk.o, T, x) => ObjectRestores(f.run.thunk.o, T2, x)
  <2> SUFFICES ASSUME f.run.fn = "WindBody", f.run.thunk.fn = "ErrorThunk"
               PROVE  \A x : ObjectRestores(f.run.thunk.o, T, x) =>
                               ObjectRestores(f.run.thunk.o, T2, x)
    OBVIOUS
  <2> DEFINE o == f.run.thunk.o
  <2>1. o \in 1..m
    BY <1>1, Captures DEF Pending
  <2>2. OfObject("SafeBefore", o) \in Thunks(m) /\ OfObject("SafeAfter", o) \in Thunks(m)
    BY <2>1 DEF OfObject, Thunks
  <2>3. \A x : /\ Effect(OfObject("SafeBefore", o), T2, x) = Effect(OfObject("SafeBefore", o), T, x)
               /\ Effect(OfObject("SafeAfter", o), T2, x) = Effect(OfObject("SafeAfter", o), T, x)
    BY <2>2, SameEffect
  <2> QED
    BY <2>3 DEF ObjectRestores
<1>6. Needs(f, X2, T2) = Needs(f, X, T)
  BY <1>2, <1>3, <1>4 DEF Needs
<1>7. Opens(f, X, T) => Opens(f, X2, T2)
  BY <1>2, <1>4, <1>5 DEF Opens
<1> QED
  BY <1>2, <1>6, <1>7

LEMMA SameLinked ==
  ASSUME NEW n \in Nat, NEW m \in Nat, NEW k \in Nat, NEW X, NEW X2, NEW T, NEW T2,
         Extends(X, X2, n, T, T2, m), NEW s \in Seq(Frames(n, m, k)), NEW c,
         Linked(s, c, X, T), AllOpen(s, X, T)
  PROVE  Linked(s, c, X2, T2) /\ AllOpen(s, X2, T2)
<1> DEFINE F == Frames(n, m, k)
           IsFrame(f) == f \in F \/ f = Bottom
<1>1. \A i \in 1..Len(s) : s[i] \in F
  BY ElementOfSeq
<1>2. \A i \in 1..Len(s) : IsFrame(s[i]) /\ IsFrame(Below(s, i))
  <2> SUFFICES ASSUME NEW i \in 1..Len(s)
               PROVE  IsFrame(s[i]) /\ IsFrame(Below(s, i))
    OBVIOUS
  <2>1. Len(s) \in Nat
    BY LenProperties
  <2>2. i # 1 => i - 1 \in 1..Len(s)
    BY <2>1
  <2> QED
    BY <2>2, <1>1 DEF Below
<1>3. \A f : IsFrame(f) => /\ Needs(f, X2, T2) = Needs(f, X, T)
                           /\ X2[LeadsTo(f)] = X[LeadsTo(f)]
                           /\ Opens(f, X, T) => Opens(f, X2, T2)
  BY SameNeeds
<1> HIDE DEF F, IsFrame
<1>4. \A f, g : IsFrame(f) /\ IsFrame(g) /\ Fits(f, g, X, T) => Fits(f, g, X2, T2)
  BY <1>3 DEF Fits
<1>5. Linked(s, c, X2, T2)
  BY <1>2, <1>4 DEF Linked
<1>6. AllOpen(s, X2, T2)
  BY <1>2, <1>3 DEF AllOpen
<1> QED
  BY <1>5, <1>6

LEMMA SameSaved ==
  ASSUME NEW n \in Nat, NEW m \in Nat, NEW k \in Nat, NEW X, NEW X2, NEW T, NEW T2,
         Extends(X, X2, n, T, T2, m), NEW C \in Seq(SavedStacks(n, m, k)),
         SavedLinked(C, X, T)
  PROVE  SavedLinked(C, X2, T2)
<1> SUFFICES ASSUME NEW i \in 1..Len(C)
             PROVE  /\ Linked(C[i].stack, Bottom, X2, T2) /\ AllOpen(C[i].stack, X2, T2)
                    /\ C[i].stack # <<>> /\ Top(C[i].stack).run.fn = "User"
  BY DEF SavedLinked
<1>1. /\ Linked(C[i].stack, Bottom, X, T) /\ AllOpen(C[i].stack, X, T)
      /\ C[i].stack # <<>> /\ Top(C[i].stack).run.fn = "User"
  BY DEF SavedLinked
<1>2. C[i].stack \in Seq(Frames(n, m, k))
  <2>1. C[i] \in SavedStacks(n, m, k)
    BY ElementOfSeq
  <2> QED
    BY <2>1 DEF SavedStacks
<1>3. Linked(C[i].stack, Bottom, X2, T2) /\ AllOpen(C[i].stack, X2, T2)
  BY <1>1, <1>2, SameLinked
<1> QED
  BY <1>1, <1>3

LEMMA SameWinds ==
  ASSUME NEW m \in Nat, NEW X, NEW X2, NEW T, NEW T2, NEW W, Len(W) \in Nat,
         W \in Seq(Windings(Len(W), m)), WindsRestore(W, X, T),
         Extends(X, X2, Len(W), T, T2, m)
  PROVE  WindsRestore(W, X2, T2)
<1>1. X2[0] = Base
  BY DEF WindsRestore, Extends
<1>2. ASSUME NEW w \in 1..Len(W)
      PROVE  /\ IsBefore(W[w].before) /\ IsAfter(W[w].after)
             /\ X2[w] = Effect(W[w].before, T2, X2[W[w].parent])
             /\ Effect(W[w].after, T2, X2[w]) = X2[W[w].parent]
  <2>1. W[w] \in Windings(Len(W), m)
    BY ElementOfSeq
  <2>2. W[w].before \in Thunks(m) /\ W[w].after \in Thunks(m) /\ W[w].parent \in 0..Len(W)
    BY <2>1 DEF Windings
  <2>3. X2[w] = X[w] /\ X2[W[w].parent] = X[W[w].parent]
    BY <2>2 DEF Extends
  <2>4. \A x : /\ Effect(W[w].before, T2, x) = Effect(W[w].before, T, x)
               /\ Effect(W[w].after, T2, x) = Effect(W[w].after, T, x)
    BY <2>2, SameEffect
  <2> QED
    BY <2>3, <2>4 DEF WindsRestore
<1> QED
  BY <1>1, <1>2 DEF WindsRestore

\* The new winding has the context its Before thunk has left, and undoes it.
LEMMA WindBodyContext ==
  ASSUME IInv, NEW X, ContextOf(X), WindBody
  PROVE  \E X2 : /\ \A w \in 0..Len(winds) : X2[w] = X[w]
                 /\ ContextOf(X2)'
<1> DEFINE n == Len(winds)
           m == Len(objs)
           k == Len(conts)
           b == call.run.before
           t == call.run.thunk
           a == call.run.after
           d == curDW
           W == winds'
           exit == [fn |-> "WindExit", after |-> a, prev |-> d]
           wind == [depth |-> Depth(d) + 1, parent |-> d, before |-> b, after |-> a]
<1>1. /\ n \in Nat /\ m \in Nat /\ k \in Nat /\ d \in 0..n /\ call.at = d
      /\ winds \in Seq(Windings(n, m)) /\ conts \in Seq(SavedStacks(n, m, k))
      /\ stack \in Seq(Frames(n, m, k)) /\ call.run \in Pending(n, m, k)
  BY Parts DEF Data, InOrder
<1>2. b \in Thunks(m) /\ t \in Thunks(m) /\ a \in Thunks(m) /\ call.run.fn = "WindBody"
  BY <1>1, Captures DEF WindBody, Calling
<1>3. /\ WindsRestore(winds, X, T0) /\ ObjectsSetEnv(T0) /\ SavedLinked(conts, X, T0)
      /\ CallFits(call, Top(stack), Now, X, T0)
      /\ Linked(stack, call, X, T0) /\ AllOpen(stack, X, T0) /\ IsContext(Now)
  BY Given
<1>4. /\ Now = Effect(b, T0, X[d])
      /\ NeverReturns(call.run) \/ X[d] = Needs(Top(stack), X, T0)
      /\ IsBefore(b) /\ IsAfter(a) /\ ~Changes(t)
      /\ Effect(a, T0, Effect(b, T0, X[d])) = X[d]
      /\ t.fn = "ErrorThunk" => ObjectRestores(t.o, T0, Effect(b, T0, X[d]))
  BY <1>1, <1>2, <1>3 DEF CallFits, Changes, Needs, Fits, LeadsTo, Opens
<1>5. PICK X2 : X2 = [w \in 0..(n + 1) |-> IF w = n + 1 THEN Now ELSE X[w]]
  OBVIOUS
<1>6. X2[n + 1] = Now /\ \A w \in 0..n : X2[w] = X[w]
  BY <1>1, <1>5
<1>7. Extends(X, X2, n, T0, T0, m)
  BY <1>6 DEF Extends
<1>8. /\ W = Append(winds, wind) /\ stack' = Push(stack, exit, n + 1)
      /\ call' = Closure(t, n + 1) /\ conts' = conts /\ Now' = Now /\ ThunksOf(objs') = T0
  BY DEF WindBody, Apply, Now, T0
<1>9. wind.parent = d /\ wind.before = b /\ wind.after = a
  OBVIOUS
<1>10. exit \in Continuations(n + 1, m, k) /\ Closure(exit, n + 1) \in Frames(n + 1, m, k)
  BY <1>1, <1>2 DEF Continuations, Closure, Frames
<1>11. /\ X2[LeadsTo(Closure(exit, n + 1))] = X2[d]
       /\ Needs(Closure(exit, n + 1), X2, T0) = X2[n + 1]
       /\ Opens(Closure(exit, n + 1), X2, T0)
  BY DEF Closure, LeadsTo, Needs, Opens
<1> HIDE DEF n, m, k, b, t, a, d, W, exit, wind
\* the windings
<1>12. Len(W) = n + 1 /\ (\A w \in 1..n : W[w] = winds[w]) /\ W[n + 1] = wind
  <2>1. winds \in Seq(Windings(n, m) \cup {wind})
    BY <1>1, SeqMonotonic
  <2> QED
    BY <2>1, <1>8, AppendProperties DEF n
<1>13. WindsRestore(W, X2, T0)
  <2>1. WindsRestore(winds, X2, T0)
    BY <1>1, <1>3, <1>7, SameWinds DEF n
  <2>2. ASSUME NEW w \in 1..(n + 1)
        PROVE  /\ IsBefore(W[w].before) /\ IsAfter(W[w].after)
               /\ X2[w] = Effect(W[w].before, T0, X2[W[w].parent])
               /\ Effect(W[w].after, T0, X2[w]) = X2[W[w].parent]
    <3>1. CASE w = n + 1
      <4>1. W[w].parent = d /\ W[w].before = b /\ W[w].after = a
        BY <3>1, <1>9, <1>12
      <4>2. X2[d] = X[d] /\ X2[w] = Effect(b, T0, X[d])
        BY <3>1, <1>1, <1>4, <1>6
      <4> QED
        BY <4>1, <4>2, <1>4
    <3>2. CASE w # n + 1
      <4>1. w \in 1..n /\ W[w] = winds[w]
        BY <3>2, <1>1, <1>12
      <4> QED
        BY <4>1, <2>1 DEF WindsRestore, n
    <3> QED
      BY <3>1, <3>2
  <2> QED
    BY <2>1, <2>2, <1>12 DEF WindsRestore
\* the stack and the call
<1>14. SavedLinked(conts, X2, T0)
  BY <1>1, <1>3, <1>7, SameSaved
<1>15. Linked(stack, call, X2, T0) /\ AllOpen(stack, X2, T0)
  BY <1>1, <1>3, <1>7, SameLinked
<1>16. stack \in Seq(Frames(n + 1, m, k))
  BY <1>1, TypesGrow, SeqMonotonic
<1>17. NeverReturns(call.run) => NeverReturns(t)
  BY <1>2 DEF NeverReturns, FailsOnReturn, t
<1>18. Fits(Closure(exit, n + 1), Top(stack), X2, T0) \/ NeverReturns(t)
  <2> SUFFICES ASSUME ~NeverReturns(t)
               PROVE  X2[d] = Needs(Top(stack), X2, T0)
    BY <1>11 DEF Fits
  <2>1. X[d] = Needs(Top(stack), X, T0)
    BY <1>4, <1>17
  <2>2. Top(stack) \in Frames(n, m, k) \/ Top(stack) = Bottom
    BY <1>1, FrameKinds DEF Top
  <2>3. Needs(Top(stack), X2, T0) = Needs(Top(stack), X, T0)
    BY <2>2, <1>1, <1>7, SameNeeds
  <2> QED
    BY <2>1, <2>3, <1>1, <1>6
<1>19. CallFits(Closure(t, n + 1), Closure(exit, n + 1), Now, X2, T0)
  <2>1. /\ t.fn \notin {"WindBody", "SetDW"} /\ LeadsTo(Closure(t, n + 1)) = n + 1
    <3>1. t.fn \in {"User", "SetHandlers", "SetEnv", "SafeBefore", "SafeAfter", "ErrorThunk",
                    "HandlerThunk"}
      BY <1>2 DEF Thunks
    <3> QED
      BY <3>1 DEF LeadsTo, Closure
  <2>2. Closure(t, n + 1).run = t /\ Closure(t, n + 1).at = n + 1
    BY DEF Closure
  <2>3. Needs(Closure(t, n + 1), X2, T0) = Now
    BY <2>1, <2>2, <1>6 DEF Needs
  <2>4. Fits(Closure(t, n + 1), Closure(exit, n + 1), X2, T0)
    BY <2>1, <1>11 DEF Fits
  <2>5. t.fn = "ErrorThunk" => ObjectRestores(t.o, T0, X2[n + 1])
    BY <1>4, <1>6
  <2> QED
    BY <2>1, <2>2, <2>3, <2>4, <2>5, <1>4 DEF CallFits, Opens, Changes
<1>20. InContext(Closure(t, n + 1), Push(stack, exit, n + 1), Now, X2, T0)
  <2>1. Closure(t, n + 1).run = t
    BY DEF Closure
  <2> QED
    BY <2>1, <1>10, <1>11, <1>15, <1>16, <1>17, <1>18, <1>19, PushAndCall
<1>21. InContext(call', stack', Now', X2, T0)
  BY <1>8, <1>20
<1>22. WindsRestore(winds', X2, ThunksOf(objs')) /\ ObjectsSetEnv(ThunksOf(objs'))
  BY <1>3, <1>8, <1>13 DEF W
<1>23. ContextOf(X2)'
  BY <1>8, <1>14, <1>21, <1>22 DEF ContextOf
<1> QED
  BY <1>6, <1>23 DEF n

\* ManagedObjectWind in user code: the thunks of the object restore the
\* environment there was.
LEMMA ManagedContext ==
  ASSUME IInv, NEW X, ContextOf(X), Calling("User"),
         UNCHANGED <<curDW, winds, conts, handlers, env>>,
         NEW before, NEW after, IsObjectThunk(before), IsObjectThunk(after),
         before.fn = "SetEnv" => before.e = Len(objs) + 1 /\ after.fn = "SetEnv",
         after.fn = "SetEnv" => after.e = env,
         ManagedObjectWind(Here, before, after)
  PROVE  ContextOf(X)'
<1> DEFINE n == Len(winds)
           m == Len(objs)
           k == Len(conts)
           o == m + 1
           obj == [alive |-> TRUE, isError |-> FALSE, before |-> before, after |-> after]
           destroy == OfObject("Destroy", o)
           thunk == OfObject("ErrorThunk", o)
           s == Push(Here, destroy, curDW)
           hs == <<OfObject("ErrorHandler", o)>> \o handlers
           O == objs'
           T2 == ThunksOf(O)
<1>1. /\ n \in Nat /\ m \in Nat /\ k \in Nat /\ curDW \in 0..n
      /\ winds \in Seq(Windings(n, m)) /\ conts \in Seq(SavedStacks(n, m, k))
      /\ objs \in Seq(Objects(m)) /\ handlers \in Seq(Handlers(m))
  BY Parts DEF Data
<1>2. /\ Now = X[curDW] /\ ~NeverReturns(call.run)
      /\ Here \in Seq(Frames(n, m, k)) /\ Linked(Here, call, X, T0) /\ AllOpen(Here, X, T0)
      /\ Top(Here) = Closure(User("main"), curDW)
  BY HereContext DEF Stacks
<1>3. WindsRestore(winds, X, T0) /\ ObjectsSetEnv(T0) /\ SavedLinked(conts, X, T0)
  BY Given
<1>4. /\ O = Append(objs, obj)
      /\ WithExceptionHandlers(s, hs, thunk)
  BY DEF ManagedObjectWind
<1>5. o \in Nat /\ m <= o /\ o \in 1..o /\ (\A i \in 1..o : i = o \/ i \in 1..m)
  BY <1>1
<1>6. Len(O) = o /\ (\A i \in 1..m : O[i] = objs[i]) /\ O[o] = obj
  <2>1. objs \in Seq(Objects(m) \cup {obj})
    BY <1>1, SeqMonotonic
  <2> HIDE DEF obj, O
  <2> QED
    BY <2>1, <1>4, AppendProperties
<1>7. obj.before = before /\ obj.after = after
  OBVIOUS
<1>8. /\ destroy.fn = "Destroy" /\ thunk.fn = "ErrorThunk" /\ thunk.o = o
      /\ thunk \in Thunks(o) /\ destroy \in Continuations(n, o, k)
  BY <1>5 DEF OfObject, Thunks, Continuations
<1>9. hs \in Seq(Handlers(o)) /\ handlers \in Seq(Handlers(o))
  <2>1. <<OfObject("ErrorHandler", o)>> \in Seq(Handlers(o))
    BY <1>5 DEF OfObject, Handlers
  <2> HIDE DEF o, m
  <2>2. Handlers(m) \subseteq Handlers(o)
    BY <1>1, <1>5, TypesGrow
  <2>3. handlers \in Seq(Handlers(o))
    BY <2>2, <1>1, SeqMonotonic
  <2> QED
    BY <2>1, <2>3, ConcatProperties
<1> HIDE DEF n, k, obj, destroy, thunk, hs, O
\* the thunks of the objects
<1>10. /\ DOMAIN T2 = 1..o
       /\ \A i \in 1..o : T2[i].before = O[i].before /\ T2[i].after = O[i].after
       /\ \A i \in 1..m : T2[i] = T0[i]
  <2>1. DOMAIN O = 1..o /\ DOMAIN objs = 1..m
    <3>1. O \in Seq(Objects(m) \cup {obj})
      BY <1>1, <1>4, SeqMonotonic, AppendProperties
    <3> QED
      BY <3>1, <1>1, <1>6, LenProperties
  <2>2. \A i \in 1..m : i \in 1..o
    BY <1>1
  <2> QED
    BY <2>1, <2>2, <1>6 DEF ThunksOf, T0
<1> HIDE DEF m, o, T2
<1>11. Extends(X, X, n, T0, T2, m)
  BY <1>10 DEF Extends
<1>12. ObjectsSetEnv(T2)
  <2>1. DOMAIN T0 = 1..m
    BY <1>1, LenProperties DEF T0, ThunksOf, m
  <2>2. \A i \in 1..m : /\ IsObjectThunk(T2[i].before) /\ IsObjectThunk(T2[i].after)
                        /\ T2[i].before.fn = "SetEnv" => T2[i].before.e = i
    BY <2>1, <1>3, <1>10 DEF ObjectsSetEnv
  <2>3. T2[o].before = before /\ T2[o].after = after
    BY <1>5, <1>6, <1>7, <1>10
  <2> QED
    BY <2>2, <2>3, <1>5, <1>10 DEF ObjectsSetEnv, o, m
<1>13. ObjectRestores(o, T2, [hs |-> hs, env |-> env])
  <2> DEFINE in == OfObject("SafeBefore", o)
             out == OfObject("SafeAfter", o)
  <2>1. T2[o].before = before /\ T2[o].after = after
    BY <1>5, <1>6, <1>7, <1>10
  <2>2. /\ Inner(in, T2) = before /\ Inner(out, T2) = after
        /\ in.fn # "SetHandlers" /\ out.fn # "SetHandlers"
    BY <2>1 DEF OfObject, Inner
  <2> HIDE DEF in, out
  <2>3. \A h, e : /\ Effect(in, T2, [hs |-> h, env |-> e]) =
                       [hs |-> h, env |-> IF before.fn = "SetEnv" THEN before.e ELSE e]
                  /\ Effect(out, T2, [hs |-> h, env |-> e]) =
                       [hs |-> h, env |-> IF after.fn = "SetEnv" THEN after.e ELSE e]
    BY <2>2 DEF Effect
  <2>4. CASE before.fn = "SetEnv"
    BY <2>3, <2>4 DEF ObjectRestores, in, out
  <2>5. CASE before.fn # "SetEnv"
    BY <2>3, <2>5 DEF ObjectRestores, in, out
  <2> QED
    BY <2>4, <2>5
\* the stack and the call
<1>14. WindsRestore(winds, X, T2) /\ SavedLinked(conts, X, T2)
  BY <1>1, <1>3, <1>11, SameWinds, SameSaved DEF n
<1>15. Linked(Here, call, X, T2) /\ AllOpen(Here, X, T2)
  BY <1>1, <1>2, <1>11, SameLinked
<1>16. Here \in Seq(Frames(n, o, k))
  BY <1>1, <1>2, <1>5, TypesGrow, SeqMonotonic
<1>17. Closure(destroy, curDW) \in Frames(n, o, k)
  BY <1>1, <1>8 DEF Closure, Frames
<1>18. /\ Fits(Closure(destroy, curDW), Top(Here), X, T2)
       /\ Opens(Closure(destroy, curDW), X, T2)
       /\ Needs(Closure(destroy, curDW), X, T2) = X[curDW]
  BY <1>2, <1>8 DEF Fits, Needs, Opens, Closure, LeadsTo, User
<1>19. /\ s \in Seq(Frames(n, o, k)) /\ Linked(s, call, X, T2) /\ AllOpen(s, X, T2)
       /\ X[curDW] = Needs(Top(s), X, T2)
  <2>1. /\ s \in Seq(Frames(n, o, k)) /\ Linked(s, call, X, T2) /\ AllOpen(s, X, T2)
        /\ Top(s) = Closure(destroy, curDW)
    BY <1>2, <1>15, <1>16, <1>17, <1>18, PushLinked
  <2> QED
    BY <2>1, <1>18
<1>20. ~Changes(thunk)
  BY <1>8 DEF Changes
<1> HIDE DEF s
<1>21. InContext(call', stack', Now', X, T2)
  BY <1>1, <1>2, <1>4, <1>8, <1>9, <1>13, <1>19, <1>20, HandlersContext
<1> QED
  BY <1>12, <1>14, <1>21 DEF ContextOf, T2, O

LEMMA UserManagedContext ==
  ASSUME IInv, NEW X, ContextOf(X), UserManaged PROVE ContextOf(X)'
<1>1. /\ IsObjectThunk(User("before")) /\ User("before").fn = "User"
      /\ IsObjectThunk(User("after")) /\ User("after").fn = "User"
  BY DEF IsObjectThunk, User
<1>2. /\ Calling("User") /\ UNCHANGED <<curDW, winds, conts, handlers, env>>
      /\ ManagedObjectWind(Here, User("before"), User("after"))
  BY DEF UserManaged, Use
<1> QED
  BY <1>1, <1>2, ManagedContext

LEMMA UserWithEnvContext ==
  ASSUME IInv, NEW X, ContextOf(X), UserWithEnv PROVE ContextOf(X)'
<1>1. /\ IsObjectThunk(SetEnv(Len(objs) + 1)) /\ IsObjectThunk(SetEnv(env))
      /\ SetEnv(Len(objs) + 1).e = Len(objs) + 1
      /\ SetEnv(env).fn = "SetEnv" /\ SetEnv(env).e = env
  BY DEF IsObjectThunk, SetEnv
<1>2. /\ Calling("User") /\ UNCHANGED <<curDW, winds, conts, handlers, env>>
      /\ ManagedObjectWind(Here, SetEnv(Len(objs) + 1), SetEnv(env))
  BY DEF UserWithEnv, Use
<1> QED
  BY <1>1, <1>2, ManagedContext

-----------------------------------------------------------------------------
(* The context of an extent is what the windings around it install *)

\* ch lists the windings around each extent, the innermost first.
IsChain(ch, W) ==
  ch = [w \in 0..Len(W) |-> IF w = 0 THEN <<>> ELSE <<w>> \o ch[W[w].parent]]

\* The first element of c that is in P has the value y in G.
FirstGives(c, P, G, default, y) ==
  LET found == {i \in DOMAIN c : c[i] \in P}
  IN \/ found = {} /\ y = default
     \/ \E i \in found : (\A j \in found : i <= j) /\ y = G[c[i]]

SettingHandlers(W) == {w \in 1..Len(W) : W[w].before.fn = "SetHandlers"}
HandlersOf(W) == [w \in 1..Len(W) |-> W[w].before.hs]

SettingEnv(W, T) == {w \in 1..Len(W) :
  W[w].before.fn = "SafeBefore" /\ T[W[w].before.o].before.fn = "SetEnv"}
EnvOf(W) == [w \in 1..Len(W) |-> W[w].before.o]

\* The windings c give the context x.
Installs(c, W, T, x) ==
  /\ FirstGives(c, SettingHandlers(W), HandlersOf(W), <<>>, x.hs)
  /\ FirstGives(c, SettingEnv(W, T), EnvOf(W), 0, x.env)

ChainsInstall(X, W, T) ==
  /\ \E ch : IsChain(ch, W)
  /\ \A ch : IsChain(ch, W) => \A w \in 0..Len(W) :
       ch[w] \in Seq(1..Len(W)) /\ Installs(ch[w], W, T, X[w])

LEMMA FirstSame ==
  ASSUME NEW S, NEW c \in Seq(S), NEW P, NEW P2, NEW G, NEW G2, NEW default, NEW y,
         \A w \in S : (w \in P <=> w \in P2) /\ G[w] = G2[w],
         FirstGives(c, P, G, default, y)
  PROVE  FirstGives(c, P2, G2, default, y)
<1>1. \A i \in DOMAIN c : c[i] \in S
  BY ElementOfSeq, LenProperties
<1>2. {i \in DOMAIN c : c[i] \in P} = {i \in DOMAIN c : c[i] \in P2}
  BY <1>1
<1> QED
  BY <1>1, <1>2 DEF FirstGives

LEMMA FirstOfMore ==
  ASSUME NEW S, NEW c \in Seq(S), NEW w \in S, NEW P, NEW G, NEW default, NEW y,
         FirstGives(c, P, G, default, y)
  PROVE  FirstGives(<<w>> \o c, P, G, default, IF w \in P THEN G[w] ELSE y)
<1> DEFINE t == <<w>> \o c
           n == Len(c)
           found == {i \in DOMAIN c : c[i] \in P}
           more == {i \in DOMAIN t : t[i] \in P}
           z == IF w \in P THEN G[w] ELSE y
<1>1. n \in Nat /\ DOMAIN c = 1..n
  BY LenProperties
<1>2. /\ DOMAIN t = 1..(n + 1) /\ t[1] = w
      /\ \A i \in 1..n : t[i + 1] = c[i]
  <2>1. <<w>> \in Seq(S) /\ Len(<<w>>) = 1 /\ <<w>>[1] = w
    OBVIOUS
  <2> DEFINE u == <<w>>
  <2> HIDE DEF u, n
  <2>2. u \in Seq(S) /\ Len(u) = 1 /\ u[1] = w
    BY <2>1 DEF u
  <2>3. /\ u \o c \in Seq(S) /\ Len(u \o c) = Len(u) + Len(c)
        /\ \A i \in 1..(Len(u) + Len(c)) :
             (u \o c)[i] = IF i <= Len(u) THEN u[i] ELSE c[i - Len(u)]
    BY <2>2, ConcatProperties
  <2>4. DOMAIN (u \o c) = 1..(1 + n)
    BY <2>2, <2>3, LenProperties DEF n
  <2>5. \A i \in 1..(1 + n) : (u \o c)[i] = IF i <= 1 THEN u[i] ELSE c[i - 1]
    BY <2>2, <2>3 DEF n
  <2>6. (u \o c)[1] = w
    BY <2>2, <2>5, <1>1
  <2>7. ASSUME NEW i \in 1..n
        PROVE  (u \o c)[i + 1] = c[i]
    <3>1. i + 1 \in 1..(1 + n) /\ ~(i + 1 <= 1) /\ (i + 1) - 1 = i
      BY <1>1
    <3> QED
      BY <3>1, <2>5
  <2>8. 1..(1 + n) = 1..(n + 1)
    BY <1>1
  <2> QED
    BY <2>4, <2>6, <2>7, <2>8 DEF u
<1>3. (found = {} /\ y = default) \/ \E i \in found : (\A j \in found : i <= j) /\ y = G[c[i]]
  BY DEF FirstGives
<1>4. SUFFICES (more = {} /\ z = default)
                 \/ \E i \in more : (\A j \in more : i <= j) /\ z = G[t[i]]
  BY DEF FirstGives
<1> HIDE DEF t, n
<1>5. CASE w \in P
  <2>1. 1 \in more /\ \A j \in more : 1 <= j
    BY <1>1, <1>2, <1>5
  <2>2. z = G[t[1]]
    BY <1>2, <1>5
  <2> QED
    BY <2>1, <2>2
<1>6. CASE w \notin P
  <2>1. \A i \in 1..n : i + 1 \in 1..(n + 1)
    BY <1>1
  <2>2. \A i \in found : i + 1 \in more
    BY <2>1, <1>1, <1>2
  <2>3. ASSUME NEW j \in more
        PROVE  j - 1 \in found /\ (j - 1) + 1 = j
    <3>1. j \in 1..(n + 1) /\ j # 1 /\ t[j] \in P
      BY <1>2, <1>6
    <3>2. j - 1 \in 1..n /\ (j - 1) + 1 = j
      BY <3>1, <1>1
    <3> QED
      BY <3>1, <3>2, <1>1, <1>2
  <2>4. CASE found = {}
    BY <2>3, <2>4, <1>3, <1>6
  <2>5. ASSUME NEW i \in found, \A j \in found : i <= j, y = G[c[i]]
        PROVE  \E e \in more : (\A j \in more : e <= j) /\ z = G[t[e]]
    <3>1. i + 1 \in more /\ t[i + 1] = c[i]
      BY <2>2, <1>1, <1>2
    <3>2. ASSUME NEW j \in more
          PROVE  i + 1 <= j
      <4>1. i <= j - 1 /\ i \in 1..n /\ j \in 1..(n + 1)
        BY <2>3, <2>5, <1>1, <1>2
      <4> QED
        BY <4>1, <1>1
    <3>3. z = G[t[i + 1]]
      BY <3>1, <2>5, <1>6
    <3> QED
      BY <3>1, <3>2, <3>3
  <2> QED
    BY <2>4, <2>5, <1>3
<1> QED
  BY <1>5, <1>6

LEMMA InstallsMore ==
  ASSUME NEW n \in Nat, NEW c \in Seq(1..n), NEW w, w = n + 1,
         NEW m \in Nat, NEW W, Len(W) = n, W \in Seq(Windings(n, m)),
         NEW W2, Len(W2) = w, \A i \in 1..n : W2[i] = W[i],
         NEW T, NEW x, Installs(c, W, T, x), IsBefore(W2[w].before), ObjectsSetEnv(T),
         W2[w].before.fn = "SafeBefore" => W2[w].before.o \in DOMAIN T
  PROVE  /\ Installs(c, W2, T, x)
         /\ Installs(<<w>> \o c, W2, T, Effect(W2[w].before, T, x))
<1> DEFINE p == W2[w].before
           H == SettingHandlers(W2)
           E == SettingEnv(W2, T)
           y == Effect(p, T, x)
<1>1. /\ \A i \in 1..n : i \in 1..w
      /\ w \in 1..w
  OBVIOUS
<1>2. /\ FirstGives(c, SettingHandlers(W), HandlersOf(W), <<>>, x.hs)
      /\ FirstGives(c, SettingEnv(W, T), EnvOf(W), 0, x.env)
  BY DEF Installs
<1>3. \A i \in 1..n : /\ i \in SettingHandlers(W) <=> i \in H
                      /\ HandlersOf(W)[i] = HandlersOf(W2)[i]
  BY <1>1 DEF SettingHandlers, HandlersOf
<1>4. \A i \in 1..n : /\ i \in SettingEnv(W, T) <=> i \in E
                      /\ EnvOf(W)[i] = EnvOf(W2)[i]
  BY <1>1 DEF SettingEnv, EnvOf
<1> HIDE DEF H, E
<1>5. /\ FirstGives(c, H, HandlersOf(W2), <<>>, x.hs)
      /\ FirstGives(c, E, EnvOf(W2), 0, x.env)
  <2>1. FirstGives(c, H, HandlersOf(W2), <<>>, x.hs)
    BY <1>2, <1>3, FirstSame
  <2>2. FirstGives(c, E, EnvOf(W2), 0, x.env)
    BY <1>2, <1>4, FirstSame
  <2> QED
    BY <2>1, <2>2
<1>6. c \in Seq(1..w)
  BY <1>1, SeqMonotonic
<1>7. /\ FirstGives(<<w>> \o c, H, HandlersOf(W2), <<>>,
                    IF w \in H THEN HandlersOf(W2)[w] ELSE x.hs)
      /\ FirstGives(<<w>> \o c, E, EnvOf(W2), 0, IF w \in E THEN EnvOf(W2)[w] ELSE x.env)
  BY <1>1, <1>5, <1>6, FirstOfMore
<1>8. y.hs = IF w \in H THEN HandlersOf(W2)[w] ELSE x.hs
  <2>1. y.hs = IF p.fn = "SetHandlers" THEN p.hs ELSE x.hs
    BY DEF Effect
  <2>2. (w \in H <=> p.fn = "SetHandlers") /\ HandlersOf(W2)[w] = p.hs
    BY <1>1 DEF H, SettingHandlers, HandlersOf
  <2> QED
    BY <2>1, <2>2
<1>9. y.env = IF w \in E THEN EnvOf(W2)[w] ELSE x.env
  <2>1. y.env = IF Inner(p, T).fn = "SetEnv" THEN Inner(p, T).e ELSE x.env
    BY DEF Effect
  <2>2. /\ w \in E <=> p.fn = "SafeBefore" /\ T[p.o].before.fn = "SetEnv"
        /\ EnvOf(W2)[w] = p.o
    BY <1>1 DEF E, SettingEnv, EnvOf
  <2>3. CASE p.fn = "SafeBefore"
    <3>1. Inner(p, T) = T[p.o].before
      BY <2>3 DEF Inner
    <3>2. T[p.o].before.fn = "SetEnv" => T[p.o].before.e = p.o
      BY <2>3 DEF ObjectsSetEnv
    <3> QED
      BY <2>1, <2>2, <2>3, <3>1, <3>2
  <2>4. CASE p.fn # "SafeBefore"
    <3>1. Inner(p, T) = p /\ p.fn # "SetEnv"
      BY <2>4 DEF IsBefore, Inner
    <3> QED
      BY <2>1, <2>2, <2>4, <3>1
  <2> QED
    BY <2>3, <2>4
<1> HIDE DEF y, p
<1>10. Installs(<<w>> \o c, W2, T, y)
  BY <1>7, <1>8, <1>9 DEF Installs, H, E
<1> QED
  BY <1>5, <1>10 DEF Installs, H, E, y, p

\* A winding is added under one there is.
LEMMA ChainsGrow ==
  ASSUME NEW n \in Nat, NEW m \in Nat, NEW W, Len(W) = n, W \in Seq(Windings(n, m)),
         NEW W2, Len(W2) = n + 1, \A i \in 1..n : W2[i] = W[i],
         W2[n + 1].parent \in 0..n,
         NEW X, NEW X2, \A w \in 0..n : X2[w] = X[w],
         NEW T, DOMAIN T = 1..m, ObjectsSetEnv(T),
         W2[n + 1].before \in Thunks(m), IsBefore(W2[n + 1].before),
         X2[n + 1] = Effect(W2[n + 1].before, T, X2[W2[n + 1].parent]),
         ChainsInstall(X, W, T)
  PROVE  ChainsInstall(X2, W2, T)
<1> DEFINE e == n + 1
           d == W2[e].parent
<1>1. \A w \in 1..n : W[w].parent \in 0..n /\ w \in 0..n /\ w # 0 /\ w \in 0..e /\ w # e
  <2>1. \A w \in 1..n : W[w] \in Windings(n, m)
    BY ElementOfSeq
  <2> QED
    BY <2>1 DEF Windings
<1>2. /\ 0 \in 0..n /\ 0 \in 0..e /\ e \in 0..e /\ e # 0 /\ 0 # e
      /\ \A w \in 0..e : w = e \/ w = 0 \/ w \in 1..n
      /\ \A w \in 0..n : w # e /\ w \in 0..e /\ (w = 0 \/ w \in 1..n)
  OBVIOUS
<1>3. Len(W2) = e /\ d \in 0..n
  OBVIOUS
<1> HIDE DEF e
<1>4. \E ch : IsChain(ch, W2)
  <2>1. PICK ch : IsChain(ch, W)
    BY DEF ChainsInstall
  <2>2. /\ ch[0] = <<>>
        /\ \A w \in 1..n : ch[w] = <<w>> \o ch[W[w].parent]
    BY <2>1, <1>1, <1>2 DEF IsChain
  <2>3. PICK c2 : c2 = [w \in 0..e |-> IF w = e THEN <<e>> \o ch[d] ELSE ch[w]]
    OBVIOUS
  <2>4. c2[e] = <<e>> \o ch[d] /\ \A w \in 0..n : c2[w] = ch[w]
    BY <2>3, <1>2
  <2>5. ASSUME NEW w \in 0..e
        PROVE  c2[w] = IF w = 0 THEN <<>> ELSE <<w>> \o c2[W2[w].parent]
    <3>1. CASE w = e
      BY <3>1, <2>4, <1>2, <1>3
    <3>2. CASE w = 0
      BY <3>2, <2>2, <2>4, <1>2
    <3>3. CASE w \in 1..n
      <4>1. W2[w].parent = W[w].parent /\ c2[w] = ch[w] /\ c2[W[w].parent] = ch[W[w].parent]
        BY <3>3, <2>4, <1>1
      <4> QED
        BY <3>3, <4>1, <2>2, <1>1
    <3> QED
      BY <3>1, <3>2, <3>3, <1>2
  <2>6. DOMAIN c2 = 0..e /\ c2 = [w \in DOMAIN c2 |-> c2[w]]
    BY <2>3
  <2>7. c2 = [w \in 0..e |-> IF w = 0 THEN <<>> ELSE <<w>> \o c2[W2[w].parent]]
    BY <2>5, <2>6
  <2> QED
    BY <2>7, <1>3 DEF IsChain
<1>5. ASSUME NEW c2, IsChain(c2, W2), NEW w \in 0..e
      PROVE  c2[w] \in Seq(1..e) /\ Installs(c2[w], W2, T, X2[w])
  <2>1. /\ c2[0] = <<>> /\ c2[e] = <<e>> \o c2[d]
        /\ \A i \in 1..n : c2[i] = <<i>> \o c2[W[i].parent]
    BY <1>5, <1>1, <1>2, <1>3 DEF IsChain
  <2>2. PICK ch : ch = [i \in 0..n |-> c2[i]]
    OBVIOUS
  <2>3. ASSUME NEW i \in 0..n
        PROVE  ch[i] = IF i = 0 THEN <<>> ELSE <<i>> \o ch[W[i].parent]
    <3>1. CASE i = 0
      BY <3>1, <2>1, <2>2
    <3>2. CASE i \in 1..n
      BY <3>2, <2>1, <2>2, <1>1
    <3> QED
      BY <3>1, <3>2, <1>2
  <2>4. DOMAIN ch = 0..n /\ ch = [i \in DOMAIN ch |-> ch[i]]
    BY <2>2
  <2>5. IsChain(ch, W)
    BY <2>3, <2>4 DEF IsChain
  <2>6. \A i \in 0..n : c2[i] \in Seq(1..n) /\ Installs(c2[i], W, T, X2[i])
    <3>1. \A i \in 0..n : ch[i] \in Seq(1..n) /\ Installs(ch[i], W, T, X[i])
      BY <2>5 DEF ChainsInstall
    <3>2. \A i \in 0..n : ch[i] = c2[i] /\ X[i] = X2[i]
      BY <2>2
    <3> QED
      BY <3>1, <3>2
  <2>7. W2[e].before.fn = "SafeBefore" => W2[e].before.o \in DOMAIN T
    BY Captures DEF Pending, e
  <2>8. \A i \in 0..n : /\ Installs(c2[i], W2, T, X2[i])
                        /\ Installs(<<e>> \o c2[i], W2, T, Effect(W2[e].before, T, X2[i]))
    BY <2>6, <2>7, InstallsMore DEF e
  <2>9. CASE w = e
    <3>1. Installs(c2[e], W2, T, X2[e])
      BY <2>1, <2>8, <1>3 DEF e
    <3>2. c2[e] \in Seq(1..e)
      <4>1. c2[d] \in Seq(1..n)
        BY <2>6, <1>3
      <4>2. c2[d] \in Seq(1..e)
        BY <4>1, <1>1, SeqMonotonic DEF e
      <4>3. <<e>> \in Seq(1..e)
        BY DEF e
      <4> HIDE DEF d
      <4>4. <<e>> \o c2[d] \in Seq(1..e)
        BY <4>2, <4>3, ConcatProperties
      <4> QED
        BY <4>4, <2>1
    <3> QED
      BY <2>9, <3>1, <3>2
  <2>10. CASE w \in 0..n
    <3>1. c2[w] \in Seq(1..n)
      BY <2>6, <2>10
    <3>2. c2[w] \in Seq(1..e)
      BY <3>1, SeqMonotonic DEF e
    <3> QED
      BY <2>8, <2>10, <3>2
  <2> QED
    BY <2>9, <2>10, <1>1, <1>2
<1> QED
  BY <1>3, <1>4, <1>5 DEF ChainsInstall

\* An object is added: the windings there are do not refer to it.
LEMMA ChainsSame ==
  ASSUME NEW m \in Nat, NEW W, Len(W) \in Nat, W \in Seq(Windings(Len(W), m)),
         NEW X, NEW T, NEW T2, \A o \in 1..m : T2[o] = T[o],
         ChainsInstall(X, W, T)
  PROVE  ChainsInstall(X, W, T2)
<1>1. \A w \in 1..Len(W) : (w \in SettingEnv(W, T) <=> w \in SettingEnv(W, T2))
  <2> SUFFICES ASSUME NEW w \in 1..Len(W)
               PROVE  w \in SettingEnv(W, T) <=> w \in SettingEnv(W, T2)
    OBVIOUS
  <2>1. W[w].before \in Thunks(m)
    <3>1. W[w] \in Windings(Len(W), m)
      BY ElementOfSeq
    <3> QED
      BY <3>1 DEF Windings
  <2>2. W[w].before.fn = "SafeBefore" => W[w].before.o \in 1..m
    BY <2>1, Captures DEF Pending
  <2> QED
    BY <2>2 DEF SettingEnv
<1>2. \A c \in Seq(1..Len(W)) : \A x : Installs(c, W, T, x) => Installs(c, W, T2, x)
  BY <1>1, FirstSame DEF Installs
<1> QED
  BY <1>2 DEF ChainsInstall

-----------------------------------------------------------------------------
(* The invariant holds initially and every step keeps it *)

\* The inductive invariant: some X gives each extent its context, the one the
\* windings around it install.
ContextInv == IInv /\ \E X : ContextOf(X) /\ ChainsInstall(X, winds, T0)

LEMMA InitContext == Init => ContextInv
<1> SUFFICES ASSUME Init PROVE ContextInv
  OBVIOUS
<1>1. Len(winds) = 0 /\ Len(objs) = 0 /\ Len(conts) = 0 /\ Len(stack) = 0 /\ stack = <<>>
  BY EmptySeq DEF Init
<1>2. PICK X : X = [w \in {0} |-> Base]
  OBVIOUS
<1>3. X[0] = Base /\ Now = Base
  BY <1>2 DEF Init, Now, Base
<1>4. WindsRestore(winds, X, T0) /\ SavedLinked(conts, X, T0)
  BY <1>1, <1>3 DEF WindsRestore, SavedLinked
<1>5. ObjectsSetEnv(T0)
  <2>1. DOMAIN T0 = {}
    BY DEF Init, T0, ThunksOf
  <2> QED
    BY <2>1 DEF ObjectsSetEnv
<1>6. InContext(call, stack, Now, X, T0)
  <2>1. Linked(stack, call, X, T0) /\ AllOpen(stack, X, T0)
    BY <1>1 DEF Linked, AllOpen
  <2>2. CallFits(call, Top(stack), Now, X, T0)
    BY <1>1, <1>3 DEF Init, Top, Bottom, Closure, CallFits, Changes, Needs, Fits, LeadsTo, Opens
  <2> QED
    BY <2>1, <2>2 DEF InContext
<1>7. ContextOf(X)
  BY <1>4, <1>5, <1>6 DEF ContextOf, T0
<1>8. ChainsInstall(X, winds, T0)
  <2>1. 0..Len(winds) = {0}
    BY <1>1
  <2>2. \A c : Len(c) = 0 /\ c = <<>> => /\ c \in Seq(1..Len(winds)) /\ DOMAIN c = {}
    OBVIOUS
  <2>3. PICK ch : ch = [w \in {0} |-> <<>>]
    OBVIOUS
  <2>4. IsChain(ch, winds)
    BY <2>1, <2>3 DEF IsChain
  <2>5. ASSUME NEW c2, IsChain(c2, winds)
        PROVE  c2[0] \in Seq(1..Len(winds)) /\ Installs(c2[0], winds, T0, X[0])
    <3>1. c2[0] = <<>>
      BY <2>1, <2>5 DEF IsChain
    <3>2. c2[0] \in Seq(1..Len(winds)) /\ DOMAIN c2[0] = {}
      BY <3>1, EmptySeq, LenProperties
    <3> QED
      BY <3>2, <1>3 DEF Installs, FirstGives, Base
  <2> QED
    BY <2>1, <2>4, <2>5 DEF ChainsInstall
<1> QED
  BY <1>7, <1>8, InitIInv DEF ContextInv

\* Every step but the opening of a winding keeps the context of each extent.
LEMMA StepContext ==
  ASSUME IInv, NEW X, ContextOf(X), [Next]_vars, ~WindBody
  PROVE  ContextOf(X)'
<1>1. CASE WindStep
  BY <1>1, WindExitContext, ForwardContext DEF WindStep
<1>2. CASE TraverseStep
  BY <1>2, TraverseArriveContext, TraverseDownContext, TraverseUpContext, ContinueUpContext,
     EnterWindContext, SetDWContext DEF TraverseStep
<1>3. CASE EscapeStep
  BY <1>3, CallEscapeContext, RestoreContext DEF EscapeStep
<1>4. CASE RaiseStep
  BY <1>4, CallSetHandlersContext, RaiseUncaughtContext, RaiseToHandlerContext,
     CallHandlerThunkContext, RaiseAgainContext DEF RaiseStep
<1>5. CASE ObjectStep
  BY <1>5, ErrorThunkContext, SafeBeforeContext, SafeAfterContext, ErrorHandlerContext,
     ClearMarkContext, DestroyContext, DestroyAgainContext, CallSetEnvContext DEF ObjectStep
<1>6. CASE UserStep
  BY <1>6, UserReturnContext, UserWindContext, UserCallCCContext, UserThrowContext,
     UserRaiseContext, UserRaiseContinuableContext, UserHandlerContext,
     UserManagedContext, UserWithEnvContext DEF UserStep
<1>7. CASE HostCall
  BY <1>7, HostCallContext
<1>8. CASE UNCHANGED vars
  BY <1>8 DEF vars, ContextOf, Now
<1> QED
  BY <1>1, <1>2, <1>3, <1>4, <1>5, <1>6, <1>7, <1>8 DEF Next, Turn

\* Only WindBody adds a winding.
LEMMA WindsKept ==
  ASSUME [Next]_vars, ~WindBody
  PROVE  winds' = winds
<1>1. CASE WindStep \/ TraverseStep \/ EscapeStep \/ RaiseStep \/ HostCall
  BY <1>1 DEF WindStep, WindExit, Forward, TraverseStep, TraverseArrive, TraverseDown, TraverseUp,
     ContinueUp, EnterWind, SetDW, EscapeStep, CallEscape, Restore, RaiseStep, CallSetHandlers,
     RaiseUncaught, RaiseToHandler, CallHandlerThunk, RaiseAgain, HostCall
<1>2. CASE ObjectStep
  BY <1>2 DEF ObjectStep, ErrorThunk, SafeBefore, SafeAfter, ErrorHandler, ClearMark, Destroy,
     DestroyAgain, CallSetEnv
<1>3. CASE UserStep
  BY <1>3 DEF UserStep, UserReturn, UserWind, UserCallCC, UserThrow, UserRaise,
     UserRaiseContinuable, UserHandler, UserManaged, UserWithEnv, Use
<1>4. CASE UNCHANGED vars
  BY <1>4 DEF vars
<1> QED
  BY <1>1, <1>2, <1>3, <1>4 DEF Next, Turn

\* Objects keep their thunks.
LEMMA ThunksGrow ==
  ASSUME IInv, [Next]_vars
  PROVE  \A o \in 1..Len(objs) : T0'[o] = T0[o]
<1>1. objs \in Seq(Objects(Len(objs))) /\ DOMAIN objs = 1..Len(objs) /\ Len(objs) \in Nat
  BY Parts, LenProperties DEF Data
<1>2. CASE UNCHANGED objs
  BY <1>2 DEF T0
<1>3. ASSUME NEW o, NEW b,
             objs' = [objs EXCEPT ![o].alive = b] \/ objs' = [objs EXCEPT ![o].isError = b]
      PROVE  T0' = T0
  <2>1. \/ ThunksOf(objs') = ThunksOf([objs EXCEPT ![o].alive = b])
        \/ ThunksOf(objs') = ThunksOf([objs EXCEPT ![o].isError = b])
    BY <1>3
  <2>2. /\ ThunksOf([objs EXCEPT ![o].alive = b]) = T0
        /\ ThunksOf([objs EXCEPT ![o].isError = b]) = T0
    BY <1>1, ThunksKept
  <2> QED
    BY <2>1, <2>2 DEF T0
<1>4. ASSUME NEW before, NEW after, ManagedObjectWind(Here, before, after),
             NEW i \in 1..Len(objs)
      PROVE  T0'[i] = T0[i]
  <2> DEFINE obj == [alive |-> TRUE, isError |-> FALSE, before |-> before, after |-> after]
             O == objs'
             m == Len(objs)
  <2>1. O = Append(objs, obj)
    BY <1>4 DEF ManagedObjectWind
  <2> HIDE DEF obj, O
  <2>2. objs \in Seq(Objects(m) \cup {obj})
    BY <1>1, SeqMonotonic
  <2> HIDE DEF m
  <2>3. O \in Seq(Objects(m) \cup {obj}) /\ Len(O) = m + 1 /\ O[i] = objs[i]
    BY <2>1, <2>2, AppendProperties DEF m
  <2>4. i \in DOMAIN O
    BY <2>3, <1>1, LenProperties DEF m
  <2> QED
    BY <2>3, <2>4, <1>1 DEF T0, ThunksOf, O
<1>5. CASE WindStep \/ TraverseStep \/ EscapeStep \/ RaiseStep \/ HostCall
  <2>1. UNCHANGED objs
    BY <1>5 DEF WindStep, WindBody, WindExit, Forward, TraverseStep, TraverseArrive, TraverseDown,
     TraverseUp, ContinueUp, EnterWind, SetDW, EscapeStep, CallEscape, Restore, RaiseStep,
     CallSetHandlers, RaiseUncaught, RaiseToHandler, CallHandlerThunk, RaiseAgain, HostCall
  <2> QED
    BY <2>1, <1>2
<1>6. CASE ObjectStep
  <2>1. CASE ErrorHandler
    BY <2>1, <1>3 DEF ErrorHandler
  <2>2. CASE ClearMark
    BY <2>2, <1>3 DEF ClearMark
  <2>3. CASE Destroy
    BY <2>3, <1>3 DEF Destroy
  <2>4. CASE ErrorThunk \/ SafeBefore \/ SafeAfter \/ DestroyAgain \/ CallSetEnv
    BY <2>4, <1>2 DEF ErrorThunk, SafeBefore, SafeAfter, DestroyAgain, CallSetEnv
  <2> QED
    BY <2>1, <2>2, <2>3, <2>4, <1>6 DEF ObjectStep
<1>7. CASE UserStep
  <2>1. CASE UserManaged
    BY <2>1, <1>4 DEF UserManaged
  <2>2. CASE UserWithEnv
    BY <2>2, <1>4 DEF UserWithEnv
  <2>3. CASE ~UserManaged /\ ~UserWithEnv
    <3>1. UNCHANGED objs
      BY <2>3, <1>7 DEF UserStep, UserReturn, UserWind, UserCallCC, UserThrow, UserRaise,
         UserRaiseContinuable, UserHandler
    <3> QED
      BY <3>1, <1>2
  <2> QED
    BY <2>1, <2>2, <2>3
<1>8. CASE UNCHANGED vars
  BY <1>8, <1>2 DEF vars
<1> QED
  BY <1>5, <1>6, <1>7, <1>8 DEF Next, Turn

\* The new winding installs what its Before thunk did.
LEMMA ChainsOfWindBody ==
  ASSUME IInv, NEW X, ContextOf(X), ChainsInstall(X, winds, T0), WindBody,
         NEW X2, \A w \in 0..Len(winds) : X2[w] = X[w], ContextOf(X2)'
  PROVE  ChainsInstall(X2, winds', T0')
<1> DEFINE n == Len(winds)
           m == Len(objs)
           W == winds'
           T == T0
           wind == [depth |-> Depth(curDW) + 1, parent |-> curDW,
                    before |-> call.run.before, after |-> call.run.after]
<1>1. /\ n \in Nat /\ m \in Nat /\ Len(conts) \in Nat /\ curDW \in 0..n
      /\ winds \in Seq(Windings(n, m)) /\ call.run \in Pending(n, m, Len(conts))
      /\ objs \in Seq(Objects(m))
  BY Parts DEF Data
<1>2. call.run.before \in Thunks(m)
  BY <1>1, Captures DEF WindBody, Calling
<1>3. W = Append(winds, wind) /\ T0' = T
  BY DEF WindBody, T0
<1>4. wind.parent = curDW /\ wind.before = call.run.before
  OBVIOUS
<1>5. DOMAIN T = 1..m /\ ObjectsSetEnv(T)
  BY <1>1, Given, LenProperties DEF T0, ThunksOf
<1>6. WindsRestore(W, X2, T)
  BY <1>3 DEF ContextOf, T0
<1> HIDE DEF n, m, W, T, wind
<1>7. Len(W) = n + 1 /\ (\A w \in 1..n : W[w] = winds[w]) /\ W[n + 1] = wind
  <2>1. winds \in Seq(Windings(n, m) \cup {wind})
    BY <1>1, SeqMonotonic
  <2> QED
    BY <2>1, <1>3, AppendProperties DEF n
<1>8. W[n + 1].parent \in 0..n /\ W[n + 1].before \in Thunks(m)
  BY <1>1, <1>2, <1>4, <1>7
<1>9. IsBefore(W[n + 1].before) /\ X2[n + 1] = Effect(W[n + 1].before, T, X2[W[n + 1].parent])
  <2>1. n + 1 \in 1..Len(W)
    BY <1>1, <1>7
  <2> QED
    BY <2>1, <1>6 DEF WindsRestore
<1>10. ChainsInstall(X, winds, T) /\ Len(winds) = n /\ \A w \in 0..n : X2[w] = X[w]
  BY DEF n, T
<1>11. ChainsInstall(X2, W, T)
  BY <1>1, <1>5, <1>7, <1>8, <1>9, <1>10, ChainsGrow
<1> QED
  BY <1>3, <1>11 DEF W

LEMMA NextContext == ContextInv /\ [Next]_vars => ContextInv'
<1> SUFFICES ASSUME ContextInv, [Next]_vars PROVE ContextInv'
  OBVIOUS
<1>1. PICK X : ContextOf(X) /\ ChainsInstall(X, winds, T0)
  BY DEF ContextInv
<1>2. IInv /\ IInv'
  BY NextIInv DEF ContextInv
<1>3. CASE WindBody
  <2>1. PICK X2 : (\A w \in 0..Len(winds) : X2[w] = X[w]) /\ ContextOf(X2)'
    BY <1>1, <1>2, <1>3, WindBodyContext
  <2>2. ChainsInstall(X2, winds', T0')
    BY <1>1, <1>2, <1>3, <2>1, ChainsOfWindBody
  <2> QED
    BY <1>2, <2>1, <2>2 DEF ContextInv
<1>4. CASE ~WindBody
  <2>1. ContextOf(X)'
    BY <1>1, <1>2, <1>4, StepContext
  <2>2. winds' = winds
    BY <1>4, WindsKept
  <2>3. ChainsInstall(X, winds, T0')
    <3>1. winds \in Seq(Windings(Len(winds), Len(objs))) /\ Len(winds) \in Nat /\ Len(objs) \in Nat
      BY <1>2, Parts DEF Data
    <3>2. \A o \in 1..Len(objs) : T0'[o] = T0[o]
      BY <1>2, ThunksGrow
    <3> DEFINE T2 == T0'
               m == Len(objs)
    <3> HIDE DEF T2, m
    <3>3. ChainsInstall(X, winds, T2)
      BY <3>1, <3>2, <1>1, ChainsSame DEF T2, m
    <3> QED
      BY <3>3 DEF T2
  <2> QED
    BY <1>2, <2>1, <2>2, <2>3 DEF ContextInv
<1> QED
  BY <1>3, <1>4

\* The inductive invariant of the context.
THEOREM ContextInvariant == Spec => []ContextInv
BY InitContext, NextContext, PTL DEF Spec

-----------------------------------------------------------------------------
(* What follows *)

\* Nothing is left when the loop has ended, also after an uncaught error: the
\* windings are left, the stack is empty, no handler and no environment is set.
THEOREM Unwound == Spec => []UnwoundAtEnd
<1>1. ContextInv => UnwoundAtEnd
  <2> SUFFICES ASSUME ContextInv, Halted
               PROVE  curDW = bottomDW /\ stack = <<>> /\ handlers = <<>> /\ env = 0
    BY DEF UnwoundAtEnd
  <2>1. PICK X : ContextOf(X)
    BY DEF ContextInv
  <2>2. IInv /\ call.run.fn = "Bottom"
    BY DEF ContextInv, Halted, Calling
  <2>3. stack = <<>> /\ bottomDW = 0 /\ call.at = curDW
    BY <2>2 DEF IInv, Halted, Calling
  <2>4. curDW = 0
    BY <2>2, <2>3 DEF IInv, Above, LeadsTo, Top, Bottom, Closure
  <2>5. Now = X[curDW] /\ X[0] = Base
    BY <2>1, <2>2, Given DEF Quiet, Changes, WindsRestore
  <2> QED
    BY <2>3, <2>4, <2>5 DEF Now, Base
<1> QED
  BY <1>1, ContextInvariant, PTL

\* Around is the chain of the current extent, and while user code runs it
\* installs the context there is.
LEMMA AroundInstalls ==
  ASSUME ContextInv, InUserCode
  PROVE  Around \in Seq(1..Len(winds)) /\ Installs(Around, winds, T0, Now)
<1>1. PICK X : ContextOf(X) /\ ChainsInstall(X, winds, T0)
  BY DEF ContextInv
<1>2. Now = X[curDW] /\ curDW \in 0..Len(winds)
  BY <1>1, HereContext, Parts DEF ContextInv, InUserCode
<1> DEFINE ch == CHOOSE c : c = [w \in 0..Len(winds) |->
                     IF w = 0 THEN <<>> ELSE <<w>> \o c[winds[w].parent]]
<1>3. IsChain(ch, winds)
  <2>1. PICK c : c = [w \in 0..Len(winds) |->
                        IF w = 0 THEN <<>> ELSE <<w>> \o c[winds[w].parent]]
    BY <1>1 DEF ChainsInstall, IsChain
  <2> QED
    BY <2>1 DEF IsChain
<1>4. Around = ch[curDW]
  BY DEF Around
<1> HIDE DEF ch
<1>5. ch[curDW] \in Seq(1..Len(winds)) /\ Installs(ch[curDW], winds, T0, X[curDW])
  BY <1>1, <1>2, <1>3 DEF ChainsInstall
<1> QED
  BY <1>2, <1>4, <1>5

\* Whatever escapes, errors and re-entries came before, user code runs with the
\* exception handlers of the extent it is in.
THEOREM HandlersRestored == Spec => []HandlersOfExtent
<1>1. ContextInv => HandlersOfExtent
  <2> SUFFICES ASSUME ContextInv, InUserCode PROVE HandlersOfExtent
    BY DEF HandlersOfExtent
  <2> DEFINE A == Around
             found == {i \in DOMAIN A : InstallsHandlers(A[i])}
  <2>1. /\ A \in Seq(1..Len(winds))
        /\ FirstGives(A, SettingHandlers(winds), HandlersOf(winds), <<>>, handlers)
    BY AroundInstalls DEF Installs, Now
  <2> HIDE DEF A
  <2>2. \A i \in DOMAIN A : A[i] \in 1..Len(winds)
    BY <2>1, ElementOfSeq, LenProperties
  <2>3. found = {i \in DOMAIN A : A[i] \in SettingHandlers(winds)}
    BY <2>2 DEF SettingHandlers, InstallsHandlers
  <2>4. \A i \in DOMAIN A : HandlersOf(winds)[A[i]] = winds[A[i]].before.hs
    BY <2>2 DEF HandlersOf
  <2>5. \/ found = {} /\ handlers = <<>>
        \/ \E i \in found : (\A j \in found : i <= j) /\ handlers = winds[A[i]].before.hs
    BY <2>1, <2>3, <2>4 DEF FirstGives
  <2>6. \A i \in found : i \in Nat
    BY <2>1, LenProperties
  <2>7. handlers = IF found = {} THEN <<>>
                   ELSE winds[A[CHOOSE i \in found : \A j \in found : i <= j]].before.hs
    <3> HIDE DEF found
    <3>1. CASE found = {}
      BY <3>1, <2>5
    <3>2. CASE found # {}
      <4>1. PICK i \in found : (\A j \in found : i <= j) /\ handlers = winds[A[i]].before.hs
        BY <3>2, <2>5
      <4>2. PICK c : c = CHOOSE e \in found : \A j \in found : e <= j
        OBVIOUS
      <4>3. c \in found /\ \A j \in found : c <= j
        BY <4>1, <4>2
      <4>4. c = i
        BY <4>1, <4>3, <2>6
      <4> QED
        BY <4>1, <4>2, <4>4, <3>2
    <3> QED
      BY <3>1, <3>2
  <2> QED
    BY <2>7 DEF HandlersOfExtent, Innermost, A
<1> QED
  BY <1>1, ContextInvariant, PTL

\* And with the environment of that extent.
THEOREM EnvRestored == Spec => []EnvOfExtent
<1>1. ContextInv => EnvOfExtent
  <2> SUFFICES ASSUME ContextInv, InUserCode PROVE EnvOfExtent
    BY DEF EnvOfExtent
  <2> DEFINE A == Around
             found == {i \in DOMAIN A : InstallsEnv(A[i])}
  <2>1. /\ A \in Seq(1..Len(winds))
        /\ FirstGives(A, SettingEnv(winds, T0), EnvOf(winds), 0, env)
    BY AroundInstalls DEF Installs, Now
  <2> HIDE DEF A
  <2>2. \A i \in DOMAIN A : A[i] \in 1..Len(winds)
    BY <2>1, ElementOfSeq, LenProperties
  <2>3. \A w \in 1..Len(winds) : InstallsEnv(w) <=> w \in SettingEnv(winds, T0)
    <3> SUFFICES ASSUME NEW w \in 1..Len(winds)
                 PROVE  InstallsEnv(w) <=> w \in SettingEnv(winds, T0)
      OBVIOUS
    <3>1. /\ Data /\ Len(winds) \in Nat /\ Len(objs) \in Nat
          /\ objs \in Seq(Objects(Len(objs)))
      BY Parts DEF ContextInv, Data
    <3>2. winds[w].before.fn = "SafeBefore" => winds[w].before.o \in DOMAIN objs
      <4>1. winds[w].before \in Thunks(Len(objs))
        BY <3>1, Winding
      <4> QED
        BY <4>1, <3>1, Captures, LenProperties DEF Pending
    <3> QED
      BY <3>2 DEF InstallsEnv, IsObjectWind, Object, SettingEnv, T0, ThunksOf
  <2>4. found = {i \in DOMAIN A : A[i] \in SettingEnv(winds, T0)}
    BY <2>2, <2>3
  <2>5. \A i \in DOMAIN A : EnvOf(winds)[A[i]] = Object(A[i])
    BY <2>2 DEF EnvOf, Object
  <2>6. \/ found = {} /\ env = 0
        \/ \E i \in found : (\A j \in found : i <= j) /\ env = Object(A[i])
    BY <2>1, <2>4, <2>5 DEF FirstGives
  <2>7. \A i \in found : i \in Nat
    BY <2>1, LenProperties
  <2>8. env = IF found = {} THEN 0
              ELSE Object(A[CHOOSE i \in found : \A j \in found : i <= j])
    <3> HIDE DEF found
    <3>1. CASE found = {}
      BY <3>1, <2>6
    <3>2. CASE found # {}
      <4>1. PICK i \in found : (\A j \in found : i <= j) /\ env = Object(A[i])
        BY <3>2, <2>6
      <4>2. PICK c : c = CHOOSE e \in found : \A j \in found : e <= j
        OBVIOUS
      <4>3. c \in found /\ \A j \in found : c <= j
        BY <4>1, <4>2
      <4>4. c = i
        BY <4>1, <4>3, <2>7
      <4> QED
        BY <4>1, <4>2, <4>4, <3>2
    <3> QED
      BY <3>1, <3>2
  <2> QED
    BY <2>8 DEF EnvOfExtent, Innermost, A
<1> QED
  BY <1>1, ContextInvariant, PTL
=============================================================================
