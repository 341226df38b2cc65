-------------------------- MODULE SchirRuntimeProps --------------------------
(***************************************************************************)
(* The correctness properties of SchirRuntime.                             *)
(***************************************************************************)
EXTENDS SchirRuntime

-----------------------------------------------------------------------------
(* Types *)

\* The procedures there can be with n windings, m objects and k continuations.
Handlers(m) == [fn : {"User"}, role : Roles] \cup [fn : {"ErrorHandler"}, o : 1..m]

Thunks(m) ==
  [fn : {"User"}, role : Roles]
    \cup [fn : {"SetHandlers"}, hs : Seq(Handlers(m))]
    \cup [fn : {"SetEnv"}, e : 0..m]
    \cup [fn : {"SafeBefore", "SafeAfter", "ErrorThunk"}, o : 1..m]
    \cup [fn : {"HandlerThunk"}, h : Handlers(m), continuable : BOOLEAN]

Continuations(n, m, k) ==
  [fn : {"User"}, role : Roles]
    \cup [fn : {"WindBody"}, before : Thunks(m), thunk : Thunks(m), after : Thunks(m)]
    \cup [fn : {"WindExit"}, after : Thunks(m), prev : 0..n]
    \cup [fn : {"EnterWind", "SetDW"}, dest : 1..n]
    \cup [fn : {"ContinueUp"}, src : 1..n, dest : 0..n]
    \cup [fn : {"Restore"}, k : 1..k]
    \cup [fn : {"ClearMark", "Destroy"}, o : 1..m]
    \cup [fn : {"Forward", "RaiseAgain"}]

Pending(n, m, k) ==
  Handlers(m) \cup Thunks(m) \cup Continuations(n, m, k)
    \cup [fn : {"Traverse"}, src : 0..n, dest : 0..n]
    \cup [fn : {"Escape"}, k : 1..k]
    \cup [fn : {"Raise", "Bottom"}]

Frames(n, m, k) == [run : Continuations(n, m, k), at : 0..n]

Windings(n, m) ==
  [depth : Nat \ {0}, parent : 0..n, before : Thunks(m), after : Thunks(m)]
SavedStacks(n, m, k) == [stack : Seq(Frames(n, m, k)), dw : 0..n]
Objects(m) == [alive : BOOLEAN, isError : BOOLEAN, before : Thunks(m), after : Thunks(m)]

\* Every variable holds what its C++ counterpart can hold: captures refer to
\* windings, continuations and objects that exist, and each saved
\* continuation is a stack of frames.
TypeOK ==
  LET n == Len(winds)
      m == Len(objs)
      k == Len(conts)
  IN /\ stack \in Seq(Frames(n, m, k))
     /\ call \in [run : Pending(n, m, k), at : 0..n]
     /\ curDW \in 0..n
     /\ bottomDW \in 0..n
     /\ winds \in Seq(Windings(n, m))
     /\ handlers \in Seq(Handlers(m))
     /\ conts \in Seq(SavedStacks(n, m, k))
     /\ objs \in Seq(Objects(m))
     /\ env \in 0..m
     /\ fuel \in 0..MaxOps

-----------------------------------------------------------------------------
(* Extents *)

\* Every closure runs in the dynamic extent it belongs to: whatever escapes,
\* errors and re-entries happened in between, a continuation is resumed with
\* CurDW what it was when the continuation was pushed.
ResumedInExtent == ~Halted => call.at = curDW

\* The parent of a winding is older and one level up, so traversals that
\* compare depths meet at the common ancestor.
WindingTree == \A w \in DOMAIN winds :
  /\ winds[w].parent \in 0..(w - 1)
  /\ winds[w].depth = Depth(winds[w].parent) + 1

Extents == INSTANCE DynamicExtents WITH
  tree    <- [w \in DOMAIN winds |-> [parent |-> winds[w].parent,
                                      after  |-> winds[w].after]],
  here    <- curDW,
  running <- call.run

\* CurDW moves along one edge of the winding tree at a time, and each time it
\* leaves an extent the after thunk of that extent is what is called next.
RefinesExtents == Extents!Spec

-----------------------------------------------------------------------------
(* Why closures are resumed in their extent: the inductive invariant *)

Up(W, w) == IF w = 0 THEN 0 ELSE W[w].parent

\* What the captures of a closure say about the extent it belongs to, with
\* windings W and continuations C.
Placed(f, W, C) ==
  /\ f.run.fn \in {"EnterWind", "SetDW"} => f.at = Up(W, f.run.dest)
  /\ f.run.fn = "ContinueUp" => f.at = Up(W, f.run.src)
  /\ f.run.fn = "Traverse" => f.run.src = f.at
  /\ f.run.fn = "Restore" => f.at = C[f.run.k].dw
  /\ f.run.fn = "WindExit" =>
       /\ f.at # 0
       /\ f.run.prev = Up(W, f.at)
       /\ f.run.after = W[f.at].after

\* The extent control is in when the closure gives way to the one below it;
\* only Restore never does.
LeadsTo(f) ==
  IF f.run.fn \in {"EnterWind", "SetDW", "ContinueUp", "Traverse"} THEN f.run.dest
  ELSE IF f.run.fn = "WindExit" THEN f.run.prev
  ELSE f.at

Below(s, i) == IF i = 1 THEN Bottom ELSE s[i - 1]
Above(f, g) == f.run.fn = "Restore" \/ LeadsTo(f) = g.at

\* Each frame of a stack leads to the extent of the frame below it.
Stacked(s, W, C) == \A i \in 1..Len(s) :
  Placed(s[i], W, C) /\ Above(s[i], Below(s, i))

Saved(C, W) == \A k \in 1..Len(C) :
  Stacked(C[k].stack, W, C) /\ Top(C[k].stack).at = C[k].dw

IInv ==
  /\ TypeOK
  /\ WindingTree
  /\ bottomDW = 0
  /\ call.at = curDW
  /\ Placed(call, winds, conts)
  /\ Above(call, Top(stack))
  /\ Halted => stack = <<>>
  /\ Stacked(stack, winds, conts)
  /\ Saved(conts, winds)

-----------------------------------------------------------------------------
(* State that windings install and restore *)

\* The windings around control, the innermost first.
Around ==
  LET chain[w \in 0..Len(winds)] ==
        IF w = 0 THEN <<>> ELSE <<w>> \o chain[winds[w].parent]
  IN chain[curDW]

\* What the innermost of those windings that satisfies p gives, or default.
Innermost(p(_), get(_), default) ==
  LET found == {i \in DOMAIN Around : p(Around[i])}
  IN IF found = {} THEN default
     ELSE get(Around[CHOOSE i \in found : \A j \in found : i <= j])

InstallsHandlers(w) == winds[w].before.fn = "SetHandlers"
IsObjectWind(w)     == winds[w].before.fn = "SafeBefore"
Object(w)           == winds[w].before.o
InstallsEnv(w) == IsObjectWind(w) /\ objs[Object(w)].before.fn = "SetEnv"

InUserCode == Calling("User")

\* Whenever user code runs, the exception handlers are those of the extent it
\* runs in: no path out of or into an extent leaves handlers behind.
HandlersOfExtent == InUserCode =>
  LET get(w) == winds[w].before.hs
  IN handlers = Innermost(InstallsHandlers, get, <<>>)

\* The same for the environment: the one set is that of the innermost WithEnv
\* around the running code.
EnvOfExtent == InUserCode => env = Innermost(InstallsEnv, Object, 0)

\* A managed object is destroyed only after control has left its extent.
DestroyedOutside == [][
  \A o \in DOMAIN objs : objs[o].alive /\ ~objs'[o].alive =>
    \A i \in DOMAIN Around :
      ~(IsObjectWind(Around[i]) /\ Object(Around[i]) = o) ]_vars

\* An environment is alive as long as code runs in the extent of its WithEnv:
\* entering the extent again checks that it is ("This is checked everytime we
\* enter the dynamic extent", the Sentinel in Context.cpp), and a Before thunk
\* that is not user code lets nothing in between.
EnvAliveInExtent == InUserCode =>
  \A i \in DOMAIN Around : InstallsEnv(Around[i]) => objs[Object(Around[i])].alive

\* "We could only get here if the user saved an escape proc in the After
\* thunk" (Context.cpp, the Destroy closure): with After thunks that are not
\* user code, an object that is destroyed is not destroyed again.
DestroyedOnce == Calling("Destroy") => objs[call.run.o].alive

\* "Destroy the object when an error leaves the extent" (Context.cpp, the
\* SafeAfter closure): without saved continuations nobody can come back, so
\* no object is left once everything has ended.
NoneLeft == Halted /\ conts = <<>> => \A o \in DOMAIN objs : ~objs[o].alive

\* The same of environments, without handlers of the user, which may return
\* and clear the mark of an error that goes on: every way out of the extent of
\* a WithEnv destroys the environment, with errors in the thunks of other
\* objects on the way too.  (An error in the Before thunk of an object comes
\* before its extent, so other objects may be left.)
UserHandled == \E w \in DOMAIN winds :
  InstallsHandlers(w) /\ \E i \in DOMAIN winds[w].before.hs :
    winds[w].before.hs[i].fn = "User"
NoneLeftUnhandled == Halted /\ conts = <<>> /\ ~UserHandled =>
  \A o \in DOMAIN objs : objs[o].before.fn = "SetEnv" => ~objs[o].alive

-----------------------------------------------------------------------------
(* The end of the loop *)

\* When the loop ends everything is unwound, also after an uncaught error.
UnwoundAtEnd == Halted =>
  curDW = bottomDW /\ stack = <<>> /\ handlers = <<>> /\ env = 0

\* User code that performs finitely many operations does not keep the loop
\* running: every traversal arrives and every unwinding ends.
Terminates == <>[]Halted
=============================================================================
