--------------------------- MODULE SchirSyncProofs ---------------------------
(***************************************************************************)
(* Nested run loops, for every number of them and of user operations: a    *)
(* RunSync gives its caller back the extent, the stack, the handlers and   *)
(* the environment it was called with.                                     *)
(***************************************************************************)
EXTENDS SchirRunSync, SchirContextProofs, FiniteSetTheorems

-----------------------------------------------------------------------------
(* Types *)

\* The procedures of SchirRuntime without those of escapes, with the two that
\* end a nested loop.
SyncHandlerLists(m) == Seq(Handlers(m) \cup {Catch})

SyncThunks(m) == Thunks(m) \cup [fn : {"SetHandlers"}, hs : SyncHandlerLists(m)]

SyncContinuations(n, m) ==
  [fn : {"User"}, role : Roles]
    \cup [fn : {"WindBody"}, before : SyncThunks(m), thunk : SyncThunks(m),
          after : SyncThunks(m)]
    \cup [fn : {"WindExit"}, after : SyncThunks(m), prev : 0..n]
    \cup [fn : {"EnterWind", "SetDW"}, dest : 1..n]
    \cup [fn : {"ContinueUp"}, src : 1..n, dest : 0..n]
    \cup [fn : {"ClearMark", "Destroy"}, o : 1..m]
    \cup [fn : {"Forward", "RaiseAgain", "Break", "Catch"}]

SyncPending(n, m) ==
  Handlers(m) \cup SyncThunks(m) \cup SyncContinuations(n, m)
    \cup [fn : {"Traverse"}, src : 0..n, dest : 0..n]
    \cup [fn : {"Raise", "Bottom"}]

SyncFrames(n, m) == [run : SyncContinuations(n, m), at : Nat]
SyncCalls(n, m)  == [run : SyncPending(n, m), at : Nat]

SyncWindings(n, m) ==
  [depth : Nat \ {0}, parent : 0..n, before : SyncThunks(m), after : SyncThunks(m)]

SyncLocals(n, m) ==
  [handlers : SyncHandlerLists(m), bottomDW : 0..n, env : 0..m, dw : 0..n, top : Nat]

\* The winding an error unwinds to in the loop of the caller of call j.
BottomOf(N, j) == IF j = 1 THEN 0 ELSE N[j - 1].dw

SyncTypes ==
  LET n == Len(winds)
      m == Len(objs)
  IN /\ stack \in Seq(SyncFrames(n, m))
     /\ call \in SyncCalls(n, m)
     /\ curDW \in 0..n
     /\ winds \in Seq(SyncWindings(n, m))
     /\ handlers \in SyncHandlerLists(m)
     /\ objs \in Seq(Objects(m))
     /\ env \in 0..m
     /\ fuel \in Nat
     /\ native \in Seq(SyncLocals(n, m))
     /\ caught \in {"none", "caught", "passed"}
     /\ passed \in BOOLEAN
     /\ bottomDW = BottomOf(native, Len(native) + 1)
     /\ \A j \in 1..Len(native) : native[j].bottomDW = BottomOf(native, j)

\* No escapes: either no continuation is saved or none is called.
NoEscapes == ~({"callcc", "throw"} \subseteq Ops)
NothingSaved == "throw" \in Ops => conts = <<>>

\* The types grow with the windings and the objects.
LEMMA SyncTypesGrow ==
  ASSUME NEW n \in Nat, NEW n2 \in Nat, n <= n2, NEW m \in Nat, NEW m2 \in Nat, m <= m2
  PROVE  /\ SyncHandlerLists(m) \subseteq SyncHandlerLists(m2)
         /\ SyncThunks(m) \subseteq SyncThunks(m2)
         /\ SyncContinuations(n, m) \subseteq SyncContinuations(n2, m2)
         /\ SyncPending(n, m) \subseteq SyncPending(n2, m2)
         /\ SyncFrames(n, m) \subseteq SyncFrames(n2, m2)
         /\ SyncCalls(n, m) \subseteq SyncCalls(n2, m2)
         /\ SyncWindings(n, m) \subseteq SyncWindings(n2, m2)
         /\ SyncLocals(n, m) \subseteq SyncLocals(n2, m2)
<1>1. /\ 1..n \subseteq 1..n2 /\ 0..n \subseteq 0..n2
      /\ 1..m \subseteq 1..m2 /\ 0..m \subseteq 0..m2
  OBVIOUS
<1>2. Handlers(m) \subseteq Handlers(m2) /\ Thunks(m) \subseteq Thunks(m2)
  BY TypesGrow
<1>3. SyncHandlerLists(m) \subseteq SyncHandlerLists(m2)
  BY <1>2, SeqMonotonic DEF SyncHandlerLists
<1>4. SyncThunks(m) \subseteq SyncThunks(m2)
  <2> DEFINE Lists(x) == [fn : {"SetHandlers"}, hs : SyncHandlerLists(x)]
  <2>1. Lists(m) \subseteq Lists(m2)
    BY <1>3
  <2>2. \A x : SyncThunks(x) = Thunks(x) \cup Lists(x)
    BY DEF SyncThunks
  <2> HIDE DEF Lists
  <2> QED
    BY <1>2, <2>1, <2>2
<1>5. SyncContinuations(n, m) \subseteq SyncContinuations(n2, m2)
  <2> DEFINE A == [fn : {"User"}, role : Roles]
             B(x) == [fn : {"WindBody"}, before : SyncThunks(x), thunk : SyncThunks(x),
                      after : SyncThunks(x)]
             D(y, x) == [fn : {"WindExit"}, after : SyncThunks(x), prev : 0..y]
             E(y) == [fn : {"EnterWind", "SetDW"}, dest : 1..y]
             F(y) == [fn : {"ContinueUp"}, src : 1..y, dest : 0..y]
             H(x) == [fn : {"ClearMark", "Destroy"}, o : 1..x]
             I == [fn : {"Forward", "RaiseAgain", "Break", "Catch"}]
  <2>1. B(m) \subseteq B(m2)
    BY <1>4
  <2>2. D(n, m) \subseteq D(n2, m2)
    BY <1>1, <1>4
  <2>3. E(n) \subseteq E(n2)
    BY <1>1
  <2>4. F(n) \subseteq F(n2)
    BY <1>1
  <2>5. H(m) \subseteq H(m2)
    BY <1>1
  <2>6. \A y, x : SyncContinuations(y, x) =
          A \cup B(x) \cup D(y, x) \cup E(y) \cup F(y) \cup H(x) \cup I
    BY DEF SyncContinuations
  <2> HIDE DEF A, B, D, E, F, H, I
  <2> QED
    BY <2>1, <2>2, <2>3, <2>4, <2>5, <2>6
<1>6. SyncPending(n, m) \subseteq SyncPending(n2, m2)
  <2> DEFINE T(y) == [fn : {"Traverse"}, src : 0..y, dest : 0..y]
             R == [fn : {"Raise", "Bottom"}]
  <2>1. T(n) \subseteq T(n2)
    BY <1>1
  <2>2. \A y, x : SyncPending(y, x) =
          Handlers(x) \cup SyncThunks(x) \cup SyncContinuations(y, x) \cup T(y) \cup R
    BY DEF SyncPending
  <2> HIDE DEF T, R
  <2> QED
    BY <1>2, <1>4, <1>5, <2>1, <2>2
<1>7. SyncFrames(n, m) \subseteq SyncFrames(n2, m2)
  BY <1>5 DEF SyncFrames
<1>8. SyncCalls(n, m) \subseteq SyncCalls(n2, m2)
  BY <1>6 DEF SyncCalls
<1>9. SyncWindings(n, m) \subseteq SyncWindings(n2, m2)
  BY <1>1, <1>4 DEF SyncWindings
<1>10. SyncLocals(n, m) \subseteq SyncLocals(n2, m2)
  BY <1>1, <1>3 DEF SyncLocals
<1> QED
  BY <1>3, <1>4, <1>5, <1>6, <1>7, <1>8, <1>9, <1>10

\* What each kind of procedure captures.
LEMMA SyncCaptures ==
  ASSUME NEW n \in Nat, NEW m \in Nat, NEW p \in SyncPending(n, m)
  PROVE  /\ p.fn \notin {"Escape", "Restore"}
         /\ p.fn = "WindBody" => /\ p.before \in SyncThunks(m)
                                 /\ p.thunk \in SyncThunks(m)
                                 /\ p.after \in SyncThunks(m)
         /\ p.fn = "WindExit" => p.after \in SyncThunks(m) /\ p.prev \in 0..n
         /\ p.fn \in {"EnterWind", "SetDW"} => p.dest \in 1..n
         /\ p.fn = "ContinueUp" => p.src \in 1..n /\ p.dest \in 0..n
         /\ p.fn \in {"ClearMark", "Destroy", "SafeBefore", "SafeAfter",
                      "ErrorThunk", "ErrorHandler"} => p.o \in 1..m
         /\ p.fn = "Traverse" => p.src \in 0..n /\ p.dest \in 0..n
         /\ p.fn = "SetHandlers" => p.hs \in SyncHandlerLists(m)
         /\ p.fn = "SetEnv" => p.e \in 0..m
         /\ p.fn = "HandlerThunk" => p.h \in Handlers(m) /\ p.continuable \in BOOLEAN
<1>1. CASE p \in Handlers(m)
  BY <1>1 DEF Handlers
<1>2. CASE p \in SyncThunks(m)
  <2>1. CASE p \in [fn : {"SetHandlers"}, hs : SyncHandlerLists(m)]
    BY <2>1
  <2>2. CASE p \in Thunks(m)
    <3>1. Seq(Handlers(m)) \subseteq SyncHandlerLists(m)
      BY SeqMonotonic DEF SyncHandlerLists
    <3> QED
      BY <2>2, <3>1 DEF Thunks
  <2> QED
    BY <1>2, <2>1, <2>2 DEF SyncThunks
<1>3. CASE p \in SyncContinuations(n, m)
  BY <1>3 DEF SyncContinuations
<1>4. CASE p \in [fn : {"Traverse"}, src : 0..n, dest : 0..n]
  BY <1>4
<1>5. CASE p \in [fn : {"Raise", "Bottom"}]
  BY <1>5
<1> QED
  BY <1>1, <1>2, <1>3, <1>4, <1>5 DEF SyncPending

-----------------------------------------------------------------------------
(* Every step keeps the types *)

\* The parts of the types that the pending call and the stack have.
Running(s, c, n, m) == s \in Seq(SyncFrames(n, m)) /\ c \in SyncCalls(n, m)

LEMMA PushTyped ==
  ASSUME NEW n \in Nat, NEW m \in Nat, NEW s \in Seq(SyncFrames(n, m)),
         NEW p \in SyncContinuations(n, m), NEW d \in 0..n
  PROVE  Push(s, p, d) \in Seq(SyncFrames(n, m))
<1>1. Closure(p, d) \in SyncFrames(n, m)
  BY DEF Closure, SyncFrames
<1> QED
  BY <1>1, PushFrames

LEMMA CallTyped ==
  ASSUME NEW n \in Nat, NEW m \in Nat, NEW p \in SyncPending(n, m), NEW d \in 0..n
  PROVE  Closure(p, d) \in SyncCalls(n, m)
BY DEF Closure, SyncCalls

LEMMA PopTyped ==
  ASSUME NEW n \in Nat, NEW m \in Nat, NEW s \in Seq(SyncFrames(n, m))
  PROVE  Running(Pop(s), Top(s), n, m)
<1>1. CASE s = <<>>
  <2>1. Bottom \in SyncCalls(n, m)
    BY DEF Bottom, Closure, SyncCalls, SyncPending
  <2> QED
    BY <1>1, <2>1 DEF Pop, Top, Running
<1>2. CASE s # <<>>
  <2>1. Pop(s) \in Seq(SyncFrames(n, m)) /\ Top(s) \in SyncFrames(n, m)
    BY <1>2, PopFrames
  <2>2. SyncContinuations(n, m) \subseteq SyncPending(n, m)
    BY DEF SyncPending
  <2>3. Top(s) \in SyncCalls(n, m)
    BY <2>1, <2>2 DEF SyncFrames, SyncCalls
  <2> QED
    BY <2>1, <2>3 DEF Running
<1> QED
  BY <1>1, <1>2

LEMMA WindTyped ==
  ASSUME NEW n \in Nat, NEW m \in Nat, NEW s \in Seq(SyncFrames(n, m)), curDW \in 0..n,
         NEW before \in SyncThunks(m), NEW thunk \in SyncThunks(m),
         NEW after \in SyncThunks(m), DynamicWind(s, before, thunk, after)
  PROVE  Running(stack', call', n, m)
<1> DEFINE body == [fn |-> "WindBody", before |-> before, thunk |-> thunk,
                    after |-> after]
<1>1. body \in SyncContinuations(n, m)
  BY DEF SyncContinuations
<1>2. before \in SyncPending(n, m)
  BY DEF SyncPending
<1> HIDE DEF body
<1>3. Push(s, body, curDW) \in Seq(SyncFrames(n, m)) /\ Closure(before, curDW) \in SyncCalls(n, m)
  BY <1>1, <1>2, PushTyped, CallTyped
<1> QED
  BY <1>3 DEF DynamicWind, Apply, Running, body

LEMMA HandlersTyped ==
  ASSUME NEW n \in Nat, NEW m \in Nat, NEW s \in Seq(SyncFrames(n, m)), curDW \in 0..n,
         handlers \in SyncHandlerLists(m), NEW hs \in SyncHandlerLists(m),
         NEW thunk \in SyncThunks(m), WithExceptionHandlers(s, hs, thunk)
  PROVE  Running(stack', call', n, m)
<1>1. SetHandlers(hs) \in SyncThunks(m) /\ SetHandlers(handlers) \in SyncThunks(m)
  BY DEF SetHandlers, SyncThunks
<1> QED
  BY <1>1, WindTyped DEF WithExceptionHandlers

\* The handler at the head of a list that is a pair, and what is left.
LEMMA PairTyped ==
  ASSUME NEW m \in Nat, NEW hs \in SyncHandlerLists(m), IsPair(hs)
  PROVE  Head(hs) \in Handlers(m) /\ Tail(hs) \in SyncHandlerLists(m)
BY HeadTailProperties DEF SyncHandlerLists, IsPair

LEMMA RaiseContinuableTyped ==
  ASSUME NEW n \in Nat, NEW m \in Nat, NEW s \in Seq(SyncFrames(n, m)), curDW \in 0..n,
         handlers \in SyncHandlerLists(m), RaiseContinuable(s)
  PROVE  Running(stack', call', n, m)
<1>1. CASE IsPair(handlers)
  <2>1. Head(handlers) \in Handlers(m) /\ Tail(handlers) \in SyncHandlerLists(m)
    BY <1>1, PairTyped
  <2>2. HandlerThunk(Head(handlers), TRUE) \in SyncThunks(m)
    BY <2>1 DEF HandlerThunk, SyncThunks, Thunks
  <2> QED
    BY <1>1, <2>1, <2>2, HandlersTyped DEF RaiseContinuable
<1>2. CASE ~IsPair(handlers)
  <2>1. Raise \in SyncPending(n, m)
    BY DEF Raise, SyncPending
  <2> QED
    BY <1>2, <2>1, CallTyped DEF RaiseContinuable, Apply, Running
<1> QED
  BY <1>1, <1>2

n0 == Len(winds)
m0 == Len(objs)

\* The types of the variables in a state.
LEMMA Typed ==
  ASSUME SyncTypes
  PROVE  /\ n0 \in Nat /\ m0 \in Nat /\ curDW \in 0..n0 /\ env \in 0..m0 /\ fuel \in Nat
         /\ stack \in Seq(SyncFrames(n0, m0))
         /\ call \in SyncCalls(n0, m0) /\ call.run \in SyncPending(n0, m0)
         /\ winds \in Seq(SyncWindings(n0, m0)) /\ handlers \in SyncHandlerLists(m0)
         /\ objs \in Seq(Objects(m0)) /\ native \in Seq(SyncLocals(n0, m0))
         /\ Len(native) \in Nat /\ Len(stack) \in Nat
         /\ \A w \in 1..n0 : winds[w] \in SyncWindings(n0, m0)
         /\ \A o \in 1..m0 : objs[o] \in Objects(m0)
         /\ \A j \in 1..Len(native) : native[j] \in SyncLocals(n0, m0)
<1>1. /\ curDW \in 0..n0 /\ env \in 0..m0 /\ fuel \in Nat
      /\ stack \in Seq(SyncFrames(n0, m0)) /\ call \in SyncCalls(n0, m0)
      /\ winds \in Seq(SyncWindings(n0, m0)) /\ handlers \in SyncHandlerLists(m0)
      /\ objs \in Seq(Objects(m0)) /\ native \in Seq(SyncLocals(n0, m0))
  BY DEF SyncTypes, n0, m0
<1>2. n0 \in Nat /\ m0 \in Nat /\ Len(native) \in Nat /\ Len(stack) \in Nat
  BY <1>1, LenProperties DEF n0, m0
<1>3. call.run \in SyncPending(n0, m0)
  BY <1>1 DEF SyncCalls
<1>4. /\ \A w \in 1..n0 : winds[w] \in SyncWindings(n0, m0)
      /\ \A o \in 1..m0 : objs[o] \in Objects(m0)
      /\ \A j \in 1..Len(native) : native[j] \in SyncLocals(n0, m0)
  BY <1>1, ElementOfSeq DEF n0, m0
<1> QED
  BY <1>1, <1>2, <1>3, <1>4

\* A step that adds no winding and no object, and enters or leaves no loop.
LEMMA KeepsTypes ==
  ASSUME SyncTypes, UNCHANGED <<winds, bottomDW, native>>,
         Len(objs') = m0, objs' \in Seq(Objects(m0)),
         Running(stack', call', n0, m0), curDW' \in 0..n0,
         handlers' \in SyncHandlerLists(m0), env' \in 0..m0, fuel' \in Nat,
         caught' \in {"none", "caught", "passed"}, passed' \in BOOLEAN
  PROVE  SyncTypes'
BY DEF SyncTypes, Running, n0, m0

\* The same when objects and handlers stay too.
LEMMA KeepsMost ==
  ASSUME SyncTypes, UNCHANGED <<winds, bottomDW, native, objs, handlers, env>>,
         Running(stack', call', n0, m0), curDW' \in 0..n0, fuel' \in Nat,
         caught' \in {"none", "caught", "passed"}, passed' \in BOOLEAN
  PROVE  SyncTypes'
BY Typed, KeepsTypes DEF m0

\* Simple procedures.
LEMMA SimpleTyped ==
  ASSUME NEW n \in Nat, NEW m \in Nat
  PROVE  /\ Raise \in SyncPending(n, m)
         /\ SyncThunks(m) \subseteq SyncPending(n, m)
         /\ Handlers(m) \subseteq SyncPending(n, m)
         /\ \A r \in Roles : User(r) \in SyncThunks(m) /\ User(r) \in SyncContinuations(n, m)
         /\ \A src \in 0..n, dest \in 0..n : Traverse(src, dest) \in SyncPending(n, m)
         /\ \A e \in 0..m : SetEnv(e) \in Thunks(m)
         /\ \A o \in 1..m : /\ OfObject("ErrorHandler", o) \in Handlers(m)
                            /\ \A f \in {"SafeBefore", "SafeAfter", "ErrorThunk"} :
                                 OfObject(f, o) \in SyncThunks(m)
                            /\ \A f \in {"ClearMark", "Destroy"} :
                                 OfObject(f, o) \in SyncContinuations(n, m)
         /\ \A f \in {"Forward", "RaiseAgain", "Break", "Catch"} :
              [fn |-> f] \in SyncContinuations(n, m)
         /\ Bottom \in SyncCalls(n, m)
         /\ \A r \in Roles : User(r) \in Thunks(m)
<1>1. Raise \in SyncPending(n, m)
  BY DEF SyncPending, Raise
<1>2. SyncThunks(m) \subseteq SyncPending(n, m) /\ Handlers(m) \subseteq SyncPending(n, m)
  BY DEF SyncPending
<1>3. \A r \in Roles : User(r) \in Thunks(m)
  BY DEF User, Thunks
<1>4. \A r \in Roles : User(r) \in SyncContinuations(n, m)
  BY DEF User, SyncContinuations
<1>5. \A src \in 0..n, dest \in 0..n : Traverse(src, dest) \in SyncPending(n, m)
  BY DEF Traverse, SyncPending
<1>6. \A e \in 0..m : SetEnv(e) \in Thunks(m)
  BY DEF SetEnv, Thunks
<1>7. \A o \in 1..m : OfObject("ErrorHandler", o) \in Handlers(m)
  BY DEF OfObject, Handlers
<1>8. \A o \in 1..m : \A f \in {"SafeBefore", "SafeAfter", "ErrorThunk"} :
        OfObject(f, o) \in Thunks(m)
  BY DEF OfObject, Thunks
<1>9. \A o \in 1..m : \A f \in {"ClearMark", "Destroy"} :
        OfObject(f, o) \in SyncContinuations(n, m)
  BY DEF OfObject, SyncContinuations
<1>10. \A f \in {"Forward", "RaiseAgain", "Break", "Catch"} :
        [fn |-> f] \in SyncContinuations(n, m)
  BY DEF SyncContinuations
<1>11. Bottom \in SyncCalls(n, m)
  BY DEF Bottom, Closure, SyncCalls, SyncPending
<1>12. Thunks(m) \subseteq SyncThunks(m)
  BY DEF SyncThunks
<1> QED
  BY <1>1, <1>2, <1>3, <1>4, <1>5, <1>6, <1>7, <1>8, <1>9, <1>10, <1>11, <1>12

\* The depth of a winding.
LEMMA DepthTyped ==
  ASSUME SyncTypes
  PROVE  /\ Depth(0) = 0 /\ Parent(0) = 0
         /\ \A w \in 0..n0 : Depth(w) \in Nat /\ Parent(w) \in 0..n0 /\ (w # 0 => Depth(w) # 0)
<1>1. Depth(0) = 0 /\ Parent(0) = 0
  BY DEF Depth, Parent
<1>2. ASSUME NEW w \in 1..n0
      PROVE  Depth(w) \in Nat \ {0} /\ Parent(w) \in 0..n0
  <2>1. winds[w] \in SyncWindings(n0, m0) /\ w # 0
    BY Typed
  <2> QED
    BY <2>1 DEF Depth, Parent, SyncWindings
<1>3. \A w \in 0..n0 : w = 0 \/ w \in 1..n0
  BY Typed
<1> QED
  BY <1>1, <1>2, <1>3, Typed

LEMMA WindStepTypes ==
  ASSUME SyncTypes, WindStep, UNCHANGED <<native, caught>>, passed' \in BOOLEAN
  PROVE  SyncTypes'
<1> DEFINE n == n0
           m == m0
<1>1. /\ n \in Nat /\ m \in Nat /\ curDW \in 0..n /\ env \in 0..m /\ fuel \in Nat
      /\ stack \in Seq(SyncFrames(n, m)) /\ call.run \in SyncPending(n, m)
      /\ winds \in Seq(SyncWindings(n, m)) /\ native \in Seq(SyncLocals(n, m))
      /\ handlers \in SyncHandlerLists(m)
  BY Typed
<1>2. caught \in {"none", "caught", "passed"}
  BY DEF SyncTypes
<1>3. CASE WindBody
  <2> DEFINE w == n + 1
             new == [depth |-> Depth(curDW) + 1, parent |-> curDW,
                     before |-> call.run.before, after |-> call.run.after]
             exit == [fn |-> "WindExit", after |-> call.run.after, prev |-> curDW]
  <2>1. /\ winds' = Append(winds, new) /\ curDW' = w
        /\ stack' = Push(stack, exit, w) /\ call' = Closure(call.run.thunk, w)
        /\ UNCHANGED <<bottomDW, handlers, conts, objs, env, fuel>>
    BY <1>3 DEF WindBody, Apply, n0
  <2>2. /\ call.run.before \in SyncThunks(m) /\ call.run.thunk \in SyncThunks(m)
        /\ call.run.after \in SyncThunks(m)
    BY <1>1, <1>3, SyncCaptures DEF WindBody, Calling
  <2>3. w \in Nat /\ n <= w /\ curDW \in 0..w /\ w \in 0..w
    BY <1>1
  <2>4. Depth(curDW) \in Nat
    BY <1>1, DepthTyped
  <2>5. new \in SyncWindings(w, m)
    BY <2>2, <2>3, <2>4 DEF SyncWindings
  <2>6. exit \in SyncContinuations(w, m) /\ call.run.thunk \in SyncPending(w, m)
    <3>1. exit \in SyncContinuations(w, m)
      BY <2>2, <2>3 DEF SyncContinuations
    <3> QED
      BY <3>1, <2>2 DEF SyncPending
  <2>7. /\ winds \in Seq(SyncWindings(w, m)) /\ stack \in Seq(SyncFrames(w, m))
        /\ native \in Seq(SyncLocals(w, m))
    <3>1. /\ SyncWindings(n, m) \subseteq SyncWindings(w, m)
          /\ SyncFrames(n, m) \subseteq SyncFrames(w, m)
          /\ SyncLocals(n, m) \subseteq SyncLocals(w, m)
      BY <1>1, <2>3, SyncTypesGrow
    <3> QED
      BY <3>1, <1>1, SeqMonotonic
  <2> HIDE DEF new, exit, w
  <2>8. winds' \in Seq(SyncWindings(w, m)) /\ Len(winds') = w
    BY <2>1, <2>5, <2>7, AppendProperties DEF w, n0
  <2>9. Running(stack', call', w, m)
    BY <2>1, <2>3, <2>6, <2>7, <1>1, PushTyped, CallTyped DEF Running
  <2> QED
    BY <2>1, <2>3, <2>7, <2>8, <2>9, <1>1, <1>2 DEF SyncTypes, Running, m0
<1>4. CASE WindExit
  <2> DEFINE d == call.run.prev
  <2>1. d \in 0..n /\ call.run.after \in SyncThunks(m)
    BY <1>1, <1>4, SyncCaptures DEF WindExit, Calling
  <2>2. call.run.after \in SyncPending(n, m) /\ [fn |-> "Forward"] \in SyncContinuations(n, m)
    BY <1>1, <2>1, SimpleTyped
  <2>3. Running(Push(stack, [fn |-> "Forward"], d), Closure(call.run.after, d), n, m)
    BY <1>1, <2>1, <2>2, PushTyped, CallTyped DEF Running
  <2> QED
    BY <1>1, <1>2, <1>4, <2>1, <2>3, KeepsMost DEF WindExit, Apply
<1>5. CASE Forward
  <2>1. Running(stack', call', n, m)
    BY <1>1, <1>5, PopTyped DEF Forward, Cont
  <2> QED
    BY <1>1, <1>2, <1>5, <2>1, KeepsMost DEF Forward
<1> QED
  BY <1>3, <1>4, <1>5 DEF WindStep

LEMMA TraverseStepTypes ==
  ASSUME SyncTypes, TraverseStep, UNCHANGED <<native, caught>>, passed' \in BOOLEAN
  PROVE  SyncTypes'
<1> DEFINE n == n0
           m == m0
           src == call.run.src
           dest == call.run.dest
<1>1. /\ n \in Nat /\ m \in Nat /\ curDW \in 0..n /\ fuel \in Nat
      /\ stack \in Seq(SyncFrames(n, m)) /\ call.run \in SyncPending(n, m)
      /\ \A w \in 1..n : winds[w] \in SyncWindings(n, m)
  BY Typed
<1>2. caught \in {"none", "caught", "passed"}
  BY DEF SyncTypes
<1>3. Running(Pop(stack), Top(stack), n, m)
  BY <1>1, PopTyped
<1>4. \A w \in 0..n : Depth(w) \in Nat /\ Parent(w) \in 0..n /\ (w # 0 => Depth(w) # 0)
  BY DepthTyped
<1>5. \A w \in 1..n : winds[w].before \in SyncThunks(m) /\ winds[w].after \in SyncThunks(m)
  BY <1>1 DEF SyncWindings
<1>6. /\ \A p \in SyncThunks(m) : p \in SyncPending(n, m)
      /\ \A a \in 0..n, b \in 0..n : Traverse(a, b) \in SyncPending(n, m)
  BY <1>1, SimpleTyped
<1>7. Calling("Traverse") => src \in 0..n /\ dest \in 0..n
  BY <1>1, SyncCaptures DEF Calling
<1>8. CASE TraverseArrive
  BY <1>1, <1>2, <1>3, <1>8, KeepsMost DEF TraverseArrive, Cont
<1>9. CASE TraverseDown
  <2>1. src \in 0..n /\ dest \in 0..n /\ Depth(src) < Depth(dest)
    BY <1>7, <1>9 DEF TraverseDown
  <2>2. dest \in 1..n /\ Parent(dest) \in 0..n
    <3>1. dest # 0
      BY <2>1, <1>4, DepthTyped
    <3> QED
      BY <3>1, <2>1, <1>4
  <2>3. [fn |-> "EnterWind", dest |-> dest] \in SyncContinuations(n, m)
    BY <2>2 DEF SyncContinuations
  <2>4. /\ stack' = Push(stack, [fn |-> "EnterWind", dest |-> dest], Parent(dest))
        /\ call' = Closure(Traverse(src, Parent(dest)), curDW)
    BY <1>9 DEF TraverseDown, Apply
  <2>5. Running(stack', call', n, m)
    BY <1>1, <1>6, <2>1, <2>2, <2>3, <2>4, PushTyped, CallTyped DEF Running
  <2> QED
    BY <1>1, <1>2, <1>9, <2>5, KeepsMost DEF TraverseDown
<1>10. CASE TraverseUp
  <2>1. src \in 0..n /\ dest \in 0..n /\ src # dest /\ Depth(src) >= Depth(dest)
    BY <1>7, <1>10 DEF TraverseUp
  <2>2. src \in 1..n /\ Parent(src) \in 0..n
    <3>1. src # 0
      BY <2>1, <1>4, DepthTyped
    <3> QED
      BY <3>1, <2>1, <1>4
  <2>3. [fn |-> "ContinueUp", src |-> src, dest |-> dest] \in SyncContinuations(n, m)
    BY <2>1, <2>2 DEF SyncContinuations
  <2>4. /\ stack' = Push(stack, [fn |-> "ContinueUp", src |-> src, dest |-> dest],
                         Parent(src))
        /\ call' = Closure(winds[src].after, Parent(src)) /\ curDW' = Parent(src)
    BY <1>10 DEF TraverseUp, Apply
  <2>5. Running(stack', call', n, m)
    BY <1>1, <1>5, <1>6, <2>1, <2>2, <2>3, <2>4, PushTyped, CallTyped DEF Running
  <2> QED
    BY <1>1, <1>2, <1>10, <2>2, <2>4, <2>5, KeepsMost DEF TraverseUp
<1>11. CASE ContinueUp
  <2>1. src \in 1..n /\ dest \in 0..n
    BY <1>1, <1>11, SyncCaptures DEF ContinueUp, Calling
  <2>2. Traverse(Parent(src), dest) \in SyncPending(n, m)
    <3>1. src \in 0..n
      BY <2>1, <1>1
    <3>2. Parent(src) \in 0..n
      BY <3>1, <1>4
    <3> QED
      BY <2>1, <3>2, <1>6
  <2>3. Closure(Traverse(Parent(src), dest), curDW) \in SyncCalls(n, m)
    BY <2>2, <1>1, CallTyped
  <2>4. Running(stack', call', n, m)
    BY <2>3, <1>1, <1>11 DEF ContinueUp, Apply, Running
  <2> QED
    BY <1>1, <1>2, <1>11, <2>4, KeepsMost DEF ContinueUp
<1>12. CASE EnterWind
  <2>1. dest \in 1..n
    BY <1>1, <1>12, SyncCaptures DEF EnterWind, Calling
  <2>2. [fn |-> "SetDW", dest |-> dest] \in SyncContinuations(n, m)
    BY <2>1 DEF SyncContinuations
  <2>3. /\ stack' = Push(stack, [fn |-> "SetDW", dest |-> dest], curDW)
        /\ call' = Closure(winds[dest].before, curDW)
    BY <1>12 DEF EnterWind, Apply
  <2>4. Running(stack', call', n, m)
    BY <1>1, <1>5, <1>6, <2>1, <2>2, <2>3, PushTyped, CallTyped DEF Running
  <2> QED
    BY <1>1, <1>2, <1>12, <2>4, KeepsMost DEF EnterWind
<1>13. CASE SetDW
  <2>1. dest \in 1..n /\ dest \in 0..n
    BY <1>1, <1>13, SyncCaptures DEF SetDW, Calling
  <2> QED
    BY <1>1, <1>2, <1>3, <1>13, <2>1, KeepsMost DEF SetDW, Cont
<1> QED
  BY <1>8, <1>9, <1>10, <1>11, <1>12, <1>13 DEF TraverseStep

LEMMA BottomTyped ==
  ASSUME SyncTypes
  PROVE  bottomDW \in 0..n0
<1> DEFINE k == Len(native) + 1
<1>1. /\ n0 \in Nat /\ Len(native) \in Nat /\ native \in Seq(SyncLocals(n0, m0))
      /\ \A j \in 1..Len(native) : native[j] \in SyncLocals(n0, m0)
  BY Typed
<1>2. bottomDW = BottomOf(native, k)
  BY DEF SyncTypes
<1>3. CASE k = 1
  BY <1>1, <1>2, <1>3 DEF BottomOf
<1>4. CASE k # 1
  <2>1. k - 1 \in 1..Len(native)
    BY <1>1, <1>4
  <2>2. native[k - 1].dw \in 0..n0
    BY <1>1, <2>1 DEF SyncLocals
  <2>3. bottomDW = native[k - 1].dw
    BY <1>2, <1>4 DEF BottomOf
  <2> QED
    BY <2>2, <2>3
<1> QED
  BY <1>3, <1>4

LEMMA RaiseStepTypes ==
  ASSUME SyncTypes, RaiseStep, UNCHANGED <<native, caught>>, passed' \in BOOLEAN
  PROVE  SyncTypes'
<1> DEFINE n == n0
           m == m0
<1>1. /\ n \in Nat /\ m \in Nat /\ curDW \in 0..n /\ env \in 0..m /\ fuel \in Nat
      /\ stack \in Seq(SyncFrames(n, m)) /\ call.run \in SyncPending(n, m)
      /\ handlers \in SyncHandlerLists(m) /\ objs \in Seq(Objects(m)) /\ Len(objs) = m
  BY Typed DEF m0
<1>2. caught \in {"none", "caught", "passed"}
  BY DEF SyncTypes
<1>3. /\ Raise \in SyncPending(n, m)
      /\ \A h \in Handlers(m) : h \in SyncPending(n, m)
      /\ \A a \in 0..n, b \in 0..n : Traverse(a, b) \in SyncPending(n, m)
      /\ [fn |-> "RaiseAgain"] \in SyncContinuations(n, m)
  BY <1>1, SimpleTyped
<1>4. CASE CallSetHandlers
  <2>1. call.run.hs \in SyncHandlerLists(m)
    BY <1>1, <1>4, SyncCaptures DEF CallSetHandlers, Calling
  <2>2. Running(stack', call', n, m)
    BY <1>1, <1>4, PopTyped DEF CallSetHandlers, Cont
  <2> QED
    BY <1>1, <1>2, <1>4, <2>1, <2>2, KeepsTypes DEF CallSetHandlers
<1>5. CASE RaiseUncaught
  <2>1. call' = Closure(Traverse(curDW, bottomDW), curDW) /\ stack' = <<>>
    BY <1>5 DEF RaiseUncaught, Apply
  <2>2. Traverse(curDW, bottomDW) \in SyncPending(n, m)
    BY <1>1, <1>3, BottomTyped
  <2>3. Running(stack', call', n, m)
    BY <1>1, <2>1, <2>2, CallTyped, EmptySeq DEF Running
  <2> QED
    BY <1>1, <1>2, <1>5, <2>3, KeepsMost DEF RaiseUncaught
<1>6. CASE RaiseToHandler
  <2>1. Head(handlers) \in Handlers(m) /\ Tail(handlers) \in SyncHandlerLists(m)
    BY <1>1, <1>6, PairTyped DEF RaiseToHandler
  <2>2. HandlerThunk(Head(handlers), FALSE) \in SyncThunks(m)
    BY <2>1 DEF HandlerThunk, SyncThunks, Thunks
  <2>3. Running(stack', call', n, m)
    BY <1>1, <1>6, <2>1, <2>2, HandlersTyped DEF RaiseToHandler
  <2> QED
    BY <1>1, <1>2, <1>6, <2>3, KeepsMost DEF RaiseToHandler
<1>7. CASE CallHandlerThunk
  <2>1. call.run.h \in SyncPending(n, m) /\ call' = Closure(call.run.h, curDW)
    BY <1>1, <1>3, <1>7, SyncCaptures DEF CallHandlerThunk, Calling, Apply
  <2>2. Push(stack, [fn |-> "RaiseAgain"], curDW) \in Seq(SyncFrames(n, m))
    BY <1>1, <1>3, PushTyped
  <2>3. stack' \in Seq(SyncFrames(n, m))
    BY <1>1, <1>7, <2>2 DEF CallHandlerThunk
  <2>4. Running(stack', call', n, m)
    BY <1>1, <2>1, <2>3, CallTyped DEF Running
  <2> QED
    BY <1>1, <1>2, <1>7, <2>4, KeepsMost DEF CallHandlerThunk
<1>8. CASE RaiseAgain
  <2>1. Running(stack', call', n, m)
    BY <1>1, <1>3, <1>8, CallTyped DEF RaiseAgain, Apply, Running
  <2> QED
    BY <1>1, <1>2, <1>8, <2>1, KeepsMost DEF RaiseAgain
<1> QED
  BY <1>4, <1>5, <1>6, <1>7, <1>8 DEF RaiseStep

\* An object is made: there is one more of them.
LEMMA ManagedTypes ==
  ASSUME SyncTypes, NEW s \in Seq(SyncFrames(n0, m0)),
         NEW before \in Thunks(m0 + 1), NEW after \in Thunks(m0 + 1),
         ManagedObjectWind(s, before, after), fuel' \in Nat,
         UNCHANGED <<winds, bottomDW, native, handlers, env, curDW, caught>>,
         passed' \in BOOLEAN
  PROVE  SyncTypes'
<1> DEFINE n == n0
           m == m0
           o == m + 1
           new == [alive |-> TRUE, isError |-> FALSE, before |-> before, after |-> after]
           hs == <<OfObject("ErrorHandler", o)>> \o handlers
           t == Push(s, OfObject("Destroy", o), curDW)
<1>1. /\ n \in Nat /\ m \in Nat /\ curDW \in 0..n /\ env \in 0..m
      /\ objs \in Seq(Objects(m)) /\ handlers \in SyncHandlerLists(m)
      /\ winds \in Seq(SyncWindings(n, m)) /\ native \in Seq(SyncLocals(n, m))
  BY Typed
<1>2. caught' \in {"none", "caught", "passed"}
  BY DEF SyncTypes
<1>3. o \in Nat /\ m <= o /\ o \in 1..o /\ n <= n
  BY <1>1
<1>4. /\ s \in Seq(SyncFrames(n, o)) /\ handlers \in SyncHandlerLists(o)
      /\ winds \in Seq(SyncWindings(n, o)) /\ native \in Seq(SyncLocals(n, o))
      /\ objs \in Seq(Objects(o)) /\ env \in 0..o
  <2> HIDE DEF n, m, o
  <2>1. /\ SyncFrames(n, m) \subseteq SyncFrames(n, o)
        /\ SyncHandlerLists(m) \subseteq SyncHandlerLists(o)
        /\ SyncWindings(n, m) \subseteq SyncWindings(n, o)
        /\ SyncLocals(n, m) \subseteq SyncLocals(n, o)
    BY <1>1, <1>3, SyncTypesGrow
  <2>2. Objects(m) \subseteq Objects(o)
    BY <1>1, <1>3, TypesGrow
  <2>3. \A S, S2 : S \subseteq S2 => Seq(S) \subseteq Seq(S2)
    BY SeqMonotonic
  <2>4. env \in 0..o
    BY <1>1, <1>3
  <2> QED
    BY <2>1, <2>2, <2>3, <2>4, <1>1 DEF n, m
<1>5. /\ OfObject("Destroy", o) \in SyncContinuations(n, o)
      /\ OfObject("ErrorHandler", o) \in Handlers(o)
      /\ OfObject("ErrorThunk", o) \in SyncThunks(o)
  BY <1>1, <1>3, SimpleTyped
<1>6. new \in Objects(o)
  BY DEF Objects
<1>7. /\ objs' = Append(objs, new)
      /\ WithExceptionHandlers(t, hs, OfObject("ErrorThunk", o))
  BY DEF ManagedObjectWind, m0
<1>8. hs \in SyncHandlerLists(o)
  BY <1>4, <1>5, ConcatProperties DEF SyncHandlerLists
<1> HIDE DEF new, hs
<1>9. objs' \in Seq(Objects(o)) /\ Len(objs') = o
  BY <1>4, <1>6, <1>7, AppendProperties DEF m0
<1>10. t \in Seq(SyncFrames(n, o))
  BY <1>1, <1>3, <1>4, <1>5, PushTyped
<1> HIDE DEF t, o
<1>11. Running(stack', call', n, o)
  BY <1>1, <1>3, <1>4, <1>5, <1>7, <1>8, <1>10, HandlersTyped
<1> QED
  BY <1>1, <1>2, <1>4, <1>9, <1>11 DEF SyncTypes, Running, n0

LEMMA ObjectStepTypes ==
  ASSUME SyncTypes, ObjectStep, UNCHANGED <<native, caught>>, passed' \in BOOLEAN
  PROVE  SyncTypes'
<1> DEFINE n == n0
           m == m0
           o == call.run.o
<1>1. /\ n \in Nat /\ m \in Nat /\ curDW \in 0..n /\ env \in 0..m /\ fuel \in Nat
      /\ stack \in Seq(SyncFrames(n, m)) /\ call.run \in SyncPending(n, m)
      /\ handlers \in SyncHandlerLists(m) /\ objs \in Seq(Objects(m)) /\ Len(objs) = m
      /\ \A a \in 1..m : objs[a] \in Objects(m)
  BY Typed DEF m0
<1>2. caught \in {"none", "caught", "passed"}
  BY DEF SyncTypes
<1>3. Running(Pop(stack), Top(stack), n, m)
  BY <1>1, PopTyped
<1>4. call.run.fn \in {"ClearMark", "Destroy", "SafeBefore", "SafeAfter", "ErrorThunk",
                       "ErrorHandler"} => o \in 1..m
  BY <1>1, SyncCaptures
<1>5. \A a \in 1..m : objs[a].before \in Thunks(m) /\ objs[a].after \in Thunks(m)
  BY <1>1 DEF Objects
<1>6. /\ Raise \in SyncPending(n, m)
      /\ Thunks(m) \subseteq SyncPending(n, m)
      /\ \A a \in 1..m : /\ OfObject("SafeBefore", a) \in SyncThunks(m)
                         /\ OfObject("SafeAfter", a) \in SyncThunks(m)
                         /\ OfObject("ClearMark", a) \in SyncContinuations(n, m)
                         /\ OfObject("Destroy", a) \in SyncContinuations(n, m)
      /\ User("thunk") \in SyncThunks(m)
  <2>1. Thunks(m) \subseteq SyncThunks(m)
    BY DEF SyncThunks
  <2>2. "thunk" \in Roles
    BY DEF Roles
  <2> QED
    BY <1>1, <2>1, <2>2, SimpleTyped
<1>7. CASE ErrorThunk
  <2>1. o \in 1..m
    BY <1>4, <1>7 DEF ErrorThunk, Calling
  <2>2. Running(stack', call', n, m)
    BY <1>1, <1>6, <1>7, <2>1, WindTyped DEF ErrorThunk
  <2> QED
    BY <1>1, <1>2, <1>7, <2>2, KeepsMost DEF ErrorThunk
<1>8. CASE SafeBefore
  <2>1. o \in 1..m
    BY <1>4, <1>8 DEF SafeBefore, Calling
  <2>2. (IF objs[o].alive THEN objs[o].before ELSE Raise) \in SyncPending(n, m)
    BY <1>5, <1>6, <2>1
  <2>3. Running(stack', call', n, m)
    BY <1>1, <1>8, <2>2, CallTyped DEF SafeBefore, Apply, Running
  <2> QED
    BY <1>1, <1>2, <1>8, <2>3, KeepsMost DEF SafeBefore
<1>9. CASE SafeAfter
  <2>1. o \in 1..m
    BY <1>4, <1>9 DEF SafeAfter, Calling
  <2>2. objs[o].after \in SyncPending(n, m)
    BY <1>5, <1>6, <2>1
  <2>3. Push(stack, OfObject("Destroy", o), curDW) \in Seq(SyncFrames(n, m))
    BY <1>1, <1>6, <2>1, PushTyped
  <2>4. stack' \in Seq(SyncFrames(n, m)) /\ call' = Closure(objs[o].after, curDW)
    BY <1>1, <1>9, <2>3 DEF SafeAfter, Apply
  <2>5. Running(stack', call', n, m)
    BY <1>1, <2>2, <2>4, CallTyped DEF Running
  <2> QED
    BY <1>1, <1>2, <1>9, <2>5, KeepsMost DEF SafeAfter
<1>10. ASSUME NEW new \in Objects(m), o \in 1..m
       PROVE  [objs EXCEPT ![o] = new] \in Seq(Objects(m))
              /\ Len([objs EXCEPT ![o] = new]) = m
  BY <1>1, <1>10, ExceptSeq
<1>11. CASE ErrorHandler
  <2>1. o \in 1..m
    BY <1>4, <1>11 DEF ErrorHandler, Calling
  <2>2. Push(stack, OfObject("ClearMark", o), curDW) \in Seq(SyncFrames(n, m))
    BY <1>1, <1>6, <2>1, PushTyped
  <2>3. Running(stack', call', n, m)
    BY <1>1, <1>11, <2>2, RaiseContinuableTyped DEF ErrorHandler
  <2>4. objs' \in Seq(Objects(m)) /\ Len(objs') = m
    <3>1. [objs[o] EXCEPT !.isError = TRUE] \in Objects(m)
      BY <1>1, <2>1 DEF Objects
    <3> QED
      BY <1>10, <1>11, <2>1, <3>1 DEF ErrorHandler
  <2> QED
    BY <1>1, <1>2, <1>11, <2>3, <2>4, KeepsTypes DEF ErrorHandler
<1>12. CASE ClearMark
  <2>1. o \in 1..m
    BY <1>4, <1>12 DEF ClearMark, Calling
  <2>2. objs' \in Seq(Objects(m)) /\ Len(objs') = m
    <3>1. [objs[o] EXCEPT !.isError = FALSE] \in Objects(m)
      BY <1>1, <2>1 DEF Objects
    <3> QED
      BY <1>10, <1>12, <2>1, <3>1 DEF ClearMark
  <2>3. Running(stack', call', n, m)
    BY <1>3, <1>12 DEF ClearMark, Cont
  <2> QED
    BY <1>1, <1>2, <1>12, <2>2, <2>3, KeepsTypes DEF ClearMark
<1>13. CASE Destroy
  <2>1. o \in 1..m
    BY <1>4, <1>13 DEF Destroy, Calling
  <2>2. objs' \in Seq(Objects(m)) /\ Len(objs') = m
    <3>1. [objs[o] EXCEPT !.alive = FALSE] \in Objects(m)
      BY <1>1, <2>1 DEF Objects
    <3> QED
      BY <1>10, <1>13, <2>1, <3>1 DEF Destroy
  <2>3. Running(stack', call', n, m)
    BY <1>3, <1>13 DEF Destroy, Cont
  <2> QED
    BY <1>1, <1>2, <1>13, <2>2, <2>3, KeepsTypes DEF Destroy
<1>14. CASE DestroyAgain
  <2>1. Running(stack', call', n, m)
    BY <1>1, <1>6, <1>14, CallTyped DEF DestroyAgain, Apply, Running
  <2> QED
    BY <1>1, <1>2, <1>14, <2>1, KeepsMost DEF DestroyAgain
<1>15. CASE CallSetEnv
  <2>1. env' \in 0..m
    BY <1>1, <1>15, SyncCaptures DEF CallSetEnv, Calling
  <2>2. Running(stack', call', n, m)
    BY <1>3, <1>15 DEF CallSetEnv, Cont
  <2> QED
    BY <1>1, <1>2, <1>15, <2>1, <2>2, KeepsTypes DEF CallSetEnv
<1> QED
  BY <1>7, <1>8, <1>9, <1>11, <1>12, <1>13, <1>14, <1>15 DEF ObjectStep

\* Without escapes user code calls no saved continuation.
LEMMA NoThrow ==
  ASSUME NothingSaved PROVE ~UserThrow
<1> SUFFICES ASSUME UserThrow PROVE FALSE
  OBVIOUS
<1>1. conts = <<>>
  BY DEF UserThrow, Use, NothingSaved
<1>2. DOMAIN conts = {}
  BY <1>1
<1> QED
  BY <1>2 DEF UserThrow

LEMMA UserStepTypes ==
  ASSUME SyncTypes, NothingSaved, UserStep, UNCHANGED <<native, caught>>, passed' \in BOOLEAN
  PROVE  SyncTypes'
<1> DEFINE n == n0
           m == m0
<1>1. /\ n \in Nat /\ m \in Nat /\ curDW \in 0..n /\ env \in 0..m /\ fuel \in Nat
      /\ stack \in Seq(SyncFrames(n, m)) /\ call.run \in SyncPending(n, m)
      /\ handlers \in SyncHandlerLists(m)
  BY Typed
<1>2. caught \in {"none", "caught", "passed"}
  BY DEF SyncTypes
<1>3. /\ Raise \in SyncPending(n, m)
      /\ \A r \in Roles : /\ User(r) \in SyncThunks(m) /\ User(r) \in SyncPending(n, m)
                          /\ User(r) \in Thunks(m) /\ User(r) \in SyncContinuations(n, m)
      /\ "main" \in Roles /\ "thunk" \in Roles /\ "before" \in Roles /\ "after" \in Roles
      /\ "handler" \in Roles
  BY <1>1, SimpleTyped DEF Roles
<1>4. Here \in Seq(SyncFrames(n, m))
  BY <1>1, <1>3, PushTyped DEF Here
<1>5. \A op : Use(op) => /\ fuel' \in Nat
                         /\ UNCHANGED <<curDW, bottomDW, winds, handlers, env>>
  BY <1>1 DEF Use
<1>6. CASE UserReturn
  <2>1. Running(stack', call', n, m)
    BY <1>1, <1>6, PopTyped DEF UserReturn, Cont
  <2> QED
    BY <1>1, <1>2, <1>6, <2>1, KeepsMost DEF UserReturn
<1>7. CASE UserWind
  <2>1. Running(stack', call', n, m)
    BY <1>1, <1>3, <1>4, <1>7, WindTyped DEF UserWind
  <2> QED
    BY <1>1, <1>2, <1>5, <1>7, <2>1, KeepsMost DEF UserWind
<1>8. CASE UserCallCC
  <2>1. Running(stack', call', n, m)
    BY <1>1, <1>3, <1>4, <1>8, CallTyped DEF UserCallCC, Apply, Running
  <2> QED
    BY <1>1, <1>2, <1>5, <1>8, <2>1, KeepsMost DEF UserCallCC
<1>9. CASE UserRaise
  <2>1. Running(stack', call', n, m)
    BY <1>1, <1>3, <1>9, CallTyped DEF UserRaise, Apply, Running
  <2> QED
    BY <1>1, <1>2, <1>5, <1>9, <2>1, KeepsMost DEF UserRaise
<1>10. CASE UserRaiseContinuable
  <2>1. Running(stack', call', n, m)
    BY <1>1, <1>4, <1>10, RaiseContinuableTyped DEF UserRaiseContinuable
  <2> QED
    BY <1>1, <1>2, <1>5, <1>10, <2>1, KeepsMost DEF UserRaiseContinuable
<1>11. CASE UserHandler
  <2> DEFINE hs == <<User("handler")>> \o handlers
  <2>1. User("handler") \in Handlers(m)
    BY <1>3 DEF User, Handlers
  <2>2. hs \in SyncHandlerLists(m)
    BY <1>1, <2>1, ConcatProperties DEF SyncHandlerLists
  <2> HIDE DEF hs
  <2>3. WithExceptionHandlers(Here, hs, User("thunk"))
    BY <1>11 DEF UserHandler, hs
  <2>4. Running(stack', call', n, m)
    BY <1>1, <1>3, <1>4, <2>2, <2>3, HandlersTyped
  <2> QED
    BY <1>1, <1>2, <1>5, <1>11, <2>4, KeepsMost DEF UserHandler
<1>12. CASE UserManaged
  <2>1. User("before") \in Thunks(m + 1) /\ User("after") \in Thunks(m + 1)
    BY <1>3 DEF User, Thunks
  <2> QED
    BY <1>4, <1>5, <1>12, <2>1, ManagedTypes DEF UserManaged, Use
<1>13. CASE UserWithEnv
  <2>1. SetEnv(m + 1) \in Thunks(m + 1) /\ SetEnv(env) \in Thunks(m + 1)
    <3>1. m + 1 \in 0..(m + 1) /\ env \in 0..(m + 1)
      BY <1>1
    <3> QED
      BY <3>1 DEF SetEnv, Thunks
  <2>2. ManagedObjectWind(Here, SetEnv(m + 1), SetEnv(env))
    BY <1>13 DEF UserWithEnv, m0
  <2> QED
    BY <1>4, <1>5, <1>13, <2>1, <2>2, ManagedTypes DEF UserWithEnv, Use
<1> QED
  BY <1>6, <1>7, <1>8, <1>9, <1>10, <1>11, <1>12, <1>13, NoThrow DEF UserStep

\* The innermost nested loop and the ones around it.
LEMMA FrontOf ==
  ASSUME NEW S, NEW N \in Seq(S), N # <<>>
  PROVE  /\ Len(N) \in Nat \ {0} /\ Last(N) = N[Len(N)] /\ Last(N) \in S
         /\ Front(N) \in Seq(S) /\ Len(Front(N)) = Len(N) - 1
         /\ \A j \in 1..(Len(N) - 1) : Front(N)[j] = N[j]
<1> DEFINE n == Len(N)
           t == Front(N)
<1>1. n \in Nat /\ n # 0
  BY EmptySeq, LenProperties
<1>2. \A i \in 1..n : N[i] \in S
  BY ElementOfSeq
<1>3. t = SubSeq(N, 1, n - 1)
  BY DEF Front
<1>4. t \in Seq(S) /\ Len(t) = n - 1 /\ \A i \in 1..(n - 1) : t[i] = N[i]
  <2>1. \A i \in 1..(n - 1) : N[i] \in S
    BY <1>2, <1>1
  <2>2. n - 1 \in Int /\ 1 \in Int
    BY <1>1
  <2> HIDE DEF n, t
  <2>3. /\ t \in Seq(S)
        /\ Len(t) = IF 1 <= n - 1 THEN n - 1 - 1 + 1 ELSE 0
        /\ \A i \in 1..(n - 1 - 1 + 1) : t[i] = N[1 + i - 1]
    BY <1>3, <2>1, <2>2, SubSeqProperties
  <2> QED
    BY <2>3, <1>1
<1>5. Last(N) = N[n] /\ N[n] \in S
  BY <1>1, <1>2 DEF Last
<1> QED
  BY <1>1, <1>4, <1>5

\* A RunSync returns.
LEMMA ReturnTypes ==
  ASSUME SyncTypes, NEW c \in SyncCalls(n0, m0), ReturnFromSync(c),
         caught' \in {"none", "caught", "passed"}, passed' \in BOOLEAN
  PROVE  SyncTypes'
<1> DEFINE k == Len(native)
<1>1. /\ n0 \in Nat /\ m0 \in Nat /\ curDW \in 0..n0 /\ env \in 0..m0 /\ fuel \in Nat
      /\ stack \in Seq(SyncFrames(n0, m0)) /\ winds \in Seq(SyncWindings(n0, m0))
      /\ objs \in Seq(Objects(m0)) /\ native \in Seq(SyncLocals(n0, m0))
  BY Typed
<1>2. /\ native # <<>> /\ native' = Front(native) /\ call' = c
      /\ handlers' = Last(native).handlers /\ bottomDW' = Last(native).bottomDW
      /\ UNCHANGED <<stack, curDW, winds, conts, objs, env, fuel>>
  BY DEF ReturnFromSync
<1>3. /\ k \in Nat \ {0} /\ Last(native) = native[k] /\ Last(native) \in SyncLocals(n0, m0)
      /\ native' \in Seq(SyncLocals(n0, m0)) /\ Len(native') = k - 1
      /\ \A j \in 1..(k - 1) : native'[j] = native[j]
  BY <1>1, <1>2, FrontOf
<1>4. \A j \in 1..k : native[j].bottomDW = BottomOf(native, j)
  BY DEF SyncTypes
<1>5. handlers' \in SyncHandlerLists(m0)
  BY <1>2, <1>3 DEF SyncLocals
<1> HIDE DEF k
<1>6. \A j \in 1..k : BottomOf(native', j) = BottomOf(native, j)
  <2> TAKE j \in 1..k
  <2>1. j # 1 => j - 1 \in 1..(k - 1)
    BY <1>3
  <2>2. j # 1 => native'[j - 1] = native[j - 1]
    BY <1>3, <2>1
  <2> QED
    BY <2>2 DEF BottomOf
<1>7. /\ bottomDW' = BottomOf(native', Len(native') + 1)
      /\ \A j \in 1..Len(native') : native'[j].bottomDW = BottomOf(native', j)
  <2>1. Len(native') + 1 = k /\ k \in 1..k /\ \A j \in 1..(k - 1) : j \in 1..k
    BY <1>3
  <2>2. native[k].bottomDW = BottomOf(native, k) /\ BottomOf(native', k) = BottomOf(native, k)
    BY <1>4, <1>6, <2>1
  <2>3. bottomDW' = BottomOf(native', k)
    BY <1>2, <1>3, <2>2
  <2>4. \A j \in 1..(k - 1) : native'[j].bottomDW = BottomOf(native', j)
    BY <1>3, <1>4, <1>6, <2>1
  <2> QED
    BY <1>3, <2>1, <2>3, <2>4
<1> QED
  BY <1>1, <1>2, <1>3, <1>5, <1>7 DEF SyncTypes, n0, m0

\* A RunSync is called.
LEMMA RunSyncTypes ==
  ASSUME SyncTypes, UserRunSync, passed' \in BOOLEAN
  PROVE  SyncTypes'
<1> DEFINE k == Len(native)
<1>1. /\ n0 \in Nat /\ m0 \in Nat /\ curDW \in 0..n0 /\ env \in 0..m0 /\ fuel \in Nat
      /\ stack \in Seq(SyncFrames(n0, m0)) /\ winds \in Seq(SyncWindings(n0, m0))
      /\ objs \in Seq(Objects(m0)) /\ native \in Seq(SyncLocals(n0, m0))
      /\ handlers \in SyncHandlerLists(m0) /\ bottomDW \in 0..n0 /\ Len(stack) \in Nat
      /\ k \in Nat
  BY Typed, BottomTyped
<1>2. /\ native' = Append(native, Local) /\ handlers' = <<Catch>> /\ bottomDW' = curDW
      /\ stack' = Push(stack, [fn |-> "Break"], curDW)
      /\ call' = Closure(User("thunk"), curDW) /\ fuel' \in Nat
      /\ UNCHANGED <<curDW, winds, conts, objs, env, caught>>
  BY <1>1 DEF UserRunSync, Apply
<1>3. Local \in SyncLocals(n0, m0) /\ Local.bottomDW = bottomDW /\ Local.dw = curDW
  BY <1>1 DEF Local, SyncLocals
<1>4. /\ native' \in Seq(SyncLocals(n0, m0)) /\ Len(native') = k + 1
      /\ \A j \in 1..k : native'[j] = native[j]
      /\ native'[k + 1] = Local
  <2> HIDE DEF Local
  <2> QED
    BY <1>1, <1>2, <1>3, AppendProperties
<1>5. handlers' \in SyncHandlerLists(m0)
  BY <1>2 DEF SyncHandlerLists, Catch
<1>6. Running(stack', call', n0, m0)
  <2>1. [fn |-> "Break"] \in SyncContinuations(n0, m0) /\ User("thunk") \in SyncPending(n0, m0)
    BY <1>1, SimpleTyped DEF Roles
  <2> QED
    BY <1>1, <1>2, <2>1, PushTyped, CallTyped DEF Running
<1>7. bottomDW = BottomOf(native, k + 1)
      /\ \A j \in 1..k : native[j].bottomDW = BottomOf(native, j)
  BY DEF SyncTypes
<1>8. caught' \in {"none", "caught", "passed"}
  BY <1>2 DEF SyncTypes
<1> HIDE DEF k, Local
<1>9. \A j \in 1..(k + 1) : BottomOf(native', j) = BottomOf(native, j)
  <2> TAKE j \in 1..(k + 1)
  <2>1. j # 1 => j - 1 \in 1..k
    BY <1>1
  <2>2. j # 1 => native'[j - 1] = native[j - 1]
    BY <1>4, <2>1
  <2> QED
    BY <2>2 DEF BottomOf
<1>10. \A j \in 1..(k + 1) : native'[j].bottomDW = BottomOf(native', j)
  <2> TAKE j \in 1..(k + 1)
  <2>1. CASE j = k + 1
    BY <2>1, <1>3, <1>4, <1>7, <1>9
  <2>2. CASE j # k + 1
    <3>1. j \in 1..k
      BY <1>1, <2>2
    <3> QED
      BY <3>1, <1>4, <1>7, <1>9
  <2> QED
    BY <2>1, <2>2
<1>11. bottomDW' = BottomOf(native', (k + 1) + 1)
  <2>1. (k + 1) + 1 # 1 /\ ((k + 1) + 1) - 1 = k + 1
    BY <1>1
  <2>2. BottomOf(native', (k + 1) + 1) = native'[k + 1].dw
    BY <2>1 DEF BottomOf
  <2> QED
    BY <2>2, <1>2, <1>3, <1>4
<1> QED
  BY <1>1, <1>2, <1>4, <1>5, <1>6, <1>8, <1>10, <1>11 DEF SyncTypes, Running, n0, m0

LEMMA SyncTurnTypes ==
  ASSUME SyncTypes, NothingSaved, SyncTurn
  PROVE  SyncTypes'
<1>1. passed' \in BOOLEAN
  BY DEF SyncTurn, SyncTypes
<1>2. /\ n0 \in Nat /\ m0 \in Nat /\ curDW \in 0..n0 /\ fuel \in Nat
      /\ stack \in Seq(SyncFrames(n0, m0)) /\ call.run \in SyncPending(n0, m0)
      /\ handlers \in SyncHandlerLists(m0) /\ bottomDW \in 0..n0
      /\ caught \in {"none", "caught", "passed"}
  BY Typed, BottomTyped DEF SyncTypes
<1>3. /\ Bottom \in SyncCalls(n0, m0) /\ Raise \in SyncPending(n0, m0)
      /\ Closure(Raise, curDW) \in SyncCalls(n0, m0)
      /\ Closure(User("main"), curDW) \in SyncCalls(n0, m0)
  <2>1. Bottom \in SyncCalls(n0, m0) /\ Raise \in SyncPending(n0, m0)
    BY <1>2, SimpleTyped
  <2>2. User("main") \in SyncPending(n0, m0)
    BY <1>2, SimpleTyped DEF Roles
  <2> QED
    BY <1>2, <2>1, <2>2, CallTyped
<1>4. CASE Turn /\ UNCHANGED <<native, caught>>
  <2>1. ~EscapeStep
    <3>1. call.run.fn \notin {"Escape", "Restore"}
      BY <1>2, SyncCaptures
    <3> QED
      BY <3>1 DEF EscapeStep, CallEscape, Restore, Calling
  <2> QED
    BY <1>1, <1>4, <2>1, WindStepTypes, TraverseStepTypes, RaiseStepTypes, ObjectStepTypes,
       UserStepTypes DEF Turn
<1>5. CASE UserRunSync
  BY <1>1, <1>5, RunSyncTypes
<1>6. CASE UserCompileError
  <2>1. Running(stack', call', n0, m0)
    BY <1>2, <1>3, <1>6 DEF UserCompileError, Apply, Running
  <2>2. fuel' \in Nat /\ caught' \in {"none", "caught", "passed"}
    BY <1>2, <1>6 DEF UserCompileError
  <2> QED
    BY <1>1, <1>2, <1>6, <2>1, <2>2, KeepsMost DEF UserCompileError
<1>7. CASE RaiseToBottom
  <2>1. Head(handlers) = Catch
    BY <1>7 DEF RaiseToBottom, IsPair
  <2>2. Catch \in SyncContinuations(n0, m0)
    BY <1>2, SimpleTyped DEF Catch
  <2>3. Traverse(curDW, bottomDW) \in SyncPending(n0, m0)
    BY <1>2, SimpleTyped
  <2>4. Running(stack', call', n0, m0)
    BY <1>2, <1>7, <2>1, <2>2, <2>3, PushTyped, CallTyped DEF RaiseToBottom, Apply, Running
  <2> QED
    BY <1>1, <1>2, <1>7, <2>4, KeepsMost DEF RaiseToBottom
<1>8. CASE Break
  <2>1. Running(stack', call', n0, m0) /\ caught' \in {"none", "caught", "passed"}
    BY <1>2, <1>3, <1>8 DEF Break, Running
  <2> QED
    BY <1>1, <1>2, <1>8, <2>1, KeepsMost DEF Break
<1>9. CASE CallCatch
  <2>1. Running(stack', call', n0, m0) /\ caught' \in {"none", "caught", "passed"}
    BY <1>2, <1>3, <1>9 DEF CallCatch, Running
  <2> QED
    BY <1>1, <1>2, <1>9, <2>1, KeepsMost DEF CallCatch
<1>10. CASE SyncResult
  BY <1>1, <1>2, <1>3, <1>10, ReturnTypes DEF SyncResult
<1>11. CASE SyncPassError
  BY <1>1, <1>3, <1>11, ReturnTypes DEF SyncPassError
<1>12. CASE SyncRaiseError
  BY <1>1, <1>2, <1>3, <1>12, ReturnTypes DEF SyncRaiseError
<1> QED
  BY <1>4, <1>5, <1>6, <1>7, <1>8, <1>9, <1>10, <1>11, <1>12 DEF SyncTurn

LEMMA SyncHostTypes ==
  ASSUME SyncTypes, native = <<>>, HostCall, UNCHANGED <<native, caught, passed>>
  PROVE  SyncTypes'
<1>1. /\ n0 \in Nat /\ m0 \in Nat /\ curDW \in 0..n0 /\ fuel \in Nat
      /\ stack \in Seq(SyncFrames(n0, m0))
      /\ caught \in {"none", "caught", "passed"} /\ passed \in BOOLEAN
  BY Typed DEF SyncTypes
<1>2. User("main") \in SyncPending(n0, m0)
  BY <1>1, SimpleTyped DEF Roles
<1>3. Running(stack', call', n0, m0) /\ fuel' \in Nat
  BY <1>1, <1>2, CallTyped DEF HostCall, Apply, Running
<1> QED
  BY <1>1, <1>3, KeepsMost DEF HostCall

LEMMA SyncInitTypes == SyncInit => SyncTypes /\ NothingSaved
<1> SUFFICES ASSUME SyncInit PROVE SyncTypes /\ NothingSaved
  OBVIOUS
<1>1. /\ stack = <<>> /\ call = Bottom /\ curDW = 0 /\ bottomDW = 0 /\ winds = <<>>
      /\ handlers = <<>> /\ conts = <<>> /\ objs = <<>> /\ env = 0 /\ fuel = MaxOps
      /\ native = <<>> /\ caught = "none" /\ passed = FALSE
  BY DEF SyncInit, Init
<1>2. fuel \in Nat
  BY <1>1, OpsAssumption
<1>3. call \in SyncCalls(0, 0) /\ Len(winds) = 0 /\ Len(objs) = 0 /\ Len(native) = 0
  BY <1>1, SimpleTyped, EmptySeq
<1>4. bottomDW = BottomOf(native, Len(native) + 1)
  BY <1>1, <1>3 DEF BottomOf
<1>5. \A S : <<>> \in Seq(S)
  BY EmptySeq
<1>6. /\ stack \in Seq(SyncFrames(0, 0)) /\ winds \in Seq(SyncWindings(0, 0))
      /\ objs \in Seq(Objects(0)) /\ native \in Seq(SyncLocals(0, 0))
      /\ handlers \in SyncHandlerLists(0)
  BY <1>1, <1>5 DEF SyncHandlerLists
<1>7. curDW \in 0..0 /\ env \in 0..0 /\ 1..Len(native) = {}
  BY <1>1, <1>3
<1>8. SyncTypes
  BY <1>1, <1>2, <1>3, <1>4, <1>6, <1>7 DEF SyncTypes
<1> QED
  BY <1>1, <1>8 DEF NothingSaved

LEMMA SavedStep ==
  ASSUME NoEscapes, NothingSaved, [SyncNext]_syncVars PROVE NothingSaved'
<1> SUFFICES ASSUME "throw" \in Ops PROVE conts' = conts
  BY DEF NothingSaved
<1>1. ~UserCallCC
  BY DEF NoEscapes, UserCallCC, Use
<1>2. CASE UNCHANGED syncVars
  BY <1>2 DEF syncVars, vars
<1>3. CASE WindStep
  BY <1>3 DEF WindStep, WindBody, WindExit, Forward
<1>4. CASE TraverseStep
  BY <1>4 DEF TraverseStep, TraverseArrive, TraverseDown, TraverseUp, ContinueUp, EnterWind,
              SetDW
<1>5. CASE EscapeStep
  BY <1>5 DEF EscapeStep, CallEscape, Restore
<1>6. CASE RaiseStep
  BY <1>6 DEF RaiseStep, CallSetHandlers, RaiseUncaught, RaiseToHandler, CallHandlerThunk,
              RaiseAgain
<1>7. CASE ObjectStep
  BY <1>7 DEF ObjectStep, ErrorThunk, SafeBefore, SafeAfter, ErrorHandler, ClearMark, Destroy,
              DestroyAgain, CallSetEnv
<1>8. CASE UserStep
  BY <1>1, <1>8 DEF UserStep, UserReturn, UserWind, UserThrow, UserRaise,
                    UserRaiseContinuable, UserHandler, UserManaged, UserWithEnv
<1>9. CASE HostCall
  BY <1>9 DEF HostCall
<1>10. CASE \/ UserRunSync \/ UserCompileError \/ RaiseToBottom \/ Break
            \/ CallCatch \/ SyncResult \/ SyncPassError \/ SyncRaiseError
  BY <1>10 DEF UserRunSync, UserCompileError, RaiseToBottom, Break, CallCatch, SyncResult,
               SyncPassError, SyncRaiseError, ReturnFromSync
<1> QED
  BY <1>2, <1>3, <1>4, <1>5, <1>6, <1>7, <1>8, <1>9, <1>10 DEF SyncNext, SyncTurn, Turn

-----------------------------------------------------------------------------
(* A view of the loops *)

\* A view K of a state says which of its frames and windings are accounted
\* for, and as what:
\*   W, T, N    the windings, the thunks of the objects, the nested calls
\*   lo, base   the frame from which on the stack is accounted for and the
\*              winding control was in when it was pushed: 0 and 0, or those
\*              of the outermost nested loop
\*   G, G0      the windings around control now or when a frame accounted for
\*              was pushed; those of them opened by the outermost loop
\*   P, X       for each such winding, those around it up to base, and the
\*              context of its extent
\* Frames of the outermost loop need handlers and environment, those of nested
\* loops only the environment: CatchHandler may be installed by an After thunk
\* that an error passed on has not called yet.

\* The loop frame i belongs to, and the one that runs.
Loop(K, i) == IF K.N = <<>> \/ (K.lo = 0 /\ i <= K.N[1].top + 1) THEN "outer" ELSE "inner"
LoopNow(K) == IF K.N = <<>> THEN "outer" ELSE "inner"

Same(l, x, y) == x.env = y.env /\ (l = "outer" => x.hs = y.hs)

\* The handler list of a nested loop ends in CatchHandler, the outermost one
\* does not know it.
NoCatch(hs) == \A i \in 1..Len(hs) : hs[i] # Catch
EndsInCatch(hs) ==
  hs # <<>> /\ hs[Len(hs)] = Catch /\ \A i \in 1..(Len(hs) - 1) : hs[i] # Catch
Suits(l, hs) == IF l = "outer" THEN NoCatch(hs) ELSE EndsInCatch(hs)
InstallsFor(l, p) == p.fn = "SetHandlers" => Suits(l, p.hs)

\* The windings opened by a loop, and those its frames may be at.
Opened(K, l) == IF l = "outer" THEN K.G0 ELSE K.G \ K.G0
Zone(K, l) == Opened(K, l) \cup {IF l = "outer" THEN K.base ELSE K.N[1].dw}

DepthIn(W, w) == IF w = 0 THEN 0 ELSE W[w].depth

\* The winding of object o, opened in context x, restores it.
ObjectUndoes(o, T, x) ==
  LET inside == Effect(OfObject("SafeBefore", o), T, x)
  IN Effect(OfObject("SafeAfter", o), T, inside) = x /\ x.env <= inside.env

\* Winding w of loop l: its thunks change the context of its parent to its own
\* and back, and it is inside whatever its parent is.
WindingIn(K, l, w) ==
  LET u == K.W[w].parent
  IN /\ u \in Zone(K, l)
     /\ K.P[w] = K.P[u] \cup {w}
     /\ \A a \in K.P[u] : DepthIn(K.W, a) < DepthIn(K.W, w) /\ K.X[a].env <= K.X[w].env
     /\ IsBefore(K.W[w].before) /\ IsAfter(K.W[w].after)
     /\ Same(l, Effect(K.W[w].before, K.T, K.X[u]), K.X[w])
     /\ Same(l, Effect(K.W[w].after, K.T, K.X[w]), K.X[u])
     /\ InstallsFor(l, K.W[w].before) /\ InstallsFor(l, K.W[w].after)

LoopOf(K, w) == IF w \in K.G0 THEN "outer" ELSE "inner"

TreeOf(K) ==
  /\ K.G \subseteq 1..Len(K.W) /\ K.G0 \subseteq K.G
  /\ K.base \in 0..Len(K.W) /\ K.base \notin K.G
  /\ K.P[K.base] = {K.base}
  /\ K.N = <<>> => K.G0 = K.G
  /\ \A w \in K.G \cup {K.base} :
       /\ w \in K.P[w] /\ K.base \in K.P[w]
       /\ K.P[w] \subseteq K.G \cup {K.base}
       /\ w \in K.G0 => K.P[w] \subseteq K.G0 \cup {K.base}
       /\ \A a \in K.P[w] : K.P[a] \subseteq K.P[w]
       /\ K.X[w].env \in Int
  /\ \A w \in K.G : WindingIn(K, LoopOf(K, w), w)

\* Nested call j over stack s with pending call c: its PushBreak frame is there
\* or called, it was called inside the extents of those before it, and it keeps
\* what its caller needs.
Nested(K, s, c, j) ==
  LET r == K.N[j]
  IN /\ r.top \in Nat /\ r.top <= Len(s)
     /\ r.top < Len(s) => s[r.top + 1] = Closure([fn |-> "Break"], r.dw)
     /\ r.top = Len(s) => c.run.fn = "Break"
     /\ \A i \in 1..(j - 1) : K.N[i].top < r.top /\ K.N[i].dw \in K.P[r.dw]
     /\ r.dw \in Zone(K, IF j = 1 /\ K.lo = 0 THEN "outer" ELSE "inner")
     /\ r.env = K.X[r.dw].env
     /\ IF j = 1 THEN K.lo = 0 => NoCatch(r.handlers) /\ r.handlers = K.X[r.dw].hs
        ELSE EndsInCatch(r.handlers)

Natives(K, s, c) ==
  /\ Len(K.N) \in Nat /\ (K.N = <<>> <=> Len(K.N) = 0)
  /\ \/ K.lo = 0 /\ K.base = 0 /\ K.X[0] = Base
     \/ K.N # <<>> /\ K.lo = K.N[1].top + 1 /\ K.base = K.N[1].dw /\ K.G0 = {}
  /\ \A j \in 1..Len(K.N) : Nested(K, s, c, j)

-----------------------------------------------------------------------------
(* Frames *)

\* Procedures that raise, stop the loop with an error, or raise again when what
\* they call returns.
Final(p) ==
  \/ p.fn \in {"Raise", "RaiseAgain", "Catch"}
  \/ FailsOnReturn(p)
  \/ p.fn = "WindBody" /\ FailsOnReturn(p.thunk)

\* The handler lists that are captured suit the loop.
Captured(l, p) ==
  /\ InstallsFor(l, p)
  /\ p.fn = "WindBody" => InstallsFor(l, p.before) /\ InstallsFor(l, p.after)

\* A winding about to be opened restores the context it is opened in.
Restoring(K, l, f) == f.run.fn = "WindBody" =>
  LET inside == Effect(f.run.before, K.T, K.X[f.at])
  IN /\ IsBefore(f.run.before) /\ IsAfter(f.run.after) /\ ~Changes(f.run.thunk)
     /\ Same(l, Effect(f.run.after, K.T, inside), K.X[f.at])
     /\ K.X[f.at].env <= inside.env
     /\ f.run.thunk.fn = "ErrorThunk" => ObjectUndoes(f.run.thunk.o, K.T, inside)

\* What a frame of loop l says of the extents: it only ever travels up.
Body(K, l, f) ==
  LET p == f.run
  IN /\ f.at \in Zone(K, l) /\ LeadsTo(f) \in Zone(K, l)
     /\ p.fn \notin {"EnterWind", "SetDW"}
     /\ p.fn = "WindExit" => /\ f.at \in Opened(K, l)
                             /\ p.prev = K.W[f.at].parent /\ p.after = K.W[f.at].after
     /\ p.fn = "ContinueUp" => f.at = K.W[p.src].parent /\ p.dest \in K.P[f.at]
     /\ p.fn = "Traverse" => p.src = f.at /\ p.dest \in K.P[f.at]
     /\ Captured(l, p)
     /\ Restoring(K, l, f)

\* What frame i says of the nested calls: it is inside those below it, CatchHandler
\* belongs to the innermost of them, and PushBreak and Bottom are where they were
\* put.
Within(K, i, w) == \A j \in 1..Len(K.N) : K.N[j].top < i => K.N[j].dw \in K.P[w]

Loops(K, i, f) ==
  /\ Within(K, i, f.at) /\ Within(K, i, LeadsTo(f))
  /\ f.run.fn = "Catch" => \E j \in 1..Len(K.N) :
       K.N[j].dw = f.at /\ K.N[j].top < i /\ \A k \in (j + 1)..Len(K.N) : i <= K.N[k].top
  /\ f.run.fn = "Break" => \E j \in 1..Len(K.N) : K.N[j].dw = f.at /\ i = K.N[j].top + 1
  /\ f.run.fn = "Bottom" => K.N = <<>> /\ i = 1 /\ f.at = 0

Frame(K, i, f) == Body(K, Loop(K, i), f) /\ Loops(K, i, f)

\* f leaves the extent and the context that g below it needs; the lowest frame
\* accounted for need not.
Hands(K, i, f, g) ==
  \/ Final(f.run)
  \/ i <= K.lo
  \/ LeadsTo(f) = g.at /\ Same(Loop(K, i), K.X[LeadsTo(f)], Needs(g, K.X, K.T))

\* Something above frame i of s never returns to it, if c is the pending call.
Dead(s, i, c) == Final(c.run) \/ \E j \in (i + 1)..Len(s) : Final(s[j].run)

Chained(K, s, c) == \A i \in 1..Len(s) : i >= K.lo =>
  (Frame(K, i, s[i]) /\ Hands(K, i, s[i], Below(s, i))) \/ Dead(s, i, c)

\* Closure c may be called as frame i in context x with g below it.
CallIn(K, i, c, g, x) ==
  LET l == LoopNow(K)
  IN /\ Frame(K, i, c)
     /\ IF Changes(c.run)
        THEN c.at = g.at /\ Same(l, Effect(c.run, K.T, x), Needs(g, K.X, K.T))
        ELSE Same(l, x, Needs(c, K.X, K.T)) /\ Hands(K, i, c, g)
     /\ c.run.fn = "SafeBefore" => Same(l, x, K.X[c.at])
     /\ c.run.fn = "SafeAfter" => Same(l, Effect(c.run, K.T, x), K.X[c.at])
     /\ c.run.fn = "ErrorThunk" => ObjectUndoes(c.run.o, K.T, K.X[c.at])

\* Stack s with pending call c in context x is as view K says.
Sound(K, s, c, x) ==
  /\ TreeOf(K) /\ Natives(K, s, c) /\ Chained(K, s, c)
  /\ CallIn(K, Len(s) + 1, c, Top(s), x)
  /\ Suits(LoopNow(K), x.hs)

\* What the innermost loop comes to: a RunSync about to return has reached its
\* PushBreak frame or ends with an error.
Coming ==
  IF Halted /\ native # <<>>
  THEN IF caught = "none" THEN Closure([fn |-> "Break"], Last(native).dw)
       ELSE Closure(Raise, curDW)
  ELSE call

Viewed(K) ==
  /\ K.W = winds /\ K.T = T0 /\ K.N = native
  /\ ~passed => K.lo = 0
  /\ Sound(K, stack, Coming, Now)
  /\ Coming.at = curDW

\* After an error passed on has reached the outermost loop nothing is claimed
\* until another nested loop is entered.
SyncInv ==
  /\ SyncTypes /\ NothingSaved /\ ObjectsSetEnv(T0)
  /\ caught = "passed" => passed
  /\ Returning => /\ env = Last(native).env
                  /\ caught # "passed" => curDW = Last(native).dw
  /\ native # <<>> \/ ~passed => \E K : Viewed(K)

-----------------------------------------------------------------------------
(* What follows from a view *)

\* Control may be at winding w with every nested loop active.
Reached(K, w) ==
  w \in Zone(K, LoopNow(K)) /\ \A j \in 1..Len(K.N) : K.N[j].dw \in K.P[w]

LEMMA NestedKept ==
  ASSUME NEW K, NEW s, NEW c, NEW t, NEW c2, NEW j, Nested(K, s, c, j),
         K.N[j].top <= Len(t),
         K.N[j].top < Len(t) => t[K.N[j].top + 1] = Closure([fn |-> "Break"], K.N[j].dw),
         K.N[j].top = Len(t) => c2.run.fn = "Break"
  PROVE  Nested(K, t, c2, j)
BY DEF Nested

\* While a procedure other than PushBreak's runs, the frames of PushBreak are
\* all on the stack.
LEMMA SoundFacts ==
  ASSUME NEW K, NEW S, NEW s \in Seq(S), NEW c, NEW x, Sound(K, s, c, x),
         c.run.fn # "Break"
  PROVE  /\ Len(s) \in Nat /\ K.lo \in Nat /\ K.lo <= Len(s) /\ Len(K.N) \in Nat
         /\ \A j \in 1..Len(K.N) : /\ K.N[j].top \in Nat /\ K.N[j].top < Len(s)
                                   /\ s[K.N[j].top + 1] = Closure([fn |-> "Break"], K.N[j].dw)
         /\ Loop(K, Len(s) + 1) = LoopNow(K) /\ Loop(K, Len(s) + 2) = LoopNow(K)
         /\ Reached(K, c.at) /\ Reached(K, LeadsTo(c)) /\ Body(K, LoopNow(K), c)
         /\ K.N # <<>> <=> 1 \in 1..Len(K.N)
<1> DEFINE n == Len(s)
           k == Len(K.N)
<1>1. n \in Nat
  BY LenProperties
<1>2. /\ k \in Nat /\ (K.N = <<>> <=> k = 0)
      /\ \/ K.lo = 0 /\ K.base = 0 /\ K.X[0] = Base
         \/ K.N # <<>> /\ K.lo = K.N[1].top + 1 /\ K.base = K.N[1].dw /\ K.G0 = {}
      /\ \A j \in 1..k : Nested(K, s, c, j)
  BY DEF Sound, Natives
<1>3. \A j \in 1..k : /\ K.N[j].top \in Nat /\ K.N[j].top < n
                      /\ s[K.N[j].top + 1] = Closure([fn |-> "Break"], K.N[j].dw)
  <2> TAKE j \in 1..k
  <2>1. /\ K.N[j].top \in Nat /\ K.N[j].top <= n /\ K.N[j].top # n
        /\ K.N[j].top < n => s[K.N[j].top + 1] = Closure([fn |-> "Break"], K.N[j].dw)
    BY <1>2 DEF Nested
  <2> QED
    BY <2>1, <1>1
<1>4. CallIn(K, n + 1, c, Top(s), x)
  BY DEF Sound
<1> HIDE DEF n, k
<1>5. K.N # <<>> <=> 1 \in 1..k
  BY <1>2
<1>6. K.lo \in Nat /\ K.lo <= n
  BY <1>1, <1>2, <1>3, <1>5
<1>7. Loop(K, n + 1) = LoopNow(K) /\ Loop(K, n + 2) = LoopNow(K)
  <2>1. CASE K.N = <<>>
    BY <2>1 DEF Loop, LoopNow
  <2>2. CASE K.N # <<>>
    <3>1. ~(n + 1 <= K.N[1].top + 1) /\ ~(n + 2 <= K.N[1].top + 1)
      BY <2>2, <1>1, <1>3, <1>5
    <3> QED
      BY <2>2, <3>1 DEF Loop, LoopNow
  <2> QED
    BY <2>1, <2>2
<1>8. Body(K, LoopNow(K), c) /\ Loops(K, n + 1, c)
  BY <1>4, <1>7 DEF CallIn, Frame
<1>9. Reached(K, c.at) /\ Reached(K, LeadsTo(c))
  <2>1. \A j \in 1..k : K.N[j].top < n + 1
    BY <1>1, <1>3
  <2>2. \A j \in 1..k : K.N[j].dw \in K.P[c.at] /\ K.N[j].dw \in K.P[LeadsTo(c)]
    BY <1>8, <2>1 DEF Loops, Within, k
  <2>3. c.at \in Zone(K, LoopNow(K)) /\ LeadsTo(c) \in Zone(K, LoopNow(K))
    BY <1>8 DEF Body
  <2> QED
    BY <2>2, <2>3 DEF Reached, k
<1> QED
  BY <1>1, <1>2, <1>3, <1>5, <1>6, <1>7, <1>8, <1>9 DEF n, k

\* A frame is pushed and a procedure called.
LEMMA PushSound ==
  ASSUME NEW K, NEW S, NEW s \in Seq(S), NEW c, NEW x, Sound(K, s, c, x),
         c.run.fn # "Break",
         NEW p, NEW d, Closure(p, d) \in S, NEW c2, NEW x2,
         Frame(K, Len(s) + 1, Closure(p, d)),
         Hands(K, Len(s) + 1, Closure(p, d), Top(s)) \/ Final(c2.run),
         Final(c.run) => Final(p) \/ Final(c2.run),
         CallIn(K, Len(s) + 2, c2, Closure(p, d), x2), Suits(LoopNow(K), x2.hs)
  PROVE  Sound(K, Push(s, p, d), c2, x2) /\ Push(s, p, d) \in Seq(S)
<1> DEFINE f == Closure(p, d)
           t == Push(s, p, d)
           n == Len(s)
<1>1. /\ n \in Nat /\ t \in Seq(S) /\ Len(t) = n + 1
      /\ \A i \in 1..n : t[i] = s[i] /\ Below(t, i) = Below(s, i)
      /\ t[n + 1] = f /\ Below(t, n + 1) = Top(s) /\ Top(t) = f
  BY PushFrames
<1>2. f.run = p
  BY DEF Closure
<1>3. /\ TreeOf(K) /\ Natives(K, s, c)
      /\ \A i \in 1..n : i >= K.lo =>
           (Frame(K, i, s[i]) /\ Hands(K, i, s[i], Below(s, i))) \/ Dead(s, i, c)
  BY DEF Sound, Chained
<1>4. \A j \in 1..Len(K.N) : /\ K.N[j].top \in Nat /\ K.N[j].top < n
                             /\ s[K.N[j].top + 1] = Closure([fn |-> "Break"], K.N[j].dw)
  BY SoundFacts
<1>5. /\ Frame(K, n + 1, f) /\ (Hands(K, n + 1, f, Top(s)) \/ Final(c2.run))
      /\ CallIn(K, n + 2, c2, f, x2)
  OBVIOUS
<1> HIDE DEF f, t, n
<1>6. Natives(K, t, c2)
  <2>1. ASSUME NEW j \in 1..Len(K.N)
        PROVE  Nested(K, t, c2, j)
    <3> DEFINE a == K.N[j].top
    <3>1. a \in Nat /\ a < n /\ s[a + 1] = Closure([fn |-> "Break"], K.N[j].dw)
      BY <1>4
    <3>2. a < Len(t) /\ a <= Len(t) /\ a # Len(t) /\ a + 1 \in 1..n
      BY <1>1, <3>1
    <3>3. t[a + 1] = s[a + 1]
      BY <1>1, <3>2
    <3>4. Nested(K, s, c, j)
      BY <1>3 DEF Natives
    <3> QED
      BY <3>1, <3>2, <3>3, <3>4, NestedKept
  <2> QED
    BY <1>3, <2>1 DEF Natives
<1>7. \A i \in 1..(n + 1) : i = n + 1 \/ i \in 1..n
  BY <1>1
<1>8. ASSUME NEW i \in 1..(n + 1), i >= K.lo
      PROVE  (Frame(K, i, t[i]) /\ Hands(K, i, t[i], Below(t, i))) \/ Dead(t, i, c2)
  <2>1. CASE i = n + 1
    BY <2>1, <1>1, <1>5 DEF Dead
  <2>2. CASE i \in 1..n
    <3>1. (Frame(K, i, s[i]) /\ Hands(K, i, s[i], Below(s, i))) \/ Dead(s, i, c)
      BY <2>2, <1>3, <1>8
    <3>2. ASSUME NEW j \in (i + 1)..n, Final(s[j].run)
          PROVE  Dead(t, i, c2)
      <4>1. j \in 1..n /\ j \in (i + 1)..(n + 1)
        BY <1>1, <2>2
      <4> QED
        BY <3>2, <4>1, <1>1 DEF Dead
    <3>3. Final(p) => Dead(t, i, c2)
      <4>1. n + 1 \in (i + 1)..(n + 1)
        BY <1>1, <2>2
      <4> QED
        BY <4>1, <1>1, <1>2 DEF Dead
    <3>4. Final(c2.run) => Dead(t, i, c2)
      BY DEF Dead
    <3>5. Dead(s, i, c) => Dead(t, i, c2)
      BY <3>2, <3>3, <3>4 DEF Dead, n
    <3> QED
      BY <2>2, <3>1, <3>5, <1>1
  <2> QED
    BY <2>1, <2>2, <1>7
<1>9. Chained(K, t, c2)
  BY <1>1, <1>8 DEF Chained
<1>10. CallIn(K, Len(t) + 1, c2, Top(t), x2)
  <2>1. Len(t) + 1 = n + 2
    BY <1>1
  <2> QED
    BY <2>1, <1>1, <1>5
<1> QED
  BY <1>1, <1>3, <1>6, <1>9, <1>10 DEF Sound, t

\* Another procedure is called over the same stack.
LEMMA CallSound ==
  ASSUME NEW K, NEW S, NEW s \in Seq(S), NEW c, NEW x, Sound(K, s, c, x),
         c.run.fn # "Break", NEW c2, NEW x2, Final(c.run) => Final(c2.run),
         CallIn(K, Len(s) + 1, c2, Top(s), x2), Suits(LoopNow(K), x2.hs)
  PROVE  Sound(K, s, c2, x2)
<1>1. TreeOf(K) /\ Natives(K, s, c) /\ Chained(K, s, c)
  BY DEF Sound
<1>2. Chained(K, s, c2)
  BY <1>1 DEF Chained, Dead
<1>3. ASSUME NEW j \in 1..Len(K.N)
      PROVE  Nested(K, s, c2, j)
  <2>1. /\ K.N[j].top \in Nat /\ K.N[j].top < Len(s) /\ Len(s) \in Nat
        /\ s[K.N[j].top + 1] = Closure([fn |-> "Break"], K.N[j].dw)
    BY SoundFacts
  <2>2. K.N[j].top <= Len(s) /\ K.N[j].top # Len(s)
    BY <2>1
  <2>3. Nested(K, s, c, j)
    BY <1>1 DEF Natives
  <2> QED
    BY <2>1, <2>2, <2>3, NestedKept
<1>4. Natives(K, s, c2)
  BY <1>1, <1>3 DEF Natives
<1> QED
  BY <1>1, <1>2, <1>4 DEF Sound

\* What the frames of a stack are not.
LEMMA FramesPlain ==
  ASSUME NEW n \in Nat, NEW m \in Nat, NEW s \in Seq(SyncFrames(n, m))
  PROVE  /\ ~Changes(Top(s).run)
         /\ Top(s).run.fn \notin {"ErrorThunk", "SafeBefore", "SafeAfter"}
<1>1. CASE s = <<>>
  BY <1>1 DEF Top, Bottom, Closure, Changes
<1>2. CASE s # <<>>
  <2>1. Top(s) \in SyncFrames(n, m)
    BY <1>2, PopFrames
  <2>2. Top(s).run \in SyncContinuations(n, m)
    BY <2>1 DEF SyncFrames
  <2>3. Top(s).run.fn \in {"User", "WindBody", "WindExit", "EnterWind", "SetDW", "ContinueUp",
                           "ClearMark", "Destroy", "Forward", "RaiseAgain", "Break", "Catch"}
    BY <2>2 DEF SyncContinuations
  <2> QED
    BY <2>3 DEF Changes
<1> QED
  BY <1>1, <1>2

\* The pending call returns to the frame on top.
LEMMA PopSound ==
  ASSUME NEW K, NEW m1 \in Nat, NEW m2 \in Nat, NEW s \in Seq(SyncFrames(m1, m2)),
         NEW c, NEW x, Sound(K, s, c, x), c.run.fn # "Break", ~Final(c.run), NEW x2,
         Same(LoopNow(K), x2, Needs(Top(s), K.X, K.T)), Suits(LoopNow(K), x2.hs)
  PROVE  Sound(K, Pop(s), Top(s), x2)
<1> DEFINE n == Len(s)
           t == Pop(s)
           g == Top(s)
<1>1. /\ TreeOf(K) /\ Natives(K, s, c) /\ Chained(K, s, c)
  BY DEF Sound
<1>2. /\ n \in Nat /\ K.lo \in Nat /\ K.lo <= n /\ Len(K.N) \in Nat
      /\ \A j \in 1..Len(K.N) : /\ K.N[j].top \in Nat /\ K.N[j].top < n
                                /\ s[K.N[j].top + 1] = Closure([fn |-> "Break"], K.N[j].dw)
      /\ (K.N # <<>> <=> 1 \in 1..Len(K.N))
  BY SoundFacts
<1>3. ~Changes(g.run) /\ g.run.fn \notin {"ErrorThunk", "SafeBefore", "SafeAfter"}
  BY FramesPlain
<1>4. CASE s = <<>>
  <2>1. n = 0 /\ t = <<>> /\ g = Bottom /\ Len(t) = 0 /\ Top(t) = Bottom
    BY <1>4, EmptySeq DEF Pop, Top
  <2>2. K.N = <<>>
    BY <1>2, <2>1
  <2>3. K.base = 0 /\ K.X[0] = Base /\ Len(K.N) = 0 /\ K.lo = 0
    BY <1>1, <2>2 DEF Natives
  <2>4. Loop(K, 1) = "outer" /\ LoopNow(K) = "outer"
    BY <2>2 DEF Loop, LoopNow
  <2>5. Bottom.at = 0 /\ Bottom.run = [fn |-> "Bottom"] /\ LeadsTo(Bottom) = 0
    BY DEF Bottom, Closure, LeadsTo
  <2>6. Frame(K, 1, Bottom)
    <3>1. 0 \in Zone(K, "outer")
      BY <2>3 DEF Zone
    <3>2. Body(K, "outer", Bottom)
      BY <2>5, <3>1 DEF Body, Captured, InstallsFor, Restoring
    <3>3. Loops(K, 1, Bottom)
      BY <2>2, <2>3, <2>5 DEF Loops, Within
    <3> QED
      BY <2>4, <3>2, <3>3 DEF Frame
  <2>7. Hands(K, 1, Bottom, Bottom)
    BY <2>5 DEF Hands, Same, Needs
  <2>8. CallIn(K, 1, g, Top(t), x2)
    BY <1>3, <2>1, <2>6, <2>7 DEF CallIn
  <2>9. Natives(K, t, g)
    BY <1>1, <2>3 DEF Natives
  <2>10. Chained(K, t, g)
    BY <2>1 DEF Chained
  <2>11. Len(t) + 1 = 1
    BY <2>1
  <2> QED
    BY <1>1, <2>8, <2>9, <2>10, <2>11 DEF Sound
<1>5. CASE s # <<>>
  <2>1. /\ n \in Nat \ {0} /\ Len(t) = n - 1
        /\ \A i \in 1..(n - 1) : t[i] = s[i] /\ Below(t, i) = Below(s, i)
        /\ g = s[n] /\ Top(t) = Below(s, n)
    BY <1>5, PopFrames
  <2>2. \A i \in 1..n : i >= K.lo =>
          (Frame(K, i, s[i]) /\ Hands(K, i, s[i], Below(s, i))) \/ Dead(s, i, c)
    BY <1>1 DEF Chained
  <2>3. \A i \in 1..n : Dead(s, i, c) => \E j \in (i + 1)..n : Final(s[j].run)
    BY DEF Dead
  <2> HIDE DEF n, t, g
  <2>4. n \in 1..n /\ (n + 1)..n = {}
    BY <2>1
  <2>5. Frame(K, n, s[n]) /\ Hands(K, n, s[n], Below(s, n))
    BY <1>2, <2>2, <2>3, <2>4
  <2>6. ASSUME NEW i \in 1..(n - 1), i >= K.lo
        PROVE  (Frame(K, i, t[i]) /\ Hands(K, i, t[i], Below(t, i))) \/ Dead(t, i, g)
    <3>1. i \in 1..n
      BY <2>1
    <3>2. CASE Frame(K, i, s[i]) /\ Hands(K, i, s[i], Below(s, i))
      BY <3>2, <2>1
    <3>3. CASE Dead(s, i, c)
      <4>1. PICK j \in (i + 1)..n : Final(s[j].run)
        BY <3>1, <3>3, <2>3
      <4>2. CASE j = n
        BY <4>1, <4>2, <2>1 DEF Dead
      <4>3. CASE j # n
        <5>1. j \in (i + 1)..(n - 1) /\ j \in 1..(n - 1)
          BY <4>3, <2>1
        <5>2. Final(t[j].run)
          BY <5>1, <4>1, <2>1
        <5> QED
          BY <5>1, <5>2, <2>1 DEF Dead
      <4> QED
        BY <4>2, <4>3
    <3> QED
      BY <3>1, <3>2, <3>3, <2>2, <2>6
  <2>7. Chained(K, t, g)
    BY <2>1, <2>6 DEF Chained
  <2>8. ASSUME NEW j \in 1..Len(K.N)
        PROVE  Nested(K, t, g, j)
    <3> DEFINE a == K.N[j].top
    <3>1. a \in Nat /\ a < n /\ s[a + 1] = Closure([fn |-> "Break"], K.N[j].dw)
      BY <1>2
    <3>2. a <= Len(t)
      BY <2>1, <3>1
    <3>3. a < Len(t) => t[a + 1] = Closure([fn |-> "Break"], K.N[j].dw)
      <4>1. a < Len(t) => a + 1 \in 1..(n - 1)
        BY <2>1, <3>1
      <4> QED
        BY <4>1, <3>1, <2>1
    <3>4. a = Len(t) => g.run.fn = "Break"
      <4>1. a = Len(t) => a + 1 = n
        BY <2>1, <3>1
      <4>2. Closure([fn |-> "Break"], K.N[j].dw).run.fn = "Break"
        BY DEF Closure
      <4> QED
        BY <4>1, <4>2, <3>1, <2>1
    <3>5. Nested(K, s, c, j)
      BY <1>1 DEF Natives
    <3> HIDE DEF a
    <3> QED
      BY <3>2, <3>3, <3>4, <3>5, NestedKept DEF a
  <2>9. Natives(K, t, g)
    BY <1>1, <2>8 DEF Natives
  <2>10. CallIn(K, n, g, Top(t), x2)
    <3>1. Same(LoopNow(K), x2, Needs(g, K.X, K.T))
      BY DEF g
    <3> QED
      BY <1>3, <2>1, <2>5, <3>1 DEF CallIn
  <2>11. Len(t) + 1 = n
    BY <2>1
  <2> QED
    BY <1>1, <2>7, <2>9, <2>10, <2>11 DEF Sound, t, g
<1> QED
  BY <1>4, <1>5

-----------------------------------------------------------------------------
(* Contexts that are the same for a loop *)

LEMMA SameIs ==
  ASSUME NEW l, NEW x, NEW y, NEW z
  PROVE  /\ Same(l, x, x)
         /\ Same(l, x, y) => Same(l, y, x)
         /\ Same(l, x, y) /\ Same(l, y, z) => Same(l, x, z)
BY DEF Same

LEMMA SameAfter ==
  ASSUME NEW l, NEW x, NEW y, NEW p, NEW T, Same(l, x, y)
  PROVE  Same(l, Effect(p, T, x), Effect(p, T, y))
BY DEF Same, Effect

\* User code has no effect.
LEMMA SameUser ==
  ASSUME NEW l, NEW x, NEW p, NEW T, p.fn = "User"
  PROVE  Same(l, Effect(p, T, x), x)
<1>1. Inner(p, T) = p
  BY DEF Inner
<1> QED
  BY <1>1 DEF Same, Effect

-----------------------------------------------------------------------------
(* Frames and calls on top of the stack *)

\* Procedures that run in one extent.
Simple(p) ==
  p.fn \in {"User", "ErrorHandler", "HandlerThunk", "SafeBefore", "SafeAfter", "ErrorThunk",
            "SetEnv", "SetHandlers", "ClearMark", "Destroy", "Forward", "RaiseAgain", "Raise"}

LEMMA SimpleBody ==
  ASSUME NEW K, NEW l, NEW p, NEW d \in Zone(K, l), Simple(p), InstallsFor(l, p)
  PROVE  Body(K, l, Closure(p, d))
<1>1. Closure(p, d).run = p /\ Closure(p, d).at = d
  BY DEF Closure
<1>2. LeadsTo(Closure(p, d)) = d
  BY <1>1 DEF LeadsTo, Simple
<1> QED
  BY <1>1, <1>2 DEF Body, Simple, Captured, Restoring

LEMMA SimpleNeeds ==
  ASSUME NEW p, NEW d, NEW X, NEW T, Simple(p)
  PROVE  /\ LeadsTo(Closure(p, d)) = d /\ Needs(Closure(p, d), X, T) = X[d]
         /\ Closure(p, d).run = p /\ Closure(p, d).at = d
BY DEF Closure, LeadsTo, Needs, Simple

\* Frames that are neither of the two RunSync pushes nor the end of the loop.
LEMMA TopFrame ==
  ASSUME NEW K, NEW S, NEW s \in Seq(S), NEW c, NEW x, Sound(K, s, c, x),
         c.run.fn # "Break", NEW i \in {Len(s) + 1, Len(s) + 2},
         NEW f, Reached(K, f.at), Reached(K, LeadsTo(f)), Body(K, LoopNow(K), f),
         f.run.fn \notin {"Catch", "Break", "Bottom"}
  PROVE  Frame(K, i, f) /\ Loop(K, i) = LoopNow(K) /\ ~(i <= K.lo)
<1>1. /\ Loop(K, Len(s) + 1) = LoopNow(K) /\ Loop(K, Len(s) + 2) = LoopNow(K)
      /\ Len(s) \in Nat /\ K.lo \in Nat /\ K.lo <= Len(s)
  BY SoundFacts
<1>2. Loop(K, i) = LoopNow(K)
  BY <1>1
<1>3. Loops(K, i, f)
  BY DEF Loops, Within, Reached
<1>4. ~(i <= K.lo)
  BY <1>1
<1> QED
  BY <1>2, <1>3, <1>4 DEF Frame

LEMMA SimpleFrame ==
  ASSUME NEW K, NEW S, NEW s \in Seq(S), NEW c, NEW x, Sound(K, s, c, x),
         c.run.fn # "Break", NEW i \in {Len(s) + 1, Len(s) + 2},
         NEW p, Simple(p), NEW d, Reached(K, d), InstallsFor(LoopNow(K), p)
  PROVE  Frame(K, i, Closure(p, d)) /\ Loop(K, i) = LoopNow(K) /\ ~(i <= K.lo)
<1>1. /\ LeadsTo(Closure(p, d)) = d /\ Closure(p, d).run = p /\ Closure(p, d).at = d
  BY SimpleNeeds
<1>2. d \in Zone(K, LoopNow(K))
  BY DEF Reached
<1>3. Body(K, LoopNow(K), Closure(p, d))
  BY <1>2, SimpleBody
<1>4. p.fn \notin {"Catch", "Break", "Bottom"}
  BY DEF Simple
<1> HIDE DEF Simple
<1> QED
  BY <1>1, <1>3, <1>4, TopFrame

\* A procedure that changes nothing is called where its context is.
LEMMA QuietCall ==
  ASSUME NEW K, NEW S, NEW s \in Seq(S), NEW c, NEW x, Sound(K, s, c, x),
         c.run.fn # "Break", NEW i \in {Len(s) + 1, Len(s) + 2},
         NEW p, Simple(p), NEW d, Reached(K, d), ~Changes(p), p.fn # "ErrorThunk",
         NEW g, NEW y, Same(LoopNow(K), y, K.X[d]),
         Final(p) \/ (d = g.at /\ Same(LoopNow(K), K.X[d], Needs(g, K.X, K.T)))
  PROVE  CallIn(K, i, Closure(p, d), g, y)
<1> DEFINE f == Closure(p, d)
<1>1. /\ LeadsTo(f) = d /\ f.run = p /\ f.at = d /\ Needs(f, K.X, K.T) = K.X[d]
  BY SimpleNeeds
<1>2. InstallsFor(LoopNow(K), p)
  BY DEF Changes, InstallsFor
<1>3. Frame(K, i, f) /\ Loop(K, i) = LoopNow(K)
  BY <1>2, SimpleFrame
<1>4. p.fn \notin {"SafeBefore", "SafeAfter", "ErrorThunk"}
  BY DEF Changes
<1> HIDE DEF f
<1>5. Hands(K, i, f, g)
  BY <1>1, <1>3 DEF Hands
<1> QED
  BY <1>1, <1>3, <1>4, <1>5 DEF CallIn, f

\* A procedure that changes the context to what the frame below needs.
LEMMA ChangingCall ==
  ASSUME NEW K, NEW S, NEW s \in Seq(S), NEW c, NEW x, Sound(K, s, c, x),
         c.run.fn # "Break", NEW i \in {Len(s) + 1, Len(s) + 2},
         NEW p, Changes(p), NEW d, Reached(K, d), InstallsFor(LoopNow(K), p),
         NEW g, NEW y, d = g.at,
         Same(LoopNow(K), Effect(p, K.T, y), Needs(g, K.X, K.T)),
         p.fn = "SafeBefore" => Same(LoopNow(K), y, K.X[d]),
         p.fn = "SafeAfter" => Same(LoopNow(K), Effect(p, K.T, y), K.X[d])
  PROVE  CallIn(K, i, Closure(p, d), g, y)
<1> DEFINE f == Closure(p, d)
<1>1. Simple(p) /\ p.fn # "ErrorThunk"
  BY DEF Simple, Changes
<1>2. /\ LeadsTo(f) = d /\ f.run = p /\ f.at = d /\ Needs(f, K.X, K.T) = K.X[d]
  BY <1>1, SimpleNeeds
<1>3. Frame(K, i, f)
  BY <1>1, SimpleFrame
<1> HIDE DEF f
<1> QED
  BY <1>1, <1>2, <1>3 DEF CallIn, f

\* What is known when a procedure is called that changes nothing.
LEMMA QuietFacts ==
  ASSUME NEW K, NEW S, NEW s \in Seq(S), NEW c, NEW x, Sound(K, s, c, x),
         c.run.fn # "Break", ~Changes(c.run), c.run.fn # "WindBody"
  PROVE  /\ Same(LoopNow(K), x, K.X[c.at])
         /\ Final(c.run) \/ /\ LeadsTo(c) = Top(s).at
                            /\ Same(LoopNow(K), K.X[LeadsTo(c)], Needs(Top(s), K.X, K.T))
         /\ c.run.fn = "ErrorThunk" => ObjectUndoes(c.run.o, K.T, K.X[c.at])
<1> DEFINE i == Len(s) + 1
<1>1. CallIn(K, i, c, Top(s), x)
  BY DEF Sound
<1>2. ~(i <= K.lo) /\ Loop(K, i) = LoopNow(K) /\ Body(K, LoopNow(K), c)
  <2>1. /\ Len(s) \in Nat /\ K.lo \in Nat /\ K.lo <= Len(s) /\ Loop(K, i) = LoopNow(K)
        /\ Body(K, LoopNow(K), c)
    BY SoundFacts
  <2> QED
    BY <2>1
<1> HIDE DEF i
<1>3. Same(LoopNow(K), x, Needs(c, K.X, K.T)) /\ Hands(K, i, c, Top(s))
  BY <1>1 DEF CallIn
<1>4. Needs(c, K.X, K.T) = K.X[c.at]
  BY <1>2 DEF Needs, Body
<1>5. \/ Final(c.run)
      \/ LeadsTo(c) = Top(s).at /\ Same(LoopNow(K), K.X[LeadsTo(c)], Needs(Top(s), K.X, K.T))
  BY <1>2, <1>3 DEF Hands
<1> QED
  BY <1>1, <1>3, <1>4, <1>5 DEF CallIn

\* The same for one that may change the context.
LEMMA ChangingFacts ==
  ASSUME NEW K, NEW S, NEW s \in Seq(S), NEW c, NEW x, Sound(K, s, c, x),
         c.run.fn # "Break", Changes(c.run)
  PROVE  /\ c.at = Top(s).at
         /\ Same(LoopNow(K), Effect(c.run, K.T, x), Needs(Top(s), K.X, K.T))
         /\ c.run.fn = "SafeBefore" => Same(LoopNow(K), x, K.X[c.at])
         /\ c.run.fn = "SafeAfter" => Same(LoopNow(K), Effect(c.run, K.T, x), K.X[c.at])
         /\ InstallsFor(LoopNow(K), c.run) /\ ~Final(c.run)
<1>1. CallIn(K, Len(s) + 1, c, Top(s), x) /\ Body(K, LoopNow(K), c)
  BY SoundFacts DEF Sound
<1>2. ~Final(c.run)
  BY DEF Final, FailsOnReturn, Changes
<1> QED
  BY <1>1, <1>2 DEF CallIn, Body, Captured

-----------------------------------------------------------------------------
(* Steps under a view *)

\* A step of a procedure other than PushBreak's, in a state that K is a view of.
Acting(K) == SyncTypes /\ Viewed(K) /\ call.run.fn \notin {"Break", "Bottom"}

LEMMA ActingFacts ==
  ASSUME NEW K, Acting(K)
  PROVE  /\ Sound(K, stack, call, Now) /\ call.at = curDW /\ TreeOf(K)
         /\ K.W = winds /\ K.T = T0 /\ K.N = native
         /\ n0 \in Nat /\ m0 \in Nat /\ stack \in Seq(SyncFrames(n0, m0))
         /\ call.run \in SyncPending(n0, m0) /\ call.run.fn # "Break"
         /\ Reached(K, curDW) /\ Reached(K, LeadsTo(call)) /\ Body(K, LoopNow(K), call)
         /\ Suits(LoopNow(K), handlers)
<1>1. call.run.fn # "Break" /\ call.run.fn # "Bottom"
  BY DEF Acting
<1>2. Coming = call
  BY <1>1 DEF Coming, Halted, Calling
<1>3. /\ Sound(K, stack, call, Now) /\ call.at = curDW
      /\ K.W = winds /\ K.T = T0 /\ K.N = native
  BY <1>2 DEF Acting, Viewed
<1>4. /\ n0 \in Nat /\ m0 \in Nat /\ stack \in Seq(SyncFrames(n0, m0))
      /\ call.run \in SyncPending(n0, m0)
  BY Typed DEF Acting
<1>5. Reached(K, call.at) /\ Reached(K, LeadsTo(call)) /\ Body(K, LoopNow(K), call)
  BY <1>1, <1>3, <1>4, SoundFacts
<1>6. TreeOf(K) /\ Suits(LoopNow(K), Now.hs)
  BY <1>3 DEF Sound
<1>7. Now.hs = handlers
  BY DEF Now
<1> QED
  BY <1>1, <1>3, <1>4, <1>5, <1>6, <1>7

\* The same view still holds.
LEMMA StepView ==
  ASSUME NEW K, Acting(K), UNCHANGED <<winds, native>>, ThunksOf(objs') = T0,
         ~passed' => ~passed, Sound(K, stack', call', Now'), call'.at = curDW'
  PROVE  Viewed(K)'
<1>1. /\ K.W = winds /\ K.T = T0 /\ K.N = native /\ (~passed => K.lo = 0)
  BY DEF Acting, Viewed
<1>2. CallIn(K, Len(stack') + 1, call', Top(stack'), Now')
  BY DEF Sound
<1>3. call'.run.fn = "Bottom" => K.N = <<>>
  BY <1>2 DEF CallIn, Frame, Loops
<1>4. Coming' = call'
  BY <1>1, <1>3 DEF Coming, Halted, Calling
<1> QED
  BY <1>1, <1>4 DEF Viewed, T0

LEMMA ReturnView ==
  ASSUME NEW K, Acting(K), Cont(stack), UNCHANGED <<winds, native>>, ThunksOf(objs') = T0,
         ~passed' => ~passed, ~Final(call.run), curDW' = Top(stack).at,
         Same(LoopNow(K), Now', Needs(Top(stack), K.X, K.T)), Suits(LoopNow(K), handlers')
  PROVE  Viewed(K)'
<1>1. /\ Sound(K, stack, call, Now) /\ call.run.fn # "Break"
      /\ n0 \in Nat /\ m0 \in Nat /\ stack \in Seq(SyncFrames(n0, m0))
  BY ActingFacts
<1>2. Suits(LoopNow(K), Now'.hs)
  BY DEF Now
<1>3. Sound(K, Pop(stack), Top(stack), Now')
  BY <1>1, <1>2, PopSound
<1>4. stack' = Pop(stack) /\ call' = Top(stack)
  BY DEF Cont
<1> QED
  BY <1>3, <1>4, StepView

\* What returns in its extent without having changed the context.
LEMMA QuietReturnView ==
  ASSUME NEW K, Acting(K), Cont(stack), UNCHANGED <<winds, native, handlers, env, curDW>>,
         ThunksOf(objs') = T0, ~passed' => ~passed, ~Final(call.run), ~Changes(call.run),
         call.run.fn # "WindBody", LeadsTo(call) = curDW
  PROVE  Viewed(K)'
<1>1. /\ Sound(K, stack, call, Now) /\ call.run.fn # "Break" /\ call.at = curDW
      /\ n0 \in Nat /\ m0 \in Nat /\ stack \in Seq(SyncFrames(n0, m0))
      /\ Suits(LoopNow(K), handlers)
  BY ActingFacts
<1>2. /\ Same(LoopNow(K), Now, K.X[curDW]) /\ curDW = Top(stack).at
      /\ Same(LoopNow(K), K.X[curDW], Needs(Top(stack), K.X, K.T))
  BY <1>1, QuietFacts
<1>3. Now' = Now /\ curDW' = curDW /\ handlers' = handlers
  BY DEF Now
<1>4. Same(LoopNow(K), Now', Needs(Top(stack), K.X, K.T))
  BY <1>2, <1>3, SameIs
<1> QED
  BY <1>1, <1>2, <1>3, <1>4, ReturnView

LEMMA CallView ==
  ASSUME NEW K, Acting(K), UNCHANGED <<stack, winds, native, handlers, env, curDW>>,
         ThunksOf(objs') = T0, ~passed' => ~passed, NEW p, Apply(p, curDW),
         Final(call.run) => Final(p),
         CallIn(K, Len(stack) + 1, Closure(p, curDW), Top(stack), Now)
  PROVE  Viewed(K)'
<1> DEFINE c == Closure(p, curDW)
<1>1. /\ Sound(K, stack, call, Now) /\ call.run.fn # "Break"
      /\ stack \in Seq(SyncFrames(n0, m0)) /\ Suits(LoopNow(K), handlers)
  BY ActingFacts
<1>2. c.run = p /\ c.at = curDW /\ call' = c /\ Now' = Now /\ Now.hs = handlers
  BY DEF Closure, Apply, Now
<1>3. CallIn(K, Len(stack) + 1, c, Top(stack), Now)
  OBVIOUS
<1> HIDE DEF c
<1>4. Sound(K, stack, c, Now)
  BY <1>1, <1>2, <1>3, CallSound
<1>5. Sound(K, stack', call', Now') /\ call'.at = curDW'
  BY <1>2, <1>4
<1> QED
  BY <1>5, StepView

\* A simple procedure is called in the extent of the pending call.
LEMMA QuietCallView ==
  ASSUME NEW K, Acting(K), UNCHANGED <<stack, winds, native, handlers, env, curDW>>,
         ThunksOf(objs') = T0, ~passed' => ~passed, NEW p, Apply(p, curDW),
         Simple(p), ~Changes(p), p.fn # "ErrorThunk",
         Same(LoopNow(K), Now, K.X[curDW]),
         \/ Final(p)
         \/ /\ ~Final(call.run) /\ curDW = Top(stack).at
            /\ Same(LoopNow(K), K.X[curDW], Needs(Top(stack), K.X, K.T))
  PROVE  Viewed(K)'
<1>1. /\ Sound(K, stack, call, Now) /\ call.run.fn # "Break"
      /\ stack \in Seq(SyncFrames(n0, m0)) /\ Reached(K, curDW)
  BY ActingFacts
<1>2. CallIn(K, Len(stack) + 1, Closure(p, curDW), Top(stack), Now)
  BY <1>1, QuietCall
<1> QED
  BY <1>2, CallView

LEMMA PushView ==
  ASSUME NEW K, Acting(K), UNCHANGED <<winds, native, handlers, env>>,
         ThunksOf(objs') = T0, ~passed' => ~passed, 
         NEW q \in SyncContinuations(n0, m0), NEW d \in Nat, stack' = Push(stack, q, d),
         NEW p, NEW e, Apply(p, e), curDW' = e,
         Frame(K, Len(stack) + 1, Closure(q, d)),
         Hands(K, Len(stack) + 1, Closure(q, d), Top(stack)) \/ Final(p),
         Final(call.run) => Final(q) \/ Final(p),
         CallIn(K, Len(stack) + 2, Closure(p, e), Closure(q, d), Now)
  PROVE  Viewed(K)'
<1> DEFINE c == Closure(p, e)
           F == SyncFrames(n0, m0)
<1>1. /\ Sound(K, stack, call, Now) /\ call.run.fn # "Break"
      /\ stack \in Seq(F) /\ Suits(LoopNow(K), handlers)
  BY ActingFacts
<1>2. c.run = p /\ c.at = e /\ call' = c /\ Now' = Now /\ Now.hs = handlers
  BY DEF Closure, Apply, Now
<1>3. CallIn(K, Len(stack) + 2, c, Closure(q, d), Now)
  OBVIOUS
<1>4. Closure(q, d) \in F
  BY DEF Closure, SyncFrames
<1> HIDE DEF c, F
<1>5. Sound(K, Push(stack, q, d), c, Now)
  BY <1>1, <1>2, <1>3, <1>4, PushSound
<1>6. Sound(K, stack', call', Now') /\ call'.at = curDW'
  BY <1>2, <1>5
<1> QED
  BY <1>6, StepView

-----------------------------------------------------------------------------
(* Leaving a winding *)

LEMMA WindingFacts ==
  ASSUME NEW K, TreeOf(K), NEW w \in Opened(K, LoopNow(K))
  PROVE  /\ w \in K.G /\ w \in 1..Len(K.W) /\ w # K.base
         /\ WindingIn(K, LoopNow(K), w)
<1>1. /\ K.G \subseteq 1..Len(K.W) /\ K.G0 \subseteq K.G /\ K.base \notin K.G
      /\ K.N = <<>> => K.G0 = K.G
      /\ \A v \in K.G : WindingIn(K, LoopOf(K, v), v)
  BY DEF TreeOf
<1>2. w \in K.G /\ LoopOf(K, w) = LoopNow(K)
  BY <1>1 DEF Opened, LoopOf, LoopNow
<1> QED
  BY <1>1, <1>2

\* Where frames may be is among the windings accounted for.
LEMMA ZoneIn ==
  ASSUME NEW K, NEW s, NEW c, TreeOf(K), Natives(K, s, c)
  PROVE  /\ Zone(K, LoopNow(K)) \subseteq K.G \cup {K.base}
         /\ K.N # <<>> => /\ K.N[1].dw \in K.G \cup {K.base}
                          /\ K.lo = 0 => K.N[1].dw \in K.G0 \cup {K.base}
                          /\ K.lo # 0 => K.N[1].dw = K.base
<1>1. K.G0 \subseteq K.G
  BY DEF TreeOf
<1>2. CASE K.N = <<>>
  BY <1>1, <1>2 DEF Zone, Opened, LoopNow
<1>3. CASE K.N # <<>>
  <2>1. 1 \in 1..Len(K.N)
    BY <1>3 DEF Natives
  <2>2. Nested(K, s, c, 1)
    BY <2>1 DEF Natives
  <2>3. K.lo = 0 => K.N[1].dw \in K.G0 \cup {K.base}
    BY <2>2 DEF Nested, Zone, Opened
  <2>4. K.lo # 0 => K.N[1].dw = K.base
    BY <1>3 DEF Natives
  <2>5. K.N[1].dw \in K.G \cup {K.base}
    BY <1>1, <2>3, <2>4
  <2>6. Zone(K, LoopNow(K)) = (K.G \ K.G0) \cup {K.N[1].dw}
    BY <1>3 DEF Zone, Opened, LoopNow
  <2> QED
    BY <2>3, <2>4, <2>5, <2>6
<1> QED
  BY <1>2, <1>3

LEMMA ReachedIn ==
  ASSUME NEW K, NEW s, NEW c, NEW x, Sound(K, s, c, x), NEW w, Reached(K, w)
  PROVE  /\ w \in K.G \cup {K.base} /\ w \in 0..Len(K.W)
         /\ w \in K.P[w] /\ K.base \in K.P[w] /\ K.P[w] \subseteq K.G \cup {K.base}
         /\ \A a \in K.P[w] : K.P[a] \subseteq K.P[w]
         /\ K.X[w].env \in Int
<1>1. w \in K.G \cup {K.base}
  BY ZoneIn DEF Sound, Reached
<1>2. TreeOf(K)
  BY DEF Sound
<1>3. /\ w \in K.P[w] /\ K.base \in K.P[w] /\ K.P[w] \subseteq K.G \cup {K.base}
      /\ \A a \in K.P[w] : K.P[a] \subseteq K.P[w]
      /\ K.X[w].env \in Int
  BY <1>1, <1>2 DEF TreeOf
<1>4. w \in 0..Len(K.W)
  <2>1. K.G \subseteq 1..Len(K.W) /\ K.base \in 0..Len(K.W)
    BY <1>2 DEF TreeOf
  <2>2. \A v \in 1..Len(K.W) : v \in 0..Len(K.W)
    OBVIOUS
  <2> QED
    BY <1>1, <2>1, <2>2
<1> QED
  BY <1>1, <1>3, <1>4

\* The After thunk of a winding is called in its parent.
LEMMA AfterCall ==
  ASSUME NEW K, NEW S, NEW s \in Seq(S), NEW c, NEW x, Sound(K, s, c, x),
         c.run.fn # "Break", NEW i \in {Len(s) + 1, Len(s) + 2},
         NEW w \in Opened(K, LoopNow(K)), NEW u, u = K.W[w].parent, Reached(K, u),
         NEW y, Same(LoopNow(K), y, K.X[w]),
         NEW g, g.at = u, Needs(g, K.X, K.T) = K.X[u]
  PROVE  CallIn(K, i, Closure(K.W[w].after, u), g, y)
<1> DEFINE p == K.W[w].after
           l == LoopNow(K)
<1>1. /\ IsAfter(p) /\ Same(l, Effect(p, K.T, K.X[w]), K.X[u]) /\ InstallsFor(l, p)
  BY WindingFacts DEF Sound, WindingIn
<1>2. Same(l, Effect(p, K.T, y), K.X[u])
  <2>1. Same(l, Effect(p, K.T, y), Effect(p, K.T, K.X[w]))
    BY SameAfter
  <2> QED
    BY <1>1, <2>1, SameIs
<1> HIDE DEF p
<1>3. CASE p.fn = "User"
  <2>1. Simple(p) /\ ~Changes(p) /\ p.fn # "ErrorThunk"
    BY <1>3 DEF Simple, Changes
  <2>2. Same(l, y, Effect(p, K.T, y))
    BY <1>3, SameUser, SameIs
  <2>3. Same(l, y, K.X[u])
    BY <1>2, <2>2, SameIs
  <2>4. Same(l, K.X[u], Needs(g, K.X, K.T))
    BY SameIs
  <2>5. CallIn(K, i, Closure(p, u), g, y)
    BY <2>1, <2>3, <2>4, QuietCall
  <2> QED
    BY <2>5 DEF p
<1>4. CASE p.fn \in {"SetHandlers", "SafeAfter"}
  <2>1. Changes(p) /\ p.fn # "SafeBefore"
    BY <1>4 DEF Changes
  <2>2. CallIn(K, i, Closure(p, u), g, y)
    BY <1>1, <1>2, <2>1, ChangingCall
  <2> QED
    BY <2>2 DEF p
<1> QED
  BY <1>1, <1>3, <1>4 DEF IsAfter

\* Control leaves its winding for the parent, with q left to do there.
LEMMA LeaveView ==
  ASSUME NEW K, Acting(K), UNCHANGED <<winds, native, handlers, env>>,
         ThunksOf(objs') = T0, ~passed' => ~passed,
         ~Changes(call.run), call.run.fn # "WindBody", ~Final(call.run),
         curDW \in Opened(K, LoopNow(K)), NEW u, u = winds[curDW].parent, Reached(K, u),
         NEW q \in SyncContinuations(n0, m0), u \in Nat, stack' = Push(stack, q, u),
         Apply(winds[curDW].after, u), curDW' = u,
         Body(K, LoopNow(K), Closure(q, u)), LeadsTo(Closure(q, u)) = LeadsTo(call),
         q.fn \in {"Forward", "ContinueUp"}
  PROVE  Viewed(K)'
<1> DEFINE f == Closure(q, u)
           p == winds[curDW].after
<1>1. /\ Sound(K, stack, call, Now) /\ call.run.fn # "Break" /\ call.at = curDW
      /\ stack \in Seq(SyncFrames(n0, m0)) /\ Reached(K, LeadsTo(call)) /\ K.W = winds
  BY ActingFacts
<1>2. /\ Same(LoopNow(K), Now, K.X[curDW]) /\ LeadsTo(call) = Top(stack).at
      /\ Same(LoopNow(K), K.X[LeadsTo(call)], Needs(Top(stack), K.X, K.T))
  BY <1>1, QuietFacts
<1>3. f.at = u /\ f.run = q /\ Needs(f, K.X, K.T) = K.X[u]
  BY DEF Closure, Needs
<1>4. Body(K, LoopNow(K), f) /\ LeadsTo(f) = LeadsTo(call)
  OBVIOUS
<1> HIDE DEF f
<1>5. Frame(K, Len(stack) + 1, f) /\ Loop(K, Len(stack) + 1) = LoopNow(K)
  BY <1>1, <1>3, <1>4, TopFrame
<1>6. Hands(K, Len(stack) + 1, f, Top(stack))
  BY <1>2, <1>4, <1>5 DEF Hands
<1>7. CallIn(K, Len(stack) + 2, Closure(p, u), f, Now)
  BY <1>1, <1>2, <1>3, AfterCall
<1>8. q.fn # "WindBody"
  OBVIOUS
<1> HIDE DEF p
<1> QED
  BY <1>5, <1>6, <1>7, PushView DEF f, p

LEMMA WindExitView ==
  ASSUME NEW K, Acting(K), WindExit, UNCHANGED native, ~passed' => ~passed
  PROVE  Viewed(K)'
<1> DEFINE u == call.run.prev
           q == [fn |-> "Forward"]
<1>1. /\ Sound(K, stack, call, Now) /\ call.at = curDW /\ K.W = winds
      /\ n0 \in Nat /\ m0 \in Nat /\ call.run \in SyncPending(n0, m0)
      /\ Body(K, LoopNow(K), call) /\ Reached(K, LeadsTo(call))
  BY ActingFacts
<1>2. call.run.fn = "WindExit"
  BY DEF WindExit, Calling
<1>3. /\ curDW \in Opened(K, LoopNow(K)) /\ u = winds[curDW].parent
      /\ call.run.after = winds[curDW].after
  BY <1>1, <1>2 DEF Body
<1>4. LeadsTo(call) = u
  BY <1>2 DEF LeadsTo
<1>5. u \in 0..n0
  BY <1>1, <1>2, SyncCaptures
<1>6. ~Changes(call.run) /\ ~Final(call.run)
  BY <1>2 DEF Changes, Final, FailsOnReturn
<1>7. q \in SyncContinuations(n0, m0) /\ Simple(q) /\ q.fn = "Forward"
  BY <1>1, SimpleTyped DEF Simple
<1>8. Body(K, LoopNow(K), Closure(q, u)) /\ LeadsTo(Closure(q, u)) = u
  <2>1. u \in Zone(K, LoopNow(K)) /\ InstallsFor(LoopNow(K), q)
    BY <1>1, <1>4 DEF Reached, InstallsFor
  <2> QED
    <3> HIDE DEF q, u
    <3>1. Body(K, LoopNow(K), Closure(q, u))
      BY <1>7, <2>1, SimpleBody
    <3>2. LeadsTo(Closure(q, u)) = u
      BY <1>7, SimpleNeeds
    <3> QED
      BY <3>1, <3>2
<1>9. /\ stack' = Push(stack, q, u) /\ curDW' = u /\ Apply(winds[curDW].after, u)
      /\ UNCHANGED <<winds, handlers, env>> /\ ThunksOf(objs') = T0
  BY <1>3 DEF WindExit, T0
<1>10. u \in Nat /\ call.run.fn # "WindBody" /\ Reached(K, u)
  BY <1>1, <1>2, <1>4, <1>5
<1> HIDE DEF q, u
<1> QED
  BY <1>3, <1>4, <1>6, <1>7, <1>8, <1>9, <1>10, LeaveView

LEMMA ForwardView ==
  ASSUME NEW K, Acting(K), Forward, UNCHANGED native, ~passed' => ~passed
  PROVE  Viewed(K)'
<1>1. call.at = curDW /\ call.run.fn = "Forward"
  BY ActingFacts DEF Forward, Calling
<1>2. /\ ~Changes(call.run) /\ ~Final(call.run) /\ call.run.fn # "WindBody"
      /\ LeadsTo(call) = curDW
  BY <1>1 DEF Changes, Final, FailsOnReturn, LeadsTo
<1>3. Cont(stack) /\ UNCHANGED <<winds, handlers, env, curDW>> /\ ThunksOf(objs') = T0
  BY DEF Forward, T0
<1> QED
  BY <1>2, <1>3, QuietReturnView

\* A traversal is on its way up to an extent around the one it has reached.
LEMMA TravelFacts ==
  ASSUME NEW K, Acting(K), Calling("Traverse")
  PROVE  LET src == call.run.src
             dest == call.run.dest
         IN /\ src = curDW /\ LeadsTo(call) = dest /\ Reached(K, dest) /\ dest \in K.P[src]
            /\ src \in 0..n0 /\ dest \in 0..n0
            /\ ~Changes(call.run) /\ ~Final(call.run) /\ call.run.fn # "WindBody"
            /\ src # dest => /\ src \in Opened(K, LoopNow(K)) /\ src \in 1..n0
                             /\ dest \in K.P[winds[src].parent]
                             /\ Depth(dest) < Depth(src)
<1> DEFINE src == call.run.src
           dest == call.run.dest
<1>1. /\ Sound(K, stack, call, Now) /\ call.at = curDW /\ K.W = winds
      /\ n0 \in Nat /\ m0 \in Nat /\ call.run \in SyncPending(n0, m0)
      /\ Body(K, LoopNow(K), call) /\ Reached(K, LeadsTo(call)) /\ Reached(K, curDW)
  BY ActingFacts
<1>2. call.run.fn = "Traverse"
  BY DEF Calling
<1>3. src = curDW /\ dest \in K.P[curDW]
  BY <1>1, <1>2 DEF Body
<1>4. LeadsTo(call) = dest
  BY <1>2 DEF LeadsTo
<1>5. src \in 0..n0 /\ dest \in 0..n0
  BY <1>1, <1>2, SyncCaptures
<1>6. ~Changes(call.run) /\ ~Final(call.run) /\ call.run.fn # "WindBody"
  BY <1>2 DEF Changes, Final, FailsOnReturn
<1> HIDE DEF src, dest
<1>7. TreeOf(K) /\ Natives(K, stack, call)
  BY <1>1 DEF Sound
<1>8. ASSUME src # dest
      PROVE  src \in Opened(K, LoopNow(K))
  <2>1. src \in Zone(K, LoopNow(K)) /\ dest \in Zone(K, LoopNow(K)) /\ dest \in K.P[src]
    BY <1>1, <1>3, <1>4 DEF Reached
  <2>2. K.P[K.base] = {K.base} /\ K.base \notin K.G
    BY <1>7 DEF TreeOf
  <2>3. src # K.base
    BY <1>8, <2>1, <2>2
  <2>4. CASE K.N = <<>>
    BY <2>1, <2>3, <2>4 DEF Zone, LoopNow
  <2>5. CASE K.N # <<>> /\ src = K.N[1].dw
    <3>1. K.N[1].dw \in K.G0
      BY <1>7, <2>3, <2>5, ZoneIn
    <3>2. K.P[src] \subseteq K.G0 \cup {K.base} /\ K.G0 \subseteq K.G
      BY <1>7, <2>5, <3>1 DEF TreeOf
    <3>3. dest \in K.G \ K.G0
      BY <1>8, <2>1, <2>5 DEF Zone, Opened, LoopNow
    <3> QED
      BY <2>1, <2>2, <3>2, <3>3
  <2>6. CASE K.N # <<>> /\ src # K.N[1].dw
    BY <2>1, <2>6 DEF Zone, LoopNow
  <2> QED
    BY <2>4, <2>5, <2>6
<1>9. ASSUME src # dest
      PROVE  src \in 1..n0 /\ dest \in K.P[winds[src].parent] /\ Depth(dest) < Depth(src)
  <2>1. src \in 1..Len(winds) /\ WindingIn(K, LoopNow(K), src)
    BY <1>1, <1>7, <1>8, <1>9, WindingFacts
  <2>2. /\ K.P[src] = K.P[winds[src].parent] \cup {src}
        /\ \A a \in K.P[winds[src].parent] : DepthIn(winds, a) < DepthIn(winds, src)
    BY <1>1, <2>1 DEF WindingIn
  <2>3. dest \in K.P[winds[src].parent]
    BY <1>3, <1>9, <2>2
  <2> QED
    BY <2>1, <2>2, <2>3 DEF DepthIn, Depth, n0
<1>10. Reached(K, dest)
  BY <1>1, <1>4
<1> QED
  BY <1>3, <1>4, <1>5, <1>6, <1>8, <1>9, <1>10 DEF src, dest

LEMMA TraverseView ==
  ASSUME NEW K, Acting(K), TraverseStep, UNCHANGED native, ~passed' => ~passed
  PROVE  Viewed(K)'
<1> DEFINE src == call.run.src
           dest == call.run.dest
<1>1. /\ Sound(K, stack, call, Now) /\ call.at = curDW /\ K.W = winds
      /\ n0 \in Nat /\ m0 \in Nat /\ call.run \in SyncPending(n0, m0)
      /\ stack \in Seq(SyncFrames(n0, m0)) /\ call.run.fn # "Break"
      /\ Body(K, LoopNow(K), call) /\ Reached(K, LeadsTo(call)) /\ Reached(K, curDW)
  BY ActingFacts
<1>2. /\ UNCHANGED <<winds, handlers, env>> /\ ThunksOf(objs') = T0
  BY DEF TraverseStep, TraverseArrive, TraverseDown, TraverseUp, ContinueUp, EnterWind,
         SetDW, T0
<1>3. call.run.fn \notin {"EnterWind", "SetDW"}
  BY <1>1 DEF Body
<1>4. CASE TraverseArrive
  <2>1. LeadsTo(call) = curDW /\ ~Changes(call.run) /\ ~Final(call.run)
        /\ call.run.fn # "WindBody"
    BY <1>4, TravelFacts DEF TraverseArrive
  <2>2. Cont(stack) /\ UNCHANGED curDW
    BY <1>4 DEF TraverseArrive
  <2> QED
    BY <1>2, <2>1, <2>2, QuietReturnView
<1>5. CASE TraverseDown
  <2>1. Calling("Traverse") /\ src # dest /\ Depth(src) < Depth(dest)
    BY <1>5 DEF TraverseDown
  <2>2. Depth(dest) < Depth(src) /\ src \in 0..n0 /\ dest \in 0..n0
    BY <2>1, TravelFacts
  <2>3. Depth(src) \in Nat /\ Depth(dest) \in Nat
    BY <2>2, DepthTyped DEF Acting
  <2> QED
    BY <2>1, <2>2, <2>3
<1>6. CASE TraverseUp
  <2> DEFINE u == winds[src].parent
             q == [fn |-> "ContinueUp", src |-> src, dest |-> dest]
  <2>1. Calling("Traverse") /\ src # dest
    BY <1>6 DEF TraverseUp
  <2>2. /\ src = curDW /\ LeadsTo(call) = dest /\ Reached(K, dest) /\ dest \in 0..n0
        /\ ~Changes(call.run) /\ ~Final(call.run) /\ call.run.fn # "WindBody"
        /\ src \in Opened(K, LoopNow(K)) /\ src \in 1..n0
        /\ dest \in K.P[u]
    BY <2>1, TravelFacts
  <2>3. u \in Zone(K, LoopNow(K)) /\ Parent(src) = u /\ src # 0
    <3>1. WindingIn(K, LoopNow(K), src)
      BY <1>1, <2>2, WindingFacts DEF Sound
    <3>2. u \in Zone(K, LoopNow(K))
      BY <1>1, <3>1 DEF WindingIn
    <3> QED
      BY <1>1, <2>2, <3>2 DEF Parent
  <2>4. u \in K.G \cup {K.base}
    BY <1>1, <2>3, ZoneIn DEF Sound
  <2>5. Reached(K, u)
    <3>1. K.P[dest] \subseteq K.P[u]
      BY <1>1, <2>2, <2>4 DEF Sound, TreeOf
    <3> QED
      BY <2>2, <2>3, <3>1 DEF Reached
  <2>6. u \in 0..n0 /\ u \in Nat
    <3>1. Parent(src) \in 0..n0
      BY <1>1, <2>2, DepthTyped DEF Acting
    <3> QED
      BY <2>3, <3>1
  <2>7. q \in SyncContinuations(n0, m0)
    BY <2>2 DEF SyncContinuations
  <2>8. LeadsTo(Closure(q, u)) = dest /\ q.fn = "ContinueUp"
    BY DEF Closure, LeadsTo
  <2>9. Body(K, LoopNow(K), Closure(q, u))
    <3>1. dest \in Zone(K, LoopNow(K))
      BY <2>2 DEF Reached
    <3>2. Closure(q, u).at = u /\ Closure(q, u).run = q
      BY DEF Closure
    <3>3. u = K.W[q.src].parent /\ q.dest \in K.P[u]
      BY <1>1, <2>2
    <3> HIDE DEF q, u
    <3> QED
      BY <2>3, <2>8, <3>1, <3>2, <3>3 DEF Body, Captured, InstallsFor, Restoring
  <2>10. /\ stack' = Push(stack, q, u) /\ curDW' = u /\ Apply(winds[curDW].after, u)
    BY <1>6, <2>2, <2>3 DEF TraverseUp
  <2> HIDE DEF q
  <2>11. LeadsTo(Closure(q, u)) = LeadsTo(call) /\ u = winds[curDW].parent
    BY <2>2, <2>8
  <2>12. curDW \in Opened(K, LoopNow(K))
    BY <2>2
  <2> HIDE DEF u
  <2> QED
    BY <1>2, <2>2, <2>5, <2>6, <2>7, <2>8, <2>9, <2>10, <2>11, <2>12, LeaveView
<1>7. CASE ContinueUp
  <2> DEFINE p == Traverse(Parent(src), dest)
             c == Closure(p, curDW)
  <2>1. call.run.fn = "ContinueUp" /\ Apply(p, curDW) /\ UNCHANGED <<stack, curDW>>
    BY <1>7 DEF ContinueUp, Calling
  <2>2. src \in 1..n0
    BY <1>1, <2>1, SyncCaptures
  <2>3. Parent(src) = curDW /\ dest \in K.P[curDW] /\ LeadsTo(call) = dest
    <3>1. src # 0
      BY <1>1, <2>2
    <3> QED
      BY <1>1, <2>1, <3>1 DEF Body, Parent, LeadsTo
  <2>4. ~Changes(call.run) /\ ~Final(call.run) /\ call.run.fn # "WindBody"
    BY <2>1 DEF Changes, Final, FailsOnReturn
  <2>5. /\ Same(LoopNow(K), Now, K.X[curDW]) /\ dest = Top(stack).at
        /\ Same(LoopNow(K), K.X[dest], Needs(Top(stack), K.X, K.T))
    BY <1>1, <2>3, <2>4, QuietFacts
  <2>6. /\ c.run = p /\ c.at = curDW /\ p.fn = "Traverse" /\ p.src = curDW /\ p.dest = dest
        /\ LeadsTo(c) = dest /\ Needs(c, K.X, K.T) = K.X[curDW]
    BY <2>3 DEF Closure, Traverse, LeadsTo, Needs
  <2> HIDE DEF c, p
  <2>7. Body(K, LoopNow(K), c)
    BY <1>1, <2>3, <2>6 DEF Body, Captured, InstallsFor, Restoring, Reached
  <2>8. Frame(K, Len(stack) + 1, c) /\ Loop(K, Len(stack) + 1) = LoopNow(K)
    BY <1>1, <2>3, <2>6, <2>7, TopFrame
  <2>9. CallIn(K, Len(stack) + 1, c, Top(stack), Now)
    <3>1. ~Changes(p)
      BY <2>6 DEF Changes
    <3>2. Hands(K, Len(stack) + 1, c, Top(stack))
      BY <2>5, <2>6, <2>8 DEF Hands
    <3> QED
      BY <2>5, <2>6, <2>8, <3>1, <3>2 DEF CallIn
  <2> QED
    BY <1>2, <2>1, <2>4, <2>9, CallView DEF c
<1>8. CASE EnterWind \/ SetDW
  BY <1>3, <1>8 DEF EnterWind, SetDW, Calling
<1> QED
  BY <1>4, <1>5, <1>6, <1>7, <1>8 DEF TraverseStep

-----------------------------------------------------------------------------
(* Handler lists *)

LEMMA SuitsMore ==
  ASSUME NEW m \in Nat, NEW hs \in SyncHandlerLists(m), NEW h \in Handlers(m), NEW l,
         Suits(l, hs)
  PROVE  Suits(l, <<h>> \o hs)
<1> DEFINE more == <<h>> \o hs
           n == Len(hs)
<1>1. h # Catch
  <2>1. h.fn \in {"User", "ErrorHandler"}
    BY DEF Handlers
  <2> QED
    BY <2>1 DEF Catch
<1>2. hs \in Seq(Handlers(m) \cup {Catch}) /\ <<h>> \in Seq(Handlers(m) \cup {Catch})
  BY DEF SyncHandlerLists
<1>3. /\ n \in Nat /\ Len(more) = n + 1
      /\ \A i \in 1..(n + 1) : more[i] = IF i = 1 THEN h ELSE hs[i - 1]
  <2>1. Len(<<h>>) = 1 /\ <<h>>[1] = h
    OBVIOUS
  <2>2. n \in Nat
    BY <1>2, LenProperties
  <2>3. /\ Len(more) = Len(<<h>>) + n
        /\ \A i \in 1..(Len(<<h>>) + n) :
             more[i] = IF i <= Len(<<h>>) THEN <<h>>[i] ELSE hs[i - Len(<<h>>)]
    BY <1>2, ConcatProperties
  <2> HIDE DEF n, more
  <2> QED
    BY <2>1, <2>2, <2>3
<1>4. more # <<>>
  <2>1. more \in Seq(Handlers(m) \cup {Catch})
    BY <1>2, ConcatProperties
  <2> HIDE DEF more
  <2> QED
    BY <1>3, <2>1, EmptySeq
<1>5. CASE l = "outer"
  <2>1. \A i \in 1..n : hs[i] # Catch
    BY <1>5 DEF Suits, NoCatch
  <2> HIDE DEF n, more
  <2>2. ASSUME NEW i \in 1..Len(more) PROVE more[i] # Catch
    <3>1. i = 1 \/ i - 1 \in 1..n
      BY <1>3
    <3> QED
      BY <1>1, <1>3, <2>1, <3>1
  <2> QED
    BY <1>5, <2>2 DEF Suits, NoCatch, more
<1>6. CASE l # "outer"
  <2>1. hs # <<>> /\ hs[n] = Catch /\ \A i \in 1..(n - 1) : hs[i] # Catch
    BY <1>6 DEF Suits, EndsInCatch
  <2>2. n # 0
    BY <1>2, <2>1, EmptySeq
  <2> HIDE DEF n, more
  <2>3. ASSUME NEW i \in 1..(Len(more) - 1) PROVE more[i] # Catch
    <3>1. (i = 1 \/ i - 1 \in 1..(n - 1)) /\ i \in 1..(n + 1)
      BY <1>3
    <3> QED
      BY <1>1, <1>3, <2>1, <3>1
  <2>4. more[Len(more)] = Catch
    <3>1. n + 1 # 1 /\ (n + 1) - 1 = n /\ n + 1 \in 1..(n + 1)
      BY <1>3, <2>2
    <3> QED
      BY <1>3, <2>1, <3>1
  <2> QED
    BY <1>4, <1>6, <2>3, <2>4 DEF Suits, EndsInCatch, more
<1> QED
  BY <1>5, <1>6

LEMMA SuitsRest ==
  ASSUME NEW m \in Nat, NEW hs \in SyncHandlerLists(m), IsPair(hs), NEW l, Suits(l, hs)
  PROVE  Suits(l, Tail(hs))
<1> DEFINE t == Tail(hs)
           n == Len(hs)
<1>1. hs \in Seq(Handlers(m) \cup {Catch}) /\ hs # <<>> /\ hs[1] # Catch
  BY DEF SyncHandlerLists, IsPair
<1>2. /\ n \in Nat /\ n # 0 /\ t \in Seq(Handlers(m) \cup {Catch}) /\ Len(t) = n - 1
      /\ \A i \in 1..(n - 1) : t[i] = hs[i + 1]
  <2>1. n \in Nat /\ n # 0
    BY <1>1, EmptySeq, LenProperties
  <2>2. /\ t \in Seq(Handlers(m) \cup {Catch}) /\ Len(t) = n - 1
        /\ \A i \in 1..Len(t) : t[i] = hs[i + 1]
    BY <1>1, HeadTailProperties
  <2> QED
    BY <2>1, <2>2
<1>3. CASE l = "outer"
  <2>1. \A i \in 1..n : hs[i] # Catch
    BY <1>3 DEF Suits, NoCatch
  <2> HIDE DEF n, t
  <2>2. ASSUME NEW i \in 1..Len(t) PROVE t[i] # Catch
    <3>1. i \in 1..(n - 1) /\ i + 1 \in 1..n
      BY <1>2
    <3> QED
      BY <1>2, <2>1, <3>1
  <2> QED
    BY <1>3, <2>2 DEF Suits, NoCatch, t
<1>4. CASE l # "outer"
  <2>1. hs[n] = Catch /\ \A i \in 1..(n - 1) : hs[i] # Catch
    BY <1>4 DEF Suits, EndsInCatch
  <2> HIDE DEF n, t
  <2>2. n # 1
    BY <1>1, <2>1
  <2>3. t # <<>>
    BY <1>2, <2>2, EmptySeq
  <2>4. t[Len(t)] = Catch
    <3>1. n - 1 \in 1..(n - 1) /\ (n - 1) + 1 = n
      BY <1>2, <2>2
    <3> QED
      BY <1>2, <2>1, <3>1
  <2>5. ASSUME NEW i \in 1..(Len(t) - 1) PROVE t[i] # Catch
    <3>1. i \in 1..(n - 1) /\ i + 1 \in 1..(n - 1)
      BY <1>2
    <3> QED
      BY <1>2, <2>1, <3>1
  <2> QED
    BY <1>4, <2>3, <2>4, <2>5 DEF Suits, EndsInCatch, t
<1> QED
  BY <1>3, <1>4

-----------------------------------------------------------------------------
(* Opening a winding *)

\* dynamic-wind over stack s: its frame and the Before thunk are sound.
LEMMA OpenSound ==
  ASSUME NEW K, NEW S, NEW s \in Seq(S), NEW c, NEW x, Sound(K, s, c, x),
         c.run.fn # "Break", NEW d, Reached(K, d), Same(LoopNow(K), x, K.X[d]),
         Suits(LoopNow(K), x.hs),
         NEW before, NEW thunk, NEW after,
         Closure([fn |-> "WindBody", before |-> before, thunk |-> thunk, after |-> after], d)
           \in S,
         IsBefore(before), IsAfter(after), ~Changes(thunk),
         InstallsFor(LoopNow(K), before), InstallsFor(LoopNow(K), after),
         NEW inside, inside = Effect(before, K.T, K.X[d]),
         Same(LoopNow(K), Effect(after, K.T, inside), K.X[d]), K.X[d].env <= inside.env,
         thunk.fn = "ErrorThunk" => ObjectUndoes(thunk.o, K.T, inside),
         \/ FailsOnReturn(thunk)
         \/ /\ ~Final(c.run) /\ d = Top(s).at
            /\ Same(LoopNow(K), K.X[d], Needs(Top(s), K.X, K.T))
  PROVE  Sound(K, Push(s, [fn |-> "WindBody", before |-> before, thunk |-> thunk,
                           after |-> after], d), Closure(before, d), x)
<1> DEFINE q == [fn |-> "WindBody", before |-> before, thunk |-> thunk, after |-> after]
           f == Closure(q, d)
           l == LoopNow(K)
<1>1. /\ q.fn = "WindBody" /\ q.before = before /\ q.thunk = thunk /\ q.after = after
      /\ f.run = q /\ f.at = d /\ LeadsTo(f) = d /\ Needs(f, K.X, K.T) = inside
  BY DEF Closure, LeadsTo, Needs
<1>2. f \in S
  OBVIOUS
<1> HIDE DEF q, f
<1>3. Final(q) <=> FailsOnReturn(thunk)
  BY <1>1 DEF Final, FailsOnReturn
<1>4. Body(K, l, f)
  <2>1. Restoring(K, l, f)
    BY <1>1 DEF Restoring
  <2>2. Captured(l, q)
    BY <1>1 DEF Captured, InstallsFor
  <2>3. d \in Zone(K, l)
    BY DEF Reached
  <2> QED
    BY <1>1, <2>1, <2>2, <2>3 DEF Body
<1>5. Frame(K, Len(s) + 1, f) /\ Loop(K, Len(s) + 1) = l
  BY <1>1, <1>4, TopFrame
<1>6. Hands(K, Len(s) + 1, f, Top(s)) 
  BY <1>1, <1>3, <1>5 DEF Hands
<1>7. CallIn(K, Len(s) + 2, Closure(before, d), f, x)
  <2>1. Same(l, Effect(before, K.T, x), inside)
    BY SameAfter
  <2>2. CASE before.fn = "User"
    <3>1. Simple(before) /\ ~Changes(before) /\ before.fn # "ErrorThunk"
      BY <2>2 DEF Simple, Changes
    <3>2. Same(l, K.X[d], inside)
      BY <2>2, SameUser, SameIs
    <3> QED
      BY <1>1, <3>1, <3>2, QuietCall
  <2>3. CASE before.fn \in {"SetHandlers", "SafeBefore"}
    <3>1. Changes(before) /\ before.fn # "SafeAfter"
      BY <2>3 DEF Changes
    <3> QED
      BY <1>1, <2>1, <3>1, ChangingCall
  <2> QED
    BY <2>2, <2>3 DEF IsBefore
<1>8. Final(c.run) => Final(q)
  BY <1>3
<1>9. Sound(K, Push(s, q, d), Closure(before, d), x)
  <2>1. Closure(q, d) = f
    BY DEF f
  <2> QED
    BY <1>2, <1>5, <1>6, <1>7, <1>8, <2>1, PushSound
<1> QED
  BY <1>9 DEF q

\* with-exception-handler over stack s: the same with handlers hs.
LEMMA HandlersSound ==
  ASSUME NEW K, NEW S, NEW s \in Seq(S), NEW c, NEW x, Sound(K, s, c, x),
         c.run.fn # "Break", NEW d, Reached(K, d), Same(LoopNow(K), x, K.X[d]),
         Suits(LoopNow(K), x.hs), NEW hs, Suits(LoopNow(K), hs), NEW thunk, ~Changes(thunk),
         Closure([fn |-> "WindBody", before |-> SetHandlers(hs), thunk |-> thunk,
                  after |-> SetHandlers(x.hs)], d) \in S,
         thunk.fn = "ErrorThunk" =>
           ObjectUndoes(thunk.o, K.T, [hs |-> hs, env |-> K.X[d].env]),
         \/ FailsOnReturn(thunk)
         \/ /\ ~Final(c.run) /\ d = Top(s).at
            /\ Same(LoopNow(K), K.X[d], Needs(Top(s), K.X, K.T))
  PROVE  Sound(K, Push(s, [fn |-> "WindBody", before |-> SetHandlers(hs), thunk |-> thunk,
                           after |-> SetHandlers(x.hs)], d), Closure(SetHandlers(hs), d), x)
<1> DEFINE b == SetHandlers(hs)
           a == SetHandlers(x.hs)
           inside == [hs |-> hs, env |-> K.X[d].env]
           l == LoopNow(K)
<1>1. b.fn = "SetHandlers" /\ b.hs = hs /\ a.fn = "SetHandlers" /\ a.hs = x.hs
  BY DEF SetHandlers
<1>2. inside.hs = hs /\ inside.env = K.X[d].env
  OBVIOUS
<1>3. inside = Effect(b, K.T, K.X[d])
  BY <1>1 DEF Effect, Inner
<1> HIDE DEF b, a, inside
<1>4. /\ IsBefore(b) /\ IsAfter(a) /\ InstallsFor(l, b) /\ InstallsFor(l, a)
  BY <1>1 DEF IsBefore, IsAfter, InstallsFor
<1>5. Same(l, Effect(a, K.T, inside), K.X[d])
  BY <1>1, <1>2 DEF Effect, Inner, Same
<1>6. K.X[d].env <= inside.env
  <2>1. K.X[d].env \in Int
    BY ReachedIn
  <2> QED
    BY <1>2, <2>1
<1>7. thunk.fn = "ErrorThunk" => ObjectUndoes(thunk.o, K.T, inside)
  BY DEF inside
<1>8. Closure([fn |-> "WindBody", before |-> b, thunk |-> thunk, after |-> a], d) \in S
  BY DEF a, b
<1>9. Sound(K, Push(s, [fn |-> "WindBody", before |-> b, thunk |-> thunk, after |-> a], d),
            Closure(b, d), x)
  BY <1>3, <1>4, <1>5, <1>6, <1>7, <1>8, OpenSound
<1> QED
  BY <1>9 DEF a, b

LEMMA OpenView ==
  ASSUME NEW K, Acting(K), UNCHANGED <<winds, native, handlers, env, curDW>>,
         ThunksOf(objs') = T0, ~passed' => ~passed,
         NEW s \in Seq(SyncFrames(n0, m0)), NEW c, Sound(K, s, c, Now), c.run.fn # "Break",
         NEW before \in SyncThunks(m0), NEW thunk \in SyncThunks(m0),
         NEW after \in SyncThunks(m0), DynamicWind(s, before, thunk, after),
         Same(LoopNow(K), Now, K.X[curDW]),
         IsBefore(before), IsAfter(after), ~Changes(thunk),
         InstallsFor(LoopNow(K), before), InstallsFor(LoopNow(K), after),
         NEW inside, inside = Effect(before, K.T, K.X[curDW]),
         Same(LoopNow(K), Effect(after, K.T, inside), K.X[curDW]),
         K.X[curDW].env <= inside.env,
         thunk.fn = "ErrorThunk" => ObjectUndoes(thunk.o, K.T, inside),
         \/ FailsOnReturn(thunk)
         \/ /\ ~Final(c.run) /\ curDW = Top(s).at
            /\ Same(LoopNow(K), K.X[curDW], Needs(Top(s), K.X, K.T))
  PROVE  Viewed(K)'
<1> DEFINE q == [fn |-> "WindBody", before |-> before, thunk |-> thunk, after |-> after]
<1>1. Reached(K, curDW) /\ Suits(LoopNow(K), handlers) /\ n0 \in Nat
  BY ActingFacts
<1>2. Now' = Now /\ Now.hs = handlers /\ curDW' = curDW
  BY DEF Now
<1>3. Closure(q, curDW) \in SyncFrames(n0, m0)
  <2>1. q \in SyncContinuations(n0, m0)
    BY DEF SyncContinuations
  <2>2. curDW \in Nat
    BY Typed DEF Acting
  <2> HIDE DEF q
  <2> QED
    BY <2>1, <2>2 DEF Closure, SyncFrames
<1>4. Sound(K, Push(s, q, curDW), Closure(before, curDW), Now)
  BY <1>1, <1>2, <1>3, OpenSound
<1>5. stack' = Push(s, q, curDW) /\ call' = Closure(before, curDW)
  BY DEF DynamicWind, Apply
<1>6. Closure(before, curDW).at = curDW
  BY DEF Closure
<1> HIDE DEF q
<1>7. Sound(K, stack', call', Now') /\ call'.at = curDW'
  BY <1>2, <1>4, <1>5, <1>6
<1> QED
  BY <1>7, StepView

LEMMA HandlersView ==
  ASSUME NEW K, Acting(K), UNCHANGED <<winds, native, handlers, env, curDW>>,
         ThunksOf(objs') = T0, ~passed' => ~passed,
         NEW s \in Seq(SyncFrames(n0, m0)), NEW c, Sound(K, s, c, Now), c.run.fn # "Break",
         NEW hs \in SyncHandlerLists(m0), NEW thunk \in SyncThunks(m0),
         WithExceptionHandlers(s, hs, thunk), Suits(LoopNow(K), hs),
         Same(LoopNow(K), Now, K.X[curDW]), ~Changes(thunk), thunk.fn # "ErrorThunk",
         \/ FailsOnReturn(thunk)
         \/ /\ ~Final(c.run) /\ curDW = Top(s).at
            /\ Same(LoopNow(K), K.X[curDW], Needs(Top(s), K.X, K.T))
  PROVE  Viewed(K)'
<1> DEFINE b == SetHandlers(hs)
           a == SetHandlers(handlers)
           q == [fn |-> "WindBody", before |-> b, thunk |-> thunk, after |-> a]
<1>1. Reached(K, curDW) /\ Suits(LoopNow(K), handlers)
  BY ActingFacts
<1>2. Now' = Now /\ Now.hs = handlers /\ curDW' = curDW
  BY DEF Now
<1>3. handlers \in SyncHandlerLists(m0) /\ curDW \in Nat
  BY Typed DEF Acting
<1>4. b \in SyncThunks(m0) /\ a \in SyncThunks(m0)
  BY <1>3 DEF SetHandlers, SyncThunks
<1> HIDE DEF b, a
<1>5. Closure(q, curDW) \in SyncFrames(n0, m0)
  <2>1. q \in SyncContinuations(n0, m0)
    BY <1>4 DEF SyncContinuations
  <2> HIDE DEF q
  <2> QED
    BY <1>3, <2>1 DEF Closure, SyncFrames
<1>6. Closure([fn |-> "WindBody", before |-> SetHandlers(hs), thunk |-> thunk,
               after |-> SetHandlers(Now.hs)], curDW) \in SyncFrames(n0, m0)
  BY <1>2, <1>5 DEF a, b
<1>7. Sound(K, Push(s, [fn |-> "WindBody", before |-> SetHandlers(hs), thunk |-> thunk,
                        after |-> SetHandlers(Now.hs)], curDW),
            Closure(SetHandlers(hs), curDW), Now)
  BY <1>1, <1>2, <1>6, HandlersSound
<1>8. Sound(K, Push(s, q, curDW), Closure(b, curDW), Now)
  BY <1>2, <1>7 DEF a, b
<1>9. stack' = Push(s, q, curDW) /\ call' = Closure(b, curDW)
  BY DEF WithExceptionHandlers, DynamicWind, Apply, a, b
<1>10. Closure(b, curDW).at = curDW
  BY DEF Closure
<1> HIDE DEF q
<1>11. Sound(K, stack', call', Now') /\ call'.at = curDW'
  BY <1>2, <1>8, <1>9, <1>10
<1> QED
  BY <1>11, StepView

-----------------------------------------------------------------------------
(* Exceptions *)

\* What is known of the context when a procedure runs that changes nothing.
LEMMA QuietHere ==
  ASSUME NEW K, Acting(K), ~Changes(call.run), call.run.fn # "WindBody"
  PROVE  /\ Same(LoopNow(K), Now, K.X[curDW])
         /\ LeadsTo(call) = curDW =>
              Final(call.run) \/ /\ curDW = Top(stack).at
                                 /\ Same(LoopNow(K), K.X[curDW], Needs(Top(stack), K.X, K.T))
         /\ call.run.fn = "ErrorThunk" => ObjectUndoes(call.run.o, K.T, K.X[curDW])
<1>1. /\ Sound(K, stack, call, Now) /\ call.run.fn # "Break" /\ call.at = curDW
      /\ stack \in Seq(SyncFrames(n0, m0))
  BY ActingFacts
<1> QED
  BY <1>1, QuietFacts

LEMMA SetHandlersView ==
  ASSUME NEW K, Acting(K), CallSetHandlers, UNCHANGED native, ~passed' => ~passed
  PROVE  Viewed(K)'
<1>1. /\ Sound(K, stack, call, Now) /\ call.run.fn # "Break" /\ call.at = curDW
      /\ stack \in Seq(SyncFrames(n0, m0))
  BY ActingFacts
<1>2. call.run.fn = "SetHandlers" /\ Changes(call.run)
  BY DEF CallSetHandlers, Calling, Changes
<1>3. /\ curDW = Top(stack).at /\ ~Final(call.run) /\ InstallsFor(LoopNow(K), call.run)
      /\ Same(LoopNow(K), Effect(call.run, K.T, Now), Needs(Top(stack), K.X, K.T))
  BY <1>1, <1>2, ChangingFacts
<1>4. /\ Cont(stack) /\ handlers' = call.run.hs /\ UNCHANGED <<winds, env, curDW>>
      /\ ThunksOf(objs') = T0
  BY DEF CallSetHandlers, T0
<1>5. Now' = Effect(call.run, K.T, Now)
  BY <1>2, <1>4 DEF Now, Effect, Inner
<1>6. Suits(LoopNow(K), handlers')
  BY <1>2, <1>3, <1>4 DEF InstallsFor
<1> QED
  BY <1>3, <1>4, <1>5, <1>6, ReturnView

LEMMA SetEnvView ==
  ASSUME NEW K, Acting(K), CallSetEnv, UNCHANGED native, ~passed' => ~passed
  PROVE  Viewed(K)'
<1>1. /\ Sound(K, stack, call, Now) /\ call.run.fn # "Break" /\ call.at = curDW
      /\ stack \in Seq(SyncFrames(n0, m0)) /\ Suits(LoopNow(K), handlers)
  BY ActingFacts
<1>2. call.run.fn = "SetEnv" /\ Changes(call.run)
  BY DEF CallSetEnv, Calling, Changes
<1>3. /\ curDW = Top(stack).at /\ ~Final(call.run)
      /\ Same(LoopNow(K), Effect(call.run, K.T, Now), Needs(Top(stack), K.X, K.T))
  BY <1>1, <1>2, ChangingFacts
<1>4. /\ Cont(stack) /\ env' = call.run.e /\ UNCHANGED <<winds, handlers, curDW>>
      /\ ThunksOf(objs') = T0
  BY DEF CallSetEnv, T0
<1>5. Now' = Effect(call.run, K.T, Now)
  BY <1>2, <1>4 DEF Now, Effect, Inner
<1>6. curDW' = Top(stack).at /\ Suits(LoopNow(K), handlers')
  BY <1>1, <1>3, <1>4
<1> QED
  BY <1>3, <1>4, <1>5, <1>6, ReturnView

\* Only the outermost loop can run out of handlers.
LEMMA RaiseUncaughtView ==
  ASSUME NEW K, Acting(K), RaiseUncaught, UNCHANGED native, ~passed' => ~passed
  PROVE  Viewed(K)'
<1> DEFINE p == Traverse(curDW, 0)
           c == Closure(p, curDW)
<1>1. /\ Sound(K, stack, call, Now) /\ TreeOf(K) /\ Natives(K, stack, call)
      /\ K.W = winds /\ K.T = T0 /\ K.N = native /\ Reached(K, curDW)
      /\ Suits(LoopNow(K), handlers) /\ handlers = <<>>
  BY ActingFacts DEF Sound, RaiseUncaught
<1>2. LoopNow(K) = "outer" /\ K.N = <<>>
  BY <1>1 DEF Suits, EndsInCatch, LoopNow
<1>3. K.base = 0 /\ K.lo = 0 /\ Len(K.N) = 0 /\ K.X[0] = Base
  BY <1>1, <1>2 DEF Natives
<1>4. bottomDW = 0
  <2>1. Len(native) = 0 /\ bottomDW = BottomOf(native, Len(native) + 1)
    BY <1>1, <1>3 DEF Acting, SyncTypes
  <2> QED
    BY <2>1 DEF BottomOf
<1>5. stack' = <<>> /\ call' = c /\ UNCHANGED <<winds, curDW, handlers, env, objs>>
  BY <1>4 DEF RaiseUncaught, Apply
<1>6. c.run = p /\ c.at = curDW /\ p.fn = "Traverse" /\ p.src = curDW /\ p.dest = 0
      /\ LeadsTo(c) = 0 /\ Needs(c, K.X, K.T) = K.X[curDW]
  BY DEF Closure, Traverse, LeadsTo, Needs
<1>7. Same("outer", Now, K.X[curDW])
  <2>1. ~Changes(call.run) /\ call.run.fn # "WindBody"
    BY DEF RaiseUncaught, Calling, Changes
  <2> QED
    BY <1>2, <2>1, QuietHere
<1> HIDE DEF c, p
<1>8. Frame(K, 1, c) /\ Loop(K, 1) = "outer"
  <2>1. curDW \in Zone(K, "outer") /\ 0 \in Zone(K, "outer")
    BY <1>1, <1>2, <1>3 DEF Reached, Zone
  <2>2. 0 \in K.P[curDW]
    BY <1>1, <1>3, ReachedIn
  <2>3. Body(K, "outer", c)
    BY <1>6, <2>1, <2>2 DEF Body, Captured, InstallsFor, Restoring
  <2>4. Loops(K, 1, c)
    BY <1>3, <1>6 DEF Loops, Within
  <2>5. Loop(K, 1) = "outer"
    BY <1>2 DEF Loop
  <2> QED
    BY <2>3, <2>4, <2>5 DEF Frame
<1>9. Len(<<>>) = 0 /\ Top(<<>>) = Bottom /\ 0 + 1 = 1
  BY DEF Top
<1>10. CallIn(K, 1, c, Bottom, Now)
  <2>1. ~Changes(p)
    BY <1>6 DEF Changes
  <2>2. Needs(Bottom, K.X, K.T) = K.X[0] /\ Bottom.at = 0
    BY DEF Bottom, Closure, Needs
  <2>3. Hands(K, 1, c, Bottom)
    BY <1>6, <1>8, <2>2, SameIs DEF Hands
  <2> QED
    BY <1>2, <1>6, <1>7, <1>8, <2>1, <2>3 DEF CallIn
<1>11. Natives(K, <<>>, c)
  BY <1>1, <1>3 DEF Natives
<1>12. Chained(K, <<>>, c)
  BY <1>9 DEF Chained
<1>13. Sound(K, <<>>, c, Now)
  <2>1. Suits(LoopNow(K), Now.hs)
    BY <1>1 DEF Now
  <2> QED
    BY <1>1, <1>9, <1>10, <1>11, <1>12, <2>1 DEF Sound
<1>14. Now' = Now /\ ThunksOf(objs') = T0
  BY <1>5 DEF Now, T0
<1> QED
  BY <1>5, <1>6, <1>13, <1>14, StepView

LEMMA RaiseToHandlerView ==
  ASSUME NEW K, Acting(K), RaiseToHandler, UNCHANGED native, ~passed' => ~passed
  PROVE  Viewed(K)'
<1> DEFINE p == HandlerThunk(Head(handlers), FALSE)
<1>1. /\ Sound(K, stack, call, Now) /\ call.run.fn # "Break"
      /\ stack \in Seq(SyncFrames(n0, m0)) /\ m0 \in Nat /\ Suits(LoopNow(K), handlers)
  BY ActingFacts
<1>2. IsPair(handlers) /\ handlers \in SyncHandlerLists(m0)
  BY Typed DEF RaiseToHandler, Acting
<1>3. Head(handlers) \in Handlers(m0) /\ Tail(handlers) \in SyncHandlerLists(m0)
  BY <1>1, <1>2, PairTyped
<1>4. Suits(LoopNow(K), Tail(handlers))
  BY <1>1, <1>2, SuitsRest
<1>5. p \in SyncThunks(m0)
  BY <1>3 DEF HandlerThunk, SyncThunks, Thunks
<1>6. p.fn = "HandlerThunk" /\ ~p.continuable
  BY DEF HandlerThunk
<1>7. Same(LoopNow(K), Now, K.X[curDW])
  <2>1. ~Changes(call.run) /\ call.run.fn # "WindBody"
    BY DEF RaiseToHandler, Calling, Changes
  <2> QED
    BY <2>1, QuietHere
<1>8. /\ WithExceptionHandlers(stack, Tail(handlers), p) /\ ThunksOf(objs') = T0
      /\ UNCHANGED <<winds, curDW, handlers, env>>
  BY DEF RaiseToHandler, T0
<1> HIDE DEF p
<1>9. ~Changes(p) /\ FailsOnReturn(p) /\ p.fn # "ErrorThunk"
  BY <1>6 DEF Changes, FailsOnReturn
<1> QED
  BY <1>1, <1>3, <1>4, <1>5, <1>7, <1>8, <1>9, HandlersView

\* RaiseContinuable over stack s.
LEMMA RaiseContinuableView ==
  ASSUME NEW K, Acting(K), UNCHANGED <<winds, native, handlers, env, curDW>>,
         ThunksOf(objs') = T0, ~passed' => ~passed,
         NEW s \in Seq(SyncFrames(n0, m0)), NEW c, Sound(K, s, c, Now), c.run.fn # "Break",
         RaiseContinuable(s), Same(LoopNow(K), Now, K.X[curDW]), ~Final(c.run),
         curDW = Top(s).at, Same(LoopNow(K), K.X[curDW], Needs(Top(s), K.X, K.T))
  PROVE  Viewed(K)'
<1>1. /\ m0 \in Nat /\ Suits(LoopNow(K), handlers) /\ Reached(K, curDW)
      /\ handlers \in SyncHandlerLists(m0)
  BY ActingFacts, Typed DEF Acting
<1>2. CASE IsPair(handlers)
  <2> DEFINE p == HandlerThunk(Head(handlers), TRUE)
  <2>1. Head(handlers) \in Handlers(m0) /\ Tail(handlers) \in SyncHandlerLists(m0)
    BY <1>1, <1>2, PairTyped
  <2>2. Suits(LoopNow(K), Tail(handlers))
    BY <1>1, <1>2, SuitsRest
  <2>3. p \in SyncThunks(m0) /\ p.fn = "HandlerThunk"
    BY <2>1 DEF HandlerThunk, SyncThunks, Thunks
  <2>4. WithExceptionHandlers(s, Tail(handlers), p)
    BY <1>2 DEF RaiseContinuable
  <2> HIDE DEF p
  <2>5. ~Changes(p) /\ p.fn # "ErrorThunk"
    BY <2>3 DEF Changes
  <2> QED
    BY <2>1, <2>2, <2>3, <2>4, <2>5, HandlersView
<1>3. CASE ~IsPair(handlers)
  <2> DEFINE c2 == Closure(Raise, curDW)
  <2>1. stack' = s /\ call' = c2 /\ Now' = Now /\ Now.hs = handlers
    BY <1>3 DEF RaiseContinuable, Apply, Now
  <2>2. Simple(Raise) /\ ~Changes(Raise) /\ Final(Raise) /\ Raise.fn # "ErrorThunk"
    BY DEF Raise, Simple, Changes, Final
  <2>3. CallIn(K, Len(s) + 1, c2, Top(s), Now)
    BY <1>1, <2>2, QuietCall
  <2>4. c2.run = Raise /\ c2.at = curDW
    BY DEF Closure
  <2> HIDE DEF c2
  <2>5. Sound(K, s, c2, Now)
    BY <1>1, <2>1, <2>2, <2>3, <2>4, CallSound
  <2>6. Sound(K, stack', call', Now') /\ call'.at = curDW'
    BY <2>1, <2>4, <2>5
  <2> QED
    BY <2>6, StepView
<1> QED
  BY <1>2, <1>3

LEMMA HandlerThunkView ==
  ASSUME NEW K, Acting(K), CallHandlerThunk, UNCHANGED native, ~passed' => ~passed
  PROVE  Viewed(K)'
<1> DEFINE h == call.run.h
           q == [fn |-> "RaiseAgain"]
<1>1. /\ Sound(K, stack, call, Now) /\ call.run.fn # "Break" /\ call.at = curDW
      /\ stack \in Seq(SyncFrames(n0, m0)) /\ n0 \in Nat /\ m0 \in Nat
      /\ call.run \in SyncPending(n0, m0) /\ Reached(K, curDW)
  BY ActingFacts
<1>2. call.run.fn = "HandlerThunk"
  BY DEF CallHandlerThunk, Calling
<1>3. h \in Handlers(m0) /\ call.run.continuable \in BOOLEAN
  BY <1>1, <1>2, SyncCaptures
<1>4. h.fn \in {"User", "ErrorHandler"}
  BY <1>3 DEF Handlers
<1>5. /\ UNCHANGED <<winds, curDW, handlers, env>> /\ ThunksOf(objs') = T0 /\ Apply(h, curDW)
      /\ stack' = IF call.run.continuable THEN stack ELSE Push(stack, q, curDW)
  BY DEF CallHandlerThunk, T0
<1>6. ~Changes(call.run) /\ call.run.fn # "WindBody" /\ LeadsTo(call) = curDW
  BY <1>1, <1>2 DEF Changes, LeadsTo
<1>7. /\ Same(LoopNow(K), Now, K.X[curDW])
      /\ Final(call.run) \/ /\ curDW = Top(stack).at
                            /\ Same(LoopNow(K), K.X[curDW], Needs(Top(stack), K.X, K.T))
  BY <1>6, QuietHere
<1> HIDE DEF h
<1>8. Simple(h) /\ ~Changes(h) /\ h.fn # "ErrorThunk"
  BY <1>4 DEF Simple, Changes
<1>9. CASE call.run.continuable
  <2>1. ~Final(call.run)
    BY <1>2, <1>9 DEF Final, FailsOnReturn
  <2>2. UNCHANGED stack
    BY <1>5, <1>9
  <2> QED
    BY <1>5, <1>7, <1>8, <2>1, <2>2, QuietCallView
<1>10. CASE ~call.run.continuable
  <2>1. stack' = Push(stack, q, curDW)
    BY <1>5, <1>10
  <2>2. q \in SyncContinuations(n0, m0) /\ q.fn = "RaiseAgain"
    BY <1>1, SimpleTyped
  <2> HIDE DEF q
  <2>3. Final(q) /\ Simple(q) /\ InstallsFor(LoopNow(K), q)
    BY <2>2 DEF Final, Simple, InstallsFor
  <2>4. Frame(K, Len(stack) + 1, Closure(q, curDW))
    BY <1>1, <2>3, SimpleFrame
  <2>5. /\ Closure(q, curDW).run = q /\ Closure(q, curDW).at = curDW
        /\ Needs(Closure(q, curDW), K.X, K.T) = K.X[curDW]
    BY <2>3, SimpleNeeds
  <2>6. Hands(K, Len(stack) + 1, Closure(q, curDW), Top(stack))
    BY <2>3, <2>5 DEF Hands
  <2>7. CallIn(K, Len(stack) + 2, Closure(h, curDW), Closure(q, curDW), Now)
    BY <1>1, <1>7, <1>8, <2>5, SameIs, QuietCall
  <2>8. curDW \in Nat /\ curDW' = curDW
    BY <1>5, Typed DEF Acting
  <2> QED
    BY <1>5, <2>1, <2>2, <2>3, <2>4, <2>6, <2>7, <2>8, PushView
<1> QED
  BY <1>3, <1>9, <1>10

LEMMA RaisingView ==
  ASSUME NEW K, Acting(K), UNCHANGED <<stack, winds, native, handlers, env, curDW>>,
         ThunksOf(objs') = T0, ~passed' => ~passed, Apply(Raise, curDW),
         Same(LoopNow(K), Now, K.X[curDW])
  PROVE  Viewed(K)'
<1>1. Simple(Raise) /\ ~Changes(Raise) /\ Final(Raise) /\ Raise.fn # "ErrorThunk"
  BY DEF Raise, Simple, Changes, Final
<1> QED
  BY <1>1, QuietCallView

LEMMA RaiseView ==
  ASSUME NEW K, Acting(K), RaiseStep, UNCHANGED native, ~passed' => ~passed
  PROVE  Viewed(K)'
<1>1. CASE RaiseAgain
  <2>1. ~Changes(call.run) /\ call.run.fn # "WindBody"
    BY <1>1 DEF RaiseAgain, Calling, Changes
  <2>2. Same(LoopNow(K), Now, K.X[curDW])
    BY <2>1, QuietHere
  <2>3. /\ Apply(Raise, curDW) /\ UNCHANGED <<stack, winds, handlers, env, curDW>>
        /\ ThunksOf(objs') = T0
    BY <1>1 DEF RaiseAgain, T0
  <2> QED
    BY <2>2, <2>3, RaisingView
<1> QED
  BY <1>1, SetHandlersView, RaiseUncaughtView, RaiseToHandlerView, HandlerThunkView DEF RaiseStep

-----------------------------------------------------------------------------
(* Managed objects *)

\* A thunk of an object is called for SafeBefore or SafeAfter.
LEMMA ObjectThunkCall ==
  ASSUME NEW K, NEW S, NEW s \in Seq(S), NEW c, NEW x, Sound(K, s, c, x),
         c.run.fn # "Break", NEW i \in {Len(s) + 1, Len(s) + 2},
         NEW q, IsObjectThunk(q), NEW d, Reached(K, d), NEW g, d = g.at, NEW y,
         Same(LoopNow(K), y, K.X[d]) \/ Same(LoopNow(K), Effect(q, K.T, y), K.X[d]),
         Same(LoopNow(K), Effect(q, K.T, y), Needs(g, K.X, K.T))
  PROVE  CallIn(K, i, Closure(q, d), g, y)
<1>1. CASE q.fn = "User"
  <2>1. Simple(q) /\ ~Changes(q) /\ q.fn # "ErrorThunk"
    BY <1>1 DEF Simple, Changes
  <2>2. Same(LoopNow(K), Effect(q, K.T, y), y)
    BY <1>1, SameUser
  <2>3. Same(LoopNow(K), y, K.X[d])
    BY <2>2, SameIs
  <2>4. Same(LoopNow(K), K.X[d], Needs(g, K.X, K.T))
    BY <2>2, <2>3, SameIs
  <2> QED
    BY <2>1, <2>3, <2>4, QuietCall
<1>2. CASE q.fn = "SetEnv"
  <2>1. Changes(q) /\ InstallsFor(LoopNow(K), q) /\ q.fn \notin {"SafeBefore", "SafeAfter"}
    BY <1>2 DEF Changes, InstallsFor
  <2> QED
    BY <2>1, ChangingCall
<1> QED
  BY <1>1, <1>2 DEF IsObjectThunk

\* The thunks that SafeBefore and SafeAfter call.
LEMMA ObjectThunks ==
  ASSUME NEW K, Acting(K), ObjectsSetEnv(T0), call.run.fn \in {"SafeBefore", "SafeAfter"}
  PROVE  LET o == call.run.o
             q == IF call.run.fn = "SafeBefore" THEN objs[o].before ELSE objs[o].after
         IN /\ o \in 1..m0 /\ IsObjectThunk(q)
            /\ Effect(q, K.T, Now) = Effect(call.run, K.T, Now)
<1> DEFINE o == call.run.o
           q == IF call.run.fn = "SafeBefore" THEN objs[o].before ELSE objs[o].after
<1>1. /\ K.T = T0 /\ n0 \in Nat /\ m0 \in Nat /\ call.run \in SyncPending(n0, m0)
      /\ objs \in Seq(Objects(m0))
  BY ActingFacts, Typed DEF Acting
<1>2. o \in 1..m0
  BY <1>1, SyncCaptures
<1>3. DOMAIN objs = 1..m0
  BY <1>1, LenProperties DEF m0
<1>4. o \in DOMAIN T0 /\ T0[o].before = objs[o].before /\ T0[o].after = objs[o].after
  BY <1>2, <1>3 DEF T0, ThunksOf
<1>5. IsObjectThunk(q)
  BY <1>4 DEF ObjectsSetEnv
<1>6. Inner(call.run, T0) = q
  BY <1>4 DEF Inner
<1>7. Inner(q, T0) = q /\ q.fn # "SetHandlers"
  BY <1>5 DEF Inner, IsObjectThunk
<1> HIDE DEF q, o
<1>8. Effect(q, K.T, Now) = Effect(call.run, K.T, Now)
  BY <1>1, <1>6, <1>7 DEF Effect
<1> QED
  BY <1>2, <1>5, <1>8 DEF q, o

LEMMA SafeBeforeView ==
  ASSUME NEW K, Acting(K), ObjectsSetEnv(T0), SafeBefore, UNCHANGED native,
         ~passed' => ~passed
  PROVE  Viewed(K)'
<1> DEFINE o == call.run.o
           q == objs[o].before
<1>1. /\ Sound(K, stack, call, Now) /\ call.run.fn # "Break" /\ call.at = curDW
      /\ stack \in Seq(SyncFrames(n0, m0)) /\ Reached(K, curDW)
  BY ActingFacts
<1>2. call.run.fn = "SafeBefore" /\ Changes(call.run)
  BY DEF SafeBefore, Calling, Changes
<1>3. /\ curDW = Top(stack).at /\ ~Final(call.run) /\ Same(LoopNow(K), Now, K.X[curDW])
      /\ Same(LoopNow(K), Effect(call.run, K.T, Now), Needs(Top(stack), K.X, K.T))
  BY <1>1, <1>2, ChangingFacts
<1>4. IsObjectThunk(q) /\ Effect(q, K.T, Now) = Effect(call.run, K.T, Now)
  BY <1>2, ObjectThunks
<1>5. UNCHANGED <<stack, winds, handlers, env, curDW>> /\ ThunksOf(objs') = T0
  BY DEF SafeBefore, T0
<1>6. CASE objs[o].alive
  <2>1. Apply(q, curDW)
    BY <1>6 DEF SafeBefore
  <2> HIDE DEF q
  <2>2. CallIn(K, Len(stack) + 1, Closure(q, curDW), Top(stack), Now)
    BY <1>1, <1>3, <1>4, ObjectThunkCall
  <2> QED
    BY <1>3, <1>5, <2>1, <2>2, CallView
<1>7. CASE ~objs[o].alive
  <2>1. Apply(Raise, curDW)
    BY <1>7 DEF SafeBefore
  <2> QED
    BY <1>3, <1>5, <2>1, RaisingView
<1> QED
  BY <1>6, <1>7

LEMMA SafeAfterView ==
  ASSUME NEW K, Acting(K), ObjectsSetEnv(T0), SafeAfter, UNCHANGED native,
         ~passed' => ~passed
  PROVE  Viewed(K)'
<1> DEFINE o == call.run.o
           q == objs[o].after
           p == OfObject("Destroy", o)
<1>1. /\ Sound(K, stack, call, Now) /\ call.run.fn # "Break" /\ call.at = curDW
      /\ stack \in Seq(SyncFrames(n0, m0)) /\ Reached(K, curDW) /\ n0 \in Nat /\ m0 \in Nat
  BY ActingFacts
<1>2. call.run.fn = "SafeAfter" /\ Changes(call.run)
  BY DEF SafeAfter, Calling, Changes
<1>3. /\ curDW = Top(stack).at /\ ~Final(call.run)
      /\ Same(LoopNow(K), Effect(call.run, K.T, Now), K.X[curDW])
      /\ Same(LoopNow(K), Effect(call.run, K.T, Now), Needs(Top(stack), K.X, K.T))
  BY <1>1, <1>2, ChangingFacts
<1>4. o \in 1..m0 /\ IsObjectThunk(q) /\ Effect(q, K.T, Now) = Effect(call.run, K.T, Now)
  <2>1. call.run.fn # "SafeBefore"
    BY <1>2
  <2> QED
    BY <1>2, <2>1, ObjectThunks
<1>5. /\ UNCHANGED <<winds, handlers, env, curDW>> /\ ThunksOf(objs') = T0 /\ Apply(q, curDW)
      /\ stack' = IF objs[o].isError THEN Push(stack, p, curDW) ELSE stack
  BY DEF SafeAfter, T0
<1> HIDE DEF q
<1>6. CASE objs[o].isError
  <2> DEFINE f == Closure(p, curDW)
  <2>1. stack' = Push(stack, p, curDW)
    BY <1>5, <1>6
  <2>2. p \in SyncContinuations(n0, m0) /\ p.fn = "Destroy"
    BY <1>1, <1>4, SimpleTyped DEF OfObject
  <2> HIDE DEF p
  <2>3. Simple(p) /\ InstallsFor(LoopNow(K), p) /\ ~Final(p)
    BY <2>2 DEF Simple, InstallsFor, Final, FailsOnReturn
  <2>4. Frame(K, Len(stack) + 1, f) /\ Loop(K, Len(stack) + 1) = LoopNow(K)
    BY <1>1, <2>3, SimpleFrame
  <2>5. f.run = p /\ f.at = curDW /\ LeadsTo(f) = curDW /\ Needs(f, K.X, K.T) = K.X[curDW]
    BY <2>3, SimpleNeeds
  <2>6. Hands(K, Len(stack) + 1, f, Top(stack))
    <3>1. Same(LoopNow(K), K.X[curDW], Needs(Top(stack), K.X, K.T))
      BY <1>3, SameIs
    <3> HIDE DEF f
    <3> QED
      BY <1>3, <2>4, <2>5, <3>1 DEF Hands
  <2>7. CallIn(K, Len(stack) + 2, Closure(q, curDW), f, Now)
    <3> HIDE DEF f
    <3> QED
      BY <1>1, <1>3, <1>4, <2>5, ObjectThunkCall
  <2>8. curDW \in Nat /\ curDW' = curDW
    BY <1>5, Typed DEF Acting
  <2> QED
    BY <1>3, <1>5, <2>1, <2>2, <2>4, <2>6, <2>7, <2>8, PushView
<1>7. CASE ~objs[o].isError
  <2>1. UNCHANGED stack
    BY <1>5, <1>7
  <2>2. CallIn(K, Len(stack) + 1, Closure(q, curDW), Top(stack), Now)
    BY <1>1, <1>3, <1>4, ObjectThunkCall
  <2> QED
    BY <1>3, <1>5, <2>1, <2>2, CallView
<1> QED
  BY <1>6, <1>7

\* What returns to a frame p that is pushed may be called next.
\* A call that runs outside the code of an extent and changes nothing.
QuietAt(K, S, s, c, x, d) ==
  /\ s \in Seq(S) /\ Sound(K, s, c, x) /\ c.at = d /\ LeadsTo(c) = d
  /\ c.run.fn # "Break" /\ c.run.fn # "WindBody" /\ ~Final(c.run) /\ ~Changes(c.run)

QuietFrame(p) == Simple(p) /\ ~Changes(p) /\ ~Final(p)

LEMMA QuietTop ==
  ASSUME NEW K, NEW S, NEW s, NEW c, NEW x, NEW d, QuietAt(K, S, s, c, x, d)
  PROVE  d = Top(s).at /\ Same(LoopNow(K), K.X[d], Needs(Top(s), K.X, K.T))
  BY QuietFacts DEF QuietAt

LEMMA QuietPush ==
  ASSUME NEW K, NEW S, NEW s, NEW c, NEW x, NEW d, NEW p,
         QuietAt(K, S, s, c, x, d), QuietFrame(p), Closure(p, d) \in S
  PROVE  QuietAt(K, S, Push(s, p, d), Closure(User("thunk"), d), x, d)
<1> DEFINE f == Closure(p, d)
           q == User("thunk")
           t == Push(s, p, d)
           c2 == Closure(q, d)
<1>0. /\ s \in Seq(S) /\ Sound(K, s, c, x) /\ c.at = d /\ LeadsTo(c) = d
      /\ c.run.fn # "Break" /\ c.run.fn # "WindBody" /\ ~Final(c.run) /\ ~Changes(c.run)
      /\ Simple(p) /\ ~Changes(p) /\ ~Final(p) /\ f \in S
  BY DEF QuietAt, QuietFrame
<1>1. Reached(K, d) /\ Suits(LoopNow(K), x.hs)
  BY <1>0, SoundFacts DEF Sound
<1>2. /\ Same(LoopNow(K), x, K.X[d]) /\ d = Top(s).at
      /\ Same(LoopNow(K), K.X[d], Needs(Top(s), K.X, K.T))
  BY <1>0, QuietFacts
<1>3. f.run = p /\ f.at = d /\ LeadsTo(f) = d /\ Needs(f, K.X, K.T) = K.X[d]
  BY <1>0, SimpleNeeds
<1>4. InstallsFor(LoopNow(K), p)
  BY <1>0 DEF InstallsFor, Changes
<1>5. Frame(K, Len(s) + 1, f) /\ Loop(K, Len(s) + 1) = LoopNow(K)
  BY <1>0, <1>1, <1>4, SimpleFrame
<1>6. c2.run = q /\ c2.at = d /\ q.fn = "User"
  BY DEF Closure, User
<1>7. t = Push(s, p, d) /\ f = Closure(p, d)
  OBVIOUS
<1> HIDE DEF f, q, t, c2
<1>8. Hands(K, Len(s) + 1, f, Top(s))
  BY <1>0, <1>2, <1>3, <1>5 DEF Hands
<1>9. Simple(q) /\ ~Changes(q) /\ ~Final(q) /\ q.fn # "ErrorThunk"
  BY <1>6 DEF Simple, Changes, Final, FailsOnReturn
<1>10. Same(LoopNow(K), K.X[d], Needs(f, K.X, K.T))
  BY <1>3, SameIs
<1>11. CallIn(K, Len(s) + 2, Closure(q, d), f, x)
  BY <1>0, <1>1, <1>2, <1>3, <1>9, <1>10, QuietCall
<1>12. CallIn(K, Len(s) + 2, c2, f, x)
  BY <1>11 DEF c2
<1>13. Sound(K, Push(s, p, d), c2, x) /\ Push(s, p, d) \in Seq(S)
  <2>1. /\ Closure(p, d) \in S
        /\ Frame(K, Len(s) + 1, Closure(p, d))
        /\ Hands(K, Len(s) + 1, Closure(p, d), Top(s))
        /\ CallIn(K, Len(s) + 2, c2, Closure(p, d), x)
    BY <1>0, <1>5, <1>7, <1>8, <1>12
  <2> QED
    BY <1>0, <1>1, <2>1, PushSound
<1>14. Top(t) = f
  BY <1>0, <1>7, PushFrames
<1>15. LeadsTo(c2) = d /\ c2.run.fn # "Break" /\ c2.run.fn # "WindBody"
  BY <1>6 DEF LeadsTo
<1>16. QuietAt(K, S, t, c2, x, d)
  BY <1>3, <1>6, <1>7, <1>9, <1>10, <1>13, <1>14, <1>15 DEF QuietAt
<1> QED
  BY <1>16 DEF t, c2, q

LEMMA PushedSound ==
  ASSUME NEW K, Acting(K), ~Changes(call.run), call.run.fn # "WindBody",
         LeadsTo(call) = curDW, ~Final(call.run),
         NEW p \in SyncContinuations(n0, m0), Simple(p), ~Changes(p), ~Final(p)
  PROVE  LET s == Push(stack, p, curDW)
             c == Closure(User("thunk"), curDW)
         IN /\ s \in Seq(SyncFrames(n0, m0)) /\ Sound(K, s, c, Now) /\ c.run.fn # "Break"
            /\ ~Final(c.run) /\ ~Changes(c.run) /\ curDW = Top(s).at
            /\ Same(LoopNow(K), K.X[curDW], Needs(Top(s), K.X, K.T))
<1> DEFINE s == Push(stack, p, curDW)
           c == Closure(User("thunk"), curDW)
           f == Closure(p, curDW)
           S == SyncFrames(n0, m0)
<1>1. /\ Sound(K, stack, call, Now) /\ call.run.fn # "Break" /\ call.at = curDW
      /\ stack \in Seq(S)
  BY ActingFacts
<1>2. f \in S
  BY Typed DEF Closure, SyncFrames, Acting
<1>3. s = Push(stack, p, curDW) /\ c = Closure(User("thunk"), curDW) /\ f = Closure(p, curDW)
  OBVIOUS
<1> HIDE DEF s, c, f, S
<1>4. QuietAt(K, S, stack, call, Now, curDW) /\ QuietFrame(p)
  BY <1>1 DEF QuietAt, QuietFrame
<1>5. QuietAt(K, S, s, c, Now, curDW)
  BY <1>2, <1>3, <1>4, QuietPush
<1>6. /\ s \in Seq(S) /\ Sound(K, s, c, Now) /\ c.run.fn # "Break"
      /\ ~Final(c.run) /\ ~Changes(c.run) /\ curDW = Top(s).at
      /\ Same(LoopNow(K), K.X[curDW], Needs(Top(s), K.X, K.T))
  BY <1>5, QuietTop DEF QuietAt
<1> QED
  BY <1>6 DEF s, c, S

LEMMA ErrorThunkView ==
  ASSUME NEW K, Acting(K), ErrorThunk, UNCHANGED native, ~passed' => ~passed
  PROVE  Viewed(K)'
<1> DEFINE o == call.run.o
           b == OfObject("SafeBefore", o)
           a == OfObject("SafeAfter", o)
           t == User("thunk")
           inside == Effect(b, K.T, K.X[curDW])
<1>1. /\ Sound(K, stack, call, Now) /\ call.run.fn # "Break" /\ call.at = curDW
      /\ stack \in Seq(SyncFrames(n0, m0)) /\ n0 \in Nat /\ m0 \in Nat
      /\ call.run \in SyncPending(n0, m0)
  BY ActingFacts
<1>2. call.run.fn = "ErrorThunk"
  BY DEF ErrorThunk, Calling
<1>3. /\ ~Changes(call.run) /\ ~Final(call.run) /\ call.run.fn # "WindBody"
      /\ LeadsTo(call) = curDW
  BY <1>1, <1>2 DEF Changes, Final, FailsOnReturn, LeadsTo
<1>4. /\ Same(LoopNow(K), Now, K.X[curDW]) /\ curDW = Top(stack).at
      /\ Same(LoopNow(K), K.X[curDW], Needs(Top(stack), K.X, K.T))
      /\ ObjectUndoes(o, K.T, K.X[curDW])
  BY <1>2, <1>3, QuietHere
<1>5. o \in 1..m0
  BY <1>1, <1>2, SyncCaptures
<1>6. b \in SyncThunks(m0) /\ a \in SyncThunks(m0) /\ t \in SyncThunks(m0)
  BY <1>1, <1>5, SimpleTyped DEF Roles
<1>7. b.fn = "SafeBefore" /\ a.fn = "SafeAfter" /\ t.fn = "User"
  BY DEF OfObject, User
<1>8. Effect(a, K.T, inside) = K.X[curDW] /\ K.X[curDW].env <= inside.env
  BY <1>4 DEF ObjectUndoes
<1>9. /\ DynamicWind(stack, b, t, a) /\ UNCHANGED <<winds, handlers, env, curDW>>
      /\ ThunksOf(objs') = T0
  BY DEF ErrorThunk, T0
<1> HIDE DEF a, b, t
<1>10. /\ IsBefore(b) /\ IsAfter(a) /\ ~Changes(t) /\ t.fn # "ErrorThunk"
       /\ InstallsFor(LoopNow(K), b) /\ InstallsFor(LoopNow(K), a)
  BY <1>7 DEF IsBefore, IsAfter, Changes, InstallsFor
<1>11. Same(LoopNow(K), Effect(a, K.T, inside), K.X[curDW])
  BY <1>8, SameIs
<1> HIDE DEF inside
<1>12. inside = Effect(b, K.T, K.X[curDW])
  BY DEF inside
<1> QED
  BY <1>1, <1>3, <1>4, <1>6, <1>8, <1>9, <1>10, <1>11, <1>12, OpenView

LEMMA ErrorHandlerView ==
  ASSUME NEW K, Acting(K), ErrorHandler, UNCHANGED native, ~passed' => ~passed
  PROVE  Viewed(K)'
<1> DEFINE o == call.run.o
           p == OfObject("ClearMark", o)
           s == Push(stack, p, curDW)
           c == Closure(User("thunk"), curDW)
<1>1. /\ call.at = curDW /\ n0 \in Nat /\ m0 \in Nat /\ call.run \in SyncPending(n0, m0)
      /\ objs \in Seq(Objects(m0))
  BY ActingFacts, Typed DEF Acting
<1>2. call.run.fn = "ErrorHandler"
  BY DEF ErrorHandler, Calling
<1>3. /\ ~Changes(call.run) /\ ~Final(call.run) /\ call.run.fn # "WindBody"
      /\ LeadsTo(call) = curDW
  BY <1>1, <1>2 DEF Changes, Final, FailsOnReturn, LeadsTo
<1>4. o \in 1..m0
  BY <1>1, <1>2, SyncCaptures
<1>5. p \in SyncContinuations(n0, m0) /\ p.fn = "ClearMark"
  BY <1>1, <1>4, SimpleTyped DEF OfObject
<1>6. objs' = [objs EXCEPT ![o].isError = TRUE] /\ UNCHANGED <<winds, handlers, env, curDW>>
  BY DEF ErrorHandler
<1>7. ThunksOf(objs') = T0
  BY <1>1, <1>6, ThunksKept
<1>8. RaiseContinuable(s)
  BY DEF ErrorHandler
<1> HIDE DEF p
<1>9. Simple(p) /\ ~Changes(p) /\ ~Final(p)
  BY <1>5 DEF Simple, Changes, Final, FailsOnReturn
<1>10. /\ s \in Seq(SyncFrames(n0, m0)) /\ Sound(K, s, c, Now) /\ c.run.fn # "Break"
       /\ ~Final(c.run) /\ curDW = Top(s).at
       /\ Same(LoopNow(K), K.X[curDW], Needs(Top(s), K.X, K.T))
  BY <1>3, <1>5, <1>9, PushedSound
<1>11. Same(LoopNow(K), Now, K.X[curDW])
  BY <1>3, QuietHere
<1> HIDE DEF s, c
<1> QED
  BY <1>6, <1>7, <1>8, <1>10, <1>11, RaiseContinuableView

LEMMA ObjectView ==
  ASSUME NEW K, Acting(K), ObjectsSetEnv(T0), ObjectStep, UNCHANGED native,
         ~passed' => ~passed
  PROVE  Viewed(K)'
<1>1. objs \in Seq(Objects(m0)) /\ call.at = curDW
  BY ActingFacts, Typed DEF Acting
<1>2. CASE ClearMark \/ Destroy \/ DestroyAgain
  <2>1. call.run.fn \in {"ClearMark", "Destroy"}
    BY <1>2 DEF ClearMark, Destroy, DestroyAgain, Calling
  <2>2. /\ ~Changes(call.run) /\ ~Final(call.run) /\ call.run.fn # "WindBody"
        /\ LeadsTo(call) = curDW
    BY <1>1, <2>1 DEF Changes, Final, FailsOnReturn, LeadsTo
  <2>3. CASE DestroyAgain
    <3>1. /\ Apply(Raise, curDW) /\ UNCHANGED <<stack, winds, handlers, env, curDW>>
          /\ ThunksOf(objs') = T0
      BY <2>3 DEF DestroyAgain, T0
    <3>2. Same(LoopNow(K), Now, K.X[curDW])
      BY <2>2, QuietHere
    <3> QED
      BY <3>1, <3>2, RaisingView
  <2>4. CASE ClearMark
    <3>1. /\ objs' = [objs EXCEPT ![call.run.o].isError = FALSE] /\ Cont(stack)
          /\ UNCHANGED <<winds, handlers, env, curDW>>
      BY <2>4 DEF ClearMark
    <3>2. ThunksOf(objs') = T0
      BY <1>1, <3>1, ThunksKept
    <3> QED
      BY <2>2, <3>1, <3>2, QuietReturnView
  <2>5. CASE Destroy
    <3>1. /\ objs' = [objs EXCEPT ![call.run.o].alive = FALSE] /\ Cont(stack)
          /\ UNCHANGED <<winds, handlers, env, curDW>>
      BY <2>5 DEF Destroy
    <3>2. ThunksOf(objs') = T0
      BY <1>1, <3>1, ThunksKept
    <3> QED
      BY <2>2, <3>1, <3>2, QuietReturnView
  <2> QED
    BY <1>2, <2>3, <2>4, <2>5
<1> QED
  BY <1>2, ErrorThunkView, SafeBeforeView, SafeAfterView, ErrorHandlerView, SetEnvView
  DEF ObjectStep

-----------------------------------------------------------------------------
(* User code *)

\* User code that goes on, with its continuation on the stack.
LEMMA UserHere ==
  ASSUME NEW K, Acting(K), Calling("User")
  PROVE  LET c == Closure(User("thunk"), curDW)
         IN /\ Here \in Seq(SyncFrames(n0, m0)) /\ Sound(K, Here, c, Now)
            /\ c.run.fn # "Break" /\ ~Final(c.run) /\ curDW = Top(Here).at
            /\ Same(LoopNow(K), K.X[curDW], Needs(Top(Here), K.X, K.T))
            /\ Same(LoopNow(K), Now, K.X[curDW])
            /\ ~Changes(call.run) /\ ~Final(call.run) /\ call.run.fn # "WindBody"
            /\ LeadsTo(call) = curDW
<1> DEFINE p == User("main")
<1>1. call.at = curDW /\ n0 \in Nat /\ m0 \in Nat
  BY ActingFacts
<1>2. /\ ~Changes(call.run) /\ ~Final(call.run) /\ call.run.fn # "WindBody"
      /\ LeadsTo(call) = curDW
  BY <1>1 DEF Calling, Changes, Final, FailsOnReturn, LeadsTo
<1>3. p \in SyncContinuations(n0, m0) /\ p.fn = "User"
  BY <1>1, SimpleTyped DEF User, Roles
<1>4. Here = Push(stack, p, curDW)
  BY DEF Here
<1> HIDE DEF p
<1>5. Simple(p) /\ ~Changes(p) /\ ~Final(p)
  BY <1>3 DEF Simple, Changes, Final, FailsOnReturn
<1>6. Same(LoopNow(K), Now, K.X[curDW])
  BY <1>2, QuietHere
<1> QED
  BY <1>2, <1>3, <1>4, <1>5, <1>6, PushedSound

LEMMA UserWindView ==
  ASSUME NEW K, Acting(K), UserWind, UNCHANGED native, ~passed' => ~passed
  PROVE  Viewed(K)'
<1> DEFINE c == Closure(User("thunk"), curDW)
           b == User("before")
           t == User("thunk")
           a == User("after")
           inside == Effect(b, K.T, K.X[curDW])
<1>1. /\ Here \in Seq(SyncFrames(n0, m0)) /\ Sound(K, Here, c, Now)
      /\ c.run.fn # "Break" /\ ~Final(c.run) /\ curDW = Top(Here).at
      /\ Same(LoopNow(K), K.X[curDW], Needs(Top(Here), K.X, K.T))
      /\ Same(LoopNow(K), Now, K.X[curDW])
  BY UserHere DEF UserWind, Use
<1>2. b \in SyncThunks(m0) /\ a \in SyncThunks(m0) /\ t \in SyncThunks(m0)
  BY ActingFacts, SimpleTyped DEF Roles
<1>3. b.fn = "User" /\ a.fn = "User" /\ t.fn = "User"
  BY DEF User
<1>4. /\ DynamicWind(Here, b, t, a) /\ UNCHANGED <<winds, handlers, env, curDW>>
      /\ ThunksOf(objs') = T0
  BY DEF UserWind, Use, T0
<1>5. Reached(K, curDW) /\ Sound(K, stack, call, Now)
  BY ActingFacts
<1>6. K.X[curDW].env \in Int
  BY <1>5, ReachedIn
<1> HIDE DEF a, b, t, c
<1>7. /\ IsBefore(b) /\ IsAfter(a) /\ ~Changes(t) /\ t.fn # "ErrorThunk"
      /\ InstallsFor(LoopNow(K), b) /\ InstallsFor(LoopNow(K), a)
  BY <1>3 DEF IsBefore, IsAfter, Changes, InstallsFor
<1>8. /\ Same(LoopNow(K), Effect(a, K.T, inside), inside)
      /\ Same(LoopNow(K), inside, K.X[curDW])
  BY <1>3, SameUser
<1>9. /\ Same(LoopNow(K), Effect(a, K.T, inside), K.X[curDW])
      /\ K.X[curDW].env <= inside.env
  BY <1>6, <1>8 DEF Same
<1>10. inside = Effect(b, K.T, K.X[curDW])
  OBVIOUS
<1> HIDE DEF inside
<1> QED
  BY <1>1, <1>2, <1>4, <1>7, <1>9, <1>10, OpenView

LEMMA UserHandlerView ==
  ASSUME NEW K, Acting(K), UserHandler, UNCHANGED native, ~passed' => ~passed
  PROVE  Viewed(K)'
<1> DEFINE c == Closure(User("thunk"), curDW)
           t == User("thunk")
           h == User("handler")
           hs == <<h>> \o handlers
<1>1. /\ Here \in Seq(SyncFrames(n0, m0)) /\ Sound(K, Here, c, Now)
      /\ c.run.fn # "Break" /\ ~Final(c.run) /\ curDW = Top(Here).at
      /\ Same(LoopNow(K), K.X[curDW], Needs(Top(Here), K.X, K.T))
      /\ Same(LoopNow(K), Now, K.X[curDW])
  BY UserHere DEF UserHandler, Use
<1>2. /\ n0 \in Nat /\ m0 \in Nat /\ handlers \in SyncHandlerLists(m0)
      /\ Suits(LoopNow(K), handlers)
  BY ActingFacts, Typed DEF Acting
<1>3. t \in SyncThunks(m0) /\ t.fn = "User" /\ h \in Handlers(m0)
  BY <1>2, SimpleTyped DEF Roles, User, Handlers
<1>4. /\ WithExceptionHandlers(Here, hs, t) /\ UNCHANGED <<winds, handlers, env, curDW>>
      /\ ThunksOf(objs') = T0
  BY DEF UserHandler, Use, T0
<1> HIDE DEF t, c, h
<1>5. hs \in SyncHandlerLists(m0)
  <2>1. <<h>> \in Seq(Handlers(m0) \cup {Catch})
    BY <1>3
  <2> QED
    BY <1>2, <2>1, ConcatProperties DEF SyncHandlerLists
<1>6. Suits(LoopNow(K), hs)
  BY <1>2, <1>3, SuitsMore
<1>7. ~Changes(t) /\ t.fn # "ErrorThunk"
  BY <1>3 DEF Changes
<1> HIDE DEF hs
<1> QED
  BY <1>1, <1>3, <1>4, <1>5, <1>6, <1>7, HandlersView

\* The steps of user code that make no object.
LEMMA UserView ==
  ASSUME NEW K, Acting(K), NothingSaved, UserStep, ~UserManaged, ~UserWithEnv,
         UNCHANGED native, ~passed' => ~passed
  PROVE  Viewed(K)'
<1> DEFINE c == Closure(User("thunk"), curDW)
<1>1. Calling("User")
  BY DEF UserStep, UserReturn, UserWind, UserCallCC, UserThrow, UserRaise,
         UserRaiseContinuable, UserHandler, UserManaged, UserWithEnv, Use
<1>2. /\ Here \in Seq(SyncFrames(n0, m0)) /\ Sound(K, Here, c, Now)
      /\ c.run.fn # "Break" /\ ~Final(c.run) /\ curDW = Top(Here).at
      /\ Same(LoopNow(K), K.X[curDW], Needs(Top(Here), K.X, K.T))
      /\ Same(LoopNow(K), Now, K.X[curDW])
      /\ ~Changes(call.run) /\ ~Final(call.run) /\ call.run.fn # "WindBody"
      /\ LeadsTo(call) = curDW
  BY <1>1, UserHere
<1>3. c.at = curDW
  BY DEF Closure
<1> HIDE DEF c
<1>4. CASE UserReturn
  <2>1. Cont(stack) /\ UNCHANGED <<winds, handlers, env, curDW>> /\ ThunksOf(objs') = T0
    BY <1>4 DEF UserReturn, T0
  <2> QED
    BY <1>2, <2>1, QuietReturnView
<1>5. CASE UserCallCC
  <2>1. /\ stack' = Here /\ call' = c /\ UNCHANGED <<winds, handlers, env, curDW>>
        /\ ThunksOf(objs') = T0
    BY <1>5 DEF UserCallCC, Use, Apply, T0, c
  <2>2. Now' = Now
    BY <2>1 DEF Now
  <2>3. Sound(K, stack', call', Now') /\ call'.at = curDW'
    BY <1>2, <1>3, <2>1, <2>2
  <2> QED
    BY <2>1, <2>3, StepView
<1>6. CASE UserRaise
  <2>1. /\ Apply(Raise, curDW) /\ UNCHANGED <<stack, winds, handlers, env, curDW>>
        /\ ThunksOf(objs') = T0
    BY <1>6 DEF UserRaise, Use, T0
  <2> QED
    BY <1>2, <2>1, RaisingView
<1>7. CASE UserRaiseContinuable
  <2>1. /\ RaiseContinuable(Here) /\ UNCHANGED <<winds, handlers, env, curDW>>
        /\ ThunksOf(objs') = T0
    BY <1>7 DEF UserRaiseContinuable, Use, T0
  <2> QED
    BY <1>2, <2>1, RaiseContinuableView
<1>8. ~UserThrow
  BY NoThrow
<1> QED
  BY <1>4, <1>5, <1>6, <1>7, <1>8, UserWindView, UserHandlerView DEF UserStep

-----------------------------------------------------------------------------
(* Another view of the same frames *)

SameThunks(T, T2, m) == \A o \in 1..m : T2[o] = T[o]

\* K2 says the same of the windings and the m objects K accounts for.
Agrees(K, K2, m) ==
  /\ Len(K.W) \in Nat /\ m \in Nat
  /\ K2.lo = K.lo /\ K2.base = K.base
  /\ \A w \in 1..Len(K.W) : K2.W[w] = K.W[w]
  /\ SameThunks(K.T, K2.T, m)
  /\ \A w \in 0..Len(K.W) : K2.P[w] = K.P[w] /\ K2.X[w] = K.X[w]

Widens(K, K2, l) == Zone(K, l) \subseteq Zone(K2, l) /\ Opened(K, l) \subseteq Opened(K2, l)

LEMMA EffectKept ==
  ASSUME NEW n \in Nat, NEW m \in Nat, NEW p \in SyncPending(n, m), NEW T, NEW T2,
         SameThunks(T, T2, m), NEW x
  PROVE  Effect(p, T2, x) = Effect(p, T, x)
<1>1. p.fn \in {"SafeBefore", "SafeAfter"} => p.o \in 1..m
  BY SyncCaptures
<1>2. Inner(p, T2) = Inner(p, T)
  BY <1>1 DEF Inner, SameThunks
<1> QED
  BY <1>2 DEF Effect

LEMMA UndoesKept ==
  ASSUME NEW m \in Nat, NEW o \in 1..m, NEW T, NEW T2, SameThunks(T, T2, m), NEW x,
         ObjectUndoes(o, T, x)
  PROVE  ObjectUndoes(o, T2, x)
<1> DEFINE b == OfObject("SafeBefore", o)
           a == OfObject("SafeAfter", o)
<1>1. b \in SyncPending(0, m) /\ a \in SyncPending(0, m)
  BY SimpleTyped
<1> HIDE DEF a, b
<1>2. \A y : Effect(b, T2, y) = Effect(b, T, y) /\ Effect(a, T2, y) = Effect(a, T, y)
  BY <1>1, EffectKept
<1>3. Effect(a, T, Effect(b, T, x)) = x /\ x.env <= Effect(b, T, x).env
  BY DEF ObjectUndoes, a, b
<1>4. Effect(a, T2, Effect(b, T2, x)) = x /\ x.env <= Effect(b, T2, x).env
  BY <1>2, <1>3
<1> QED
  BY <1>4 DEF ObjectUndoes, a, b

\* Where frames may be is among the windings there are.
LEMMA ZonesIn ==
  ASSUME NEW K, NEW s, NEW c, TreeOf(K), Natives(K, s, c), NEW i
  PROVE  /\ Zone(K, Loop(K, i)) \subseteq 0..Len(K.W)
         /\ Opened(K, Loop(K, i)) \subseteq 1..Len(K.W)
<1>1. K.G \subseteq 1..Len(K.W) /\ K.G0 \subseteq K.G /\ K.base \in 0..Len(K.W)
  BY DEF TreeOf
<1>2. Opened(K, Loop(K, i)) \subseteq 1..Len(K.W)
  BY <1>1 DEF Opened
<1>3. \A w \in 1..Len(K.W) : w \in 0..Len(K.W)
  OBVIOUS
<1>4. CASE Loop(K, i) = "outer"
  BY <1>1, <1>2, <1>3, <1>4 DEF Zone
<1>5. CASE Loop(K, i) # "outer"
  <2>1. K.N # <<>>
    BY <1>5 DEF Loop
  <2>2. K.N[1].dw \in K.G \cup {K.base}
    BY <2>1, ZoneIn
  <2>3. Zone(K, Loop(K, i)) = Opened(K, Loop(K, i)) \cup {K.N[1].dw}
    BY <1>5 DEF Zone
  <2> QED
    BY <1>1, <1>2, <1>3, <2>2, <2>3
<1> QED
  BY <1>2, <1>4, <1>5

LEMMA NeedsKept ==
  ASSUME NEW K, NEW K2, NEW m, Agrees(K, K2, m), NEW g, g.run \in SyncPending(Len(K.W), m),
         g.at \in 0..Len(K.W)
  PROVE  Needs(g, K2.X, K2.T) = Needs(g, K.X, K.T)
<1> DEFINE n == Len(K.W)
<1>1. /\ n \in Nat /\ m \in Nat /\ SameThunks(K.T, K2.T, m)
      /\ \A w \in 0..n : K2.X[w] = K.X[w]
  BY DEF Agrees
<1> HIDE DEF n
<1>2. g.run \in SyncPending(n, m) /\ g.at \in 0..n
  BY DEF n
<1>3. K2.X[g.at] = K.X[g.at]
  BY <1>1, <1>2
<1>4. CASE g.run.fn = "WindBody"
  <2>1. g.run.before \in SyncThunks(m)
    BY <1>1, <1>2, <1>4, SyncCaptures
  <2>2. g.run.before \in SyncPending(n, m)
    BY <1>1, <2>1, SimpleTyped
  <2>3. Effect(g.run.before, K2.T, K.X[g.at]) = Effect(g.run.before, K.T, K.X[g.at])
    BY <1>1, <2>2, EffectKept
  <2> QED
    BY <1>3, <1>4, <2>3 DEF Needs
<1>5. CASE g.run.fn = "SetDW"
  <2>1. g.run.dest \in 1..n
    BY <1>1, <1>2, <1>5, SyncCaptures
  <2>2. g.run.dest \in 0..n
    BY <1>1, <2>1
  <2> QED
    BY <1>1, <1>5, <2>2 DEF Needs
<1> QED
  BY <1>3, <1>4, <1>5 DEF Needs

LEMMA BodyKept ==
  ASSUME NEW K, NEW K2, NEW m, Agrees(K, K2, m), NEW l, Widens(K, K2, l),
         Zone(K, l) \subseteq 0..Len(K.W), Opened(K, l) \subseteq 1..Len(K.W),
         NEW f, f.run \in SyncPending(Len(K.W), m), Body(K, l, f)
  PROVE  Body(K2, l, f)
<1> DEFINE n == Len(K.W)
           p == f.run
<1>1. /\ n \in Nat /\ m \in Nat /\ SameThunks(K.T, K2.T, m)
      /\ \A w \in 0..n : K2.X[w] = K.X[w] /\ K2.P[w] = K.P[w]
      /\ \A w \in 1..n : K2.W[w] = K.W[w]
  BY DEF Agrees
<1>2. Zone(K, l) \subseteq 0..n /\ Opened(K, l) \subseteq 1..n /\ p \in SyncPending(n, m)
  OBVIOUS
<1>3. /\ f.at \in Zone(K, l) /\ LeadsTo(f) \in Zone(K, l)
      /\ p.fn \notin {"EnterWind", "SetDW"}
      /\ p.fn = "WindExit" => /\ f.at \in Opened(K, l)
                              /\ p.prev = K.W[f.at].parent /\ p.after = K.W[f.at].after
      /\ p.fn = "ContinueUp" => f.at = K.W[p.src].parent /\ p.dest \in K.P[f.at]
      /\ p.fn = "Traverse" => p.src = f.at /\ p.dest \in K.P[f.at]
      /\ Captured(l, p) /\ Restoring(K, l, f)
  BY DEF Body
<1> HIDE DEF n
<1>4. f.at \in 0..n /\ f.at \in Zone(K2, l) /\ LeadsTo(f) \in Zone(K2, l)
  BY <1>2, <1>3 DEF Widens
<1>5. K2.X[f.at] = K.X[f.at] /\ K2.P[f.at] = K.P[f.at]
  BY <1>1, <1>4
<1>6. ASSUME p.fn = "WindExit"
      PROVE  /\ f.at \in Opened(K2, l)
             /\ p.prev = K2.W[f.at].parent /\ p.after = K2.W[f.at].after
  <2>1. f.at \in 1..n /\ f.at \in Opened(K2, l)
    BY <1>2, <1>3, <1>6 DEF Widens
  <2> QED
    BY <1>1, <1>3, <1>6, <2>1
<1>7. ASSUME p.fn = "ContinueUp" PROVE f.at = K2.W[p.src].parent
  <2>1. p.src \in 1..n
    BY <1>1, <1>2, <1>7, SyncCaptures
  <2> QED
    BY <1>1, <1>3, <1>7, <2>1
<1>8. Restoring(K2, l, f)
  <2> SUFFICES ASSUME p.fn = "WindBody" PROVE Restoring(K2, l, f)
    BY DEF Restoring
  <2> DEFINE inside == Effect(p.before, K.T, K.X[f.at])
  <2>1. /\ p.before \in SyncThunks(m) /\ p.thunk \in SyncThunks(m) /\ p.after \in SyncThunks(m)
    BY <1>1, <1>2, SyncCaptures
  <2>2. /\ p.before \in SyncPending(n, m) /\ p.thunk \in SyncPending(n, m)
        /\ p.after \in SyncPending(n, m)
    BY <1>1, <2>1, SimpleTyped
  <2>3. inside = Effect(p.before, K2.T, K2.X[f.at])
    <3>1. Effect(p.before, K2.T, K.X[f.at]) = Effect(p.before, K.T, K.X[f.at])
      BY <1>1, <2>2, EffectKept
    <3> QED
      BY <1>5, <3>1
  <2>4. /\ IsBefore(p.before) /\ IsAfter(p.after) /\ ~Changes(p.thunk)
        /\ Same(l, Effect(p.after, K.T, inside), K.X[f.at])
        /\ K.X[f.at].env <= inside.env
        /\ p.thunk.fn = "ErrorThunk" => ObjectUndoes(p.thunk.o, K.T, inside)
    BY <1>3 DEF Restoring
  <2> HIDE DEF inside
  <2>5. Effect(p.after, K2.T, inside) = Effect(p.after, K.T, inside)
    BY <1>1, <2>2, EffectKept
  <2>6. p.thunk.fn = "ErrorThunk" => ObjectUndoes(p.thunk.o, K2.T, inside)
    <3>1. p.thunk.fn = "ErrorThunk" => p.thunk.o \in 1..m
      BY <1>1, <2>2, SyncCaptures
    <3> QED
      BY <1>1, <2>4, <3>1, UndoesKept
  <2> QED
    BY <1>5, <2>3, <2>4, <2>5, <2>6 DEF Restoring
<1> QED
  BY <1>3, <1>4, <1>5, <1>6, <1>7, <1>8 DEF Body

LEMMA HandsKept ==
  ASSUME NEW K, NEW K2, NEW m, Agrees(K, K2, m), NEW i, Loop(K2, i) = Loop(K, i),
         Zone(K, Loop(K, i)) \subseteq 0..Len(K.W),
         NEW f, Body(K, Loop(K, i), f), NEW g, g.run \in SyncPending(Len(K.W), m),
         Hands(K, i, f, g)
  PROVE  Hands(K2, i, f, g)
<1>1. LeadsTo(f) \in 0..Len(K.W)
  BY DEF Body
<1>2. K2.X[LeadsTo(f)] = K.X[LeadsTo(f)] /\ K2.lo = K.lo
  BY <1>1 DEF Agrees
<1>3. LeadsTo(f) = g.at => Needs(g, K2.X, K2.T) = Needs(g, K.X, K.T)
  BY <1>1, NeedsKept
<1> QED
  BY <1>2, <1>3 DEF Hands

LEMMA LoopsKept ==
  ASSUME NEW K, NEW K2, NEW m, Agrees(K, K2, m), K2.N = K.N, NEW i, NEW f,
         f.at \in 0..Len(K.W), LeadsTo(f) \in 0..Len(K.W), Loops(K, i, f)
  PROVE  Loops(K2, i, f)
<1>1. K2.P[f.at] = K.P[f.at] /\ K2.P[LeadsTo(f)] = K.P[LeadsTo(f)]
  BY DEF Agrees
<1> QED
  BY <1>1 DEF Loops, Within

\* The frames of a stack are procedures, and so is what is below one.
LEMMA FramesPending ==
  ASSUME NEW n \in Nat, NEW m \in Nat, NEW s \in Seq(SyncFrames(n, m)), NEW i \in 1..Len(s)
  PROVE  /\ s[i].run \in SyncPending(n, m) /\ Below(s, i).run \in SyncPending(n, m)
         /\ s[i].run.fn # "Bottom"
<1>1. \A j \in 1..Len(s) : s[j] \in SyncFrames(n, m)
  BY ElementOfSeq
<1>2. ASSUME NEW j \in 1..Len(s)
      PROVE  s[j].run \in SyncPending(n, m) /\ s[j].run.fn # "Bottom"
  <2>1. s[j].run \in SyncContinuations(n, m)
    BY <1>1 DEF SyncFrames
  <2>2. s[j].run \in SyncPending(n, m)
    BY <2>1 DEF SyncPending
  <2>3. s[j].run.fn # "Bottom"
    BY <2>1 DEF SyncContinuations
  <2> QED
    BY <2>2, <2>3
<1>3. Below(s, i).run \in SyncPending(n, m)
  <2>1. CASE i = 1
    <3>1. Bottom.run \in SyncPending(n, m)
      BY DEF Bottom, Closure, SyncPending
    <3> QED
      BY <2>1, <3>1 DEF Below
  <2>2. CASE i # 1
    <3>1. i - 1 \in 1..Len(s)
      BY <2>2, LenProperties
    <3> QED
      BY <1>2, <2>2, <3>1 DEF Below
  <2> QED
    BY <2>1, <2>2
<1> QED
  BY <1>2, <1>3

LEMMA TopPending ==
  ASSUME NEW n \in Nat, NEW m \in Nat, NEW s \in Seq(SyncFrames(n, m))
  PROVE  Top(s).run \in SyncPending(n, m)
<1>1. CASE s = <<>>
  BY <1>1 DEF Top, Bottom, Closure, SyncPending
<1>2. CASE s # <<>>
  <2>1. Len(s) \in Nat \ {0} /\ Top(s) = s[Len(s)]
    BY <1>2, PopFrames
  <2>2. Len(s) \in 1..Len(s)
    BY <2>1
  <2> QED
    BY <2>1, <2>2, FramesPending
<1> QED
  BY <1>1, <1>2

LEMMA NestedCarried ==
  ASSUME NEW K, NEW K2, NEW m, Agrees(K, K2, m), K2.N = K.N,
         NEW s, NEW c, NEW j \in 1..Len(K.N), Len(K.N) \in Nat, Nested(K, s, c, j),
         K.N[j].dw \in 0..Len(K.W),
         Widens(K, K2, IF j = 1 /\ K.lo = 0 THEN "outer" ELSE "inner")
  PROVE  Nested(K2, s, c, j)
<1>1. K2.P[K.N[j].dw] = K.P[K.N[j].dw] /\ K2.X[K.N[j].dw] = K.X[K.N[j].dw] /\ K2.lo = K.lo
  BY DEF Agrees
<1>2. K.N[j].dw \in Zone(K2, IF j = 1 /\ K2.lo = 0 THEN "outer" ELSE "inner")
  BY <1>1 DEF Nested, Widens
<1> QED
  BY <1>1, <1>2 DEF Nested

\* Where nested loops were entered.
LEMMA NestedIn ==
  ASSUME NEW K, NEW s, NEW c, TreeOf(K), Natives(K, s, c), NEW j \in 1..Len(K.N)
  PROVE  K.N[j].dw \in K.G \cup {K.base} /\ K.N[j].dw \in 0..Len(K.W)
<1>1. /\ K.G \subseteq 1..Len(K.W) /\ K.base \in 0..Len(K.W) /\ K.G0 \subseteq K.G
  BY DEF TreeOf
<1>2. K.N[j].dw \in Zone(K, IF j = 1 /\ K.lo = 0 THEN "outer" ELSE "inner")
  BY DEF Natives, Nested
<1>3. K.N[1].dw \in K.G \cup {K.base}
  <2>1. K.N # <<>>
    BY DEF Natives
  <2> QED
    BY <2>1, ZoneIn
<1>4. \A l : Zone(K, l) \subseteq K.G \cup {K.base, K.N[1].dw}
  BY <1>1 DEF Zone, Opened
<1>5. K.N[j].dw \in K.G \cup {K.base}
  BY <1>2, <1>3, <1>4
<1>6. \A w \in 1..Len(K.W) : w \in 0..Len(K.W)
  OBVIOUS
<1> QED
  BY <1>1, <1>5, <1>6

\* Of a view that says more of windings and objects the same stack is sound.
LEMMA CarrySound ==
  ASSUME NEW K, NEW K2, NEW m, Agrees(K, K2, m), K2.N = K.N,
         \A l : Widens(K, K2, l), K.N # <<>> => K2.G0 = K.G0, TreeOf(K2),
         NEW s \in Seq(SyncFrames(Len(K.W), m)), NEW c, c.run \in SyncPending(Len(K.W), m),
         NEW x, Sound(K, s, c, x)
  PROVE  Sound(K2, s, c, x)
<1> DEFINE n == Len(K.W)
<1>1. /\ TreeOf(K) /\ Natives(K, s, c) /\ Chained(K, s, c)
      /\ CallIn(K, Len(s) + 1, c, Top(s), x) /\ Suits(LoopNow(K), x.hs)
  BY DEF Sound
<1>2. n \in Nat /\ m \in Nat /\ K2.lo = K.lo /\ K2.base = K.base /\ K2.X[0] = K.X[0]
  BY DEF Agrees
<1>3. (\A i : Loop(K2, i) = Loop(K, i)) /\ LoopNow(K2) = LoopNow(K)
  BY <1>2 DEF Loop, LoopNow
<1>4. Natives(K2, s, c)
  <2>1. Len(K.N) \in Nat
    BY <1>1 DEF Natives
  <2>2. ASSUME NEW j \in 1..Len(K.N)
        PROVE  Nested(K2, s, c, j)
    <3>1. Nested(K, s, c, j) /\ K.N[j].dw \in 0..Len(K.W)
      BY <1>1, NestedIn DEF Natives
    <3>2. Widens(K, K2, IF j = 1 /\ K.lo = 0 THEN "outer" ELSE "inner")
      OBVIOUS
    <3> QED
      BY <2>1, <3>1, <3>2, NestedCarried
  <2> QED
    BY <1>1, <1>2, <2>2 DEF Natives
<1>5. ASSUME NEW i, NEW f, f.run \in SyncPending(n, m), Frame(K, i, f)
      PROVE  /\ Frame(K2, i, f)
             /\ \A g : g.run \in SyncPending(n, m) /\ Hands(K, i, f, g) => Hands(K2, i, f, g)
  <2>1. /\ Zone(K, Loop(K, i)) \subseteq 0..Len(K.W)
        /\ Opened(K, Loop(K, i)) \subseteq 1..Len(K.W)
    BY <1>1, ZonesIn
  <2>2. Body(K, Loop(K, i), f) /\ Loops(K, i, f)
    BY <1>5 DEF Frame
  <2>3. f.at \in 0..Len(K.W) /\ LeadsTo(f) \in 0..Len(K.W)
    BY <2>1, <2>2 DEF Body
  <2>4. Loops(K2, i, f)
    BY <2>2, <2>3, LoopsKept
  <2>5. Widens(K, K2, Loop(K, i)) /\ Loop(K2, i) = Loop(K, i)
    BY <1>3
  <2>6. f.run \in SyncPending(Len(K.W), m)
    BY <1>5 DEF n
  <2>7. Body(K2, Loop(K, i), f)
    BY <2>1, <2>2, <2>5, <2>6, BodyKept
  <2>8. ASSUME NEW g, g.run \in SyncPending(Len(K.W), m), Hands(K, i, f, g)
        PROVE  Hands(K2, i, f, g)
    BY <2>1, <2>2, <2>5, <2>8, HandsKept
  <2> QED
    BY <2>4, <2>5, <2>7, <2>8 DEF Frame, n
<1>6. Chained(K2, s, c)
  <2>1. ASSUME NEW i \in 1..Len(s), i >= K.lo
        PROVE  (Frame(K2, i, s[i]) /\ Hands(K2, i, s[i], Below(s, i))) \/ Dead(s, i, c)
    <3>1. (Frame(K, i, s[i]) /\ Hands(K, i, s[i], Below(s, i))) \/ Dead(s, i, c)
      BY <1>1, <2>1 DEF Chained
    <3>2. s[i].run \in SyncPending(n, m) /\ Below(s, i).run \in SyncPending(n, m)
      BY <1>2, FramesPending
    <3> QED
      BY <1>5, <3>1, <3>2
  <2> QED
    BY <1>2, <2>1 DEF Chained
<1>7. CallIn(K2, Len(s) + 1, c, Top(s), x)
  <2> DEFINE i == Len(s) + 1
             g == Top(s)
             l == LoopNow(K)
  <2>1. Frame(K, i, c) /\ c.run \in SyncPending(n, m)
    BY <1>1 DEF CallIn
  <2>2. Frame(K2, i, c)
    BY <1>5, <2>1
  <2>3. g.run \in SyncPending(n, m)
    BY <1>2, TopPending
  <2>4. c.at \in 0..n
    <3>1. Zone(K, Loop(K, i)) \subseteq 0..Len(K.W)
      BY <1>1, ZonesIn
    <3>2. c.at \in Zone(K, Loop(K, i))
      BY <2>1 DEF Frame, Body
    <3> QED
      BY <3>1, <3>2
  <2>5. Effect(c.run, K2.T, x) = Effect(c.run, K.T, x)
    <3>1. SameThunks(K.T, K2.T, m)
      BY DEF Agrees
    <3> HIDE DEF n
    <3> QED
      BY <1>2, <2>1, <3>1, EffectKept
  <2>6. Needs(c, K2.X, K2.T) = Needs(c, K.X, K.T) /\ K2.X[c.at] = K.X[c.at]
    <3>1. K2.X[c.at] = K.X[c.at]
      BY <2>4 DEF Agrees
    <3>2. c.run \in SyncPending(Len(K.W), m) /\ c.at \in 0..Len(K.W)
      BY <2>4
    <3>3. Needs(c, K2.X, K2.T) = Needs(c, K.X, K.T)
      BY <3>2, NeedsKept
    <3> QED
      BY <3>1, <3>3
  <2>7. c.at = g.at => Needs(g, K2.X, K2.T) = Needs(g, K.X, K.T)
    BY <2>3, <2>4, NeedsKept
  <2>8. Hands(K, i, c, g) => Hands(K2, i, c, g)
    BY <1>5, <2>1, <2>3
  <2>9. c.run.fn = "ErrorThunk" => ObjectUndoes(c.run.o, K2.T, K.X[c.at])
    <3>1. c.run.fn = "ErrorThunk" => /\ c.run.o \in 1..m
                                     /\ ObjectUndoes(c.run.o, K.T, K.X[c.at])
      BY <1>1, <1>2, SyncCaptures DEF CallIn
    <3>2. SameThunks(K.T, K2.T, m)
      BY DEF Agrees
    <3> QED
      BY <1>2, <3>1, <3>2, UndoesKept
  <2>10. /\ IF Changes(c.run)
            THEN c.at = g.at /\ Same(l, Effect(c.run, K.T, x), Needs(g, K.X, K.T))
            ELSE Same(l, x, Needs(c, K.X, K.T)) /\ Hands(K, i, c, g)
         /\ c.run.fn = "SafeBefore" => Same(l, x, K.X[c.at])
         /\ c.run.fn = "SafeAfter" => Same(l, Effect(c.run, K.T, x), K.X[c.at])
    BY <1>1 DEF CallIn
  <2> HIDE DEF i, g, l
  <2>11. l = LoopNow(K2)
    BY <1>3 DEF l
  <2>12. CallIn(K2, i, c, g, x)
    BY <2>2, <2>5, <2>6, <2>7, <2>8, <2>9, <2>10, <2>11 DEF CallIn
  <2> QED
    BY <2>12 DEF i, g
<1> QED
  BY <1>1, <1>3, <1>4, <1>6, <1>7 DEF Sound

\* The windings K accounts for are as K2 says.
LEMMA WindingKept ==
  ASSUME NEW K, NEW K2, NEW m, Agrees(K, K2, m), NEW s, NEW c, TreeOf(K), Natives(K, s, c),
         NEW w \in K.G, Widens(K, K2, LoopOf(K, w)),
         K.W[w].before \in SyncThunks(m), K.W[w].after \in SyncThunks(m)
  PROVE  WindingIn(K2, LoopOf(K, w), w)
<1> DEFINE n == Len(K.W)
           l == LoopOf(K, w)
           u == K.W[w].parent
           b == K.W[w].before
           a == K.W[w].after
<1>1. /\ n \in Nat /\ m \in Nat /\ SameThunks(K.T, K2.T, m)
      /\ \A v \in 0..n : K2.X[v] = K.X[v] /\ K2.P[v] = K.P[v]
      /\ \A v \in 1..n : K2.W[v] = K.W[v]
  BY DEF Agrees
<1>2. /\ u \in Zone(K, l) /\ K.P[w] = K.P[u] \cup {w}
      /\ \A v \in K.P[u] : DepthIn(K.W, v) < DepthIn(K.W, w) /\ K.X[v].env <= K.X[w].env
      /\ IsBefore(b) /\ IsAfter(a)
      /\ Same(l, Effect(b, K.T, K.X[u]), K.X[w])
      /\ Same(l, Effect(a, K.T, K.X[w]), K.X[u])
      /\ InstallsFor(l, b) /\ InstallsFor(l, a)
  BY DEF TreeOf, WindingIn
<1>3. u \in K.G \cup {K.base} /\ u \in Zone(K2, l)
  <2>1. K.G0 \subseteq K.G /\ (K.N = <<>> => K.G0 = K.G)
    BY DEF TreeOf
  <2>2. CASE w \in K.G0
    <3>1. l = "outer"
      BY <2>2 DEF LoopOf
    <3> QED
      BY <1>2, <2>1, <3>1 DEF Zone, Opened, Widens
  <2>3. CASE w \notin K.G0
    <3>1. K.N # <<>> /\ l = "inner"
      BY <2>1, <2>3 DEF LoopOf
    <3>2. K.N[1].dw \in K.G \cup {K.base}
      BY <3>1, ZoneIn
    <3> QED
      BY <1>2, <3>1, <3>2 DEF Zone, Opened, Widens
  <2> QED
    BY <2>2, <2>3
<1>4. K.G \subseteq 1..n /\ K.base \in 0..n /\ K.P[u] \subseteq K.G \cup {K.base}
  BY <1>3 DEF TreeOf
<1> HIDE DEF n, l, b, a
<1>5. \A v \in 1..n : v \in 0..n
  OBVIOUS
<1>6. w \in 1..n /\ w \in 0..n /\ u \in 0..n /\ \A v \in K.P[u] : v \in 0..n
  BY <1>3, <1>4, <1>5
<1>7. K2.W[w] = K.W[w] /\ K2.X[w] = K.X[w] /\ K2.P[w] = K.P[w]
      /\ K2.X[u] = K.X[u] /\ K2.P[u] = K.P[u]
  BY <1>1, <1>6
<1>8. \A v \in K.P[u] : DepthIn(K2.W, v) = DepthIn(K.W, v) /\ K2.X[v] = K.X[v]
  <2>1. \A v \in 0..n : v = 0 \/ v \in 1..n
    BY <1>1
  <2> QED
    BY <1>1, <1>6, <2>1 DEF DepthIn
<1>9. DepthIn(K2.W, w) = DepthIn(K.W, w)
  BY <1>7 DEF DepthIn
<1>10. /\ Effect(b, K2.T, K.X[u]) = Effect(b, K.T, K.X[u])
       /\ Effect(a, K2.T, K.X[w]) = Effect(a, K.T, K.X[w])
  <2>1. b \in SyncPending(n, m) /\ a \in SyncPending(n, m)
    BY <1>1, SimpleTyped DEF a, b
  <2>2. Effect(b, K2.T, K.X[u]) = Effect(b, K.T, K.X[u])
    BY <1>1, <2>1, EffectKept
  <2>3. Effect(a, K2.T, K.X[w]) = Effect(a, K.T, K.X[w])
    BY <1>1, <2>1, EffectKept
  <2> QED
    BY <2>2, <2>3
<1>11. K2.W[w].parent = u /\ K2.W[w].before = b /\ K2.W[w].after = a
  BY <1>7 DEF a, b
<1> HIDE DEF u
<1>12. WindingIn(K2, l, w)
  BY <1>2, <1>3, <1>7, <1>8, <1>9, <1>10, <1>11 DEF WindingIn
<1> QED
  BY <1>12 DEF l

\* Extents around an extent are less deep and have older environments.
LEMMA AroundFacts ==
  ASSUME NEW K, TreeOf(K), NEW d \in K.G \cup {K.base}, NEW a \in K.P[d]
  PROVE  a = d \/ (DepthIn(K.W, a) < DepthIn(K.W, d) /\ K.X[a].env <= K.X[d].env)
<1>1. CASE d \in K.G
  <2>1. WindingIn(K, LoopOf(K, d), d)
    BY <1>1 DEF TreeOf
  <2>2. /\ K.P[d] = K.P[K.W[d].parent] \cup {d}
        /\ \A v \in K.P[K.W[d].parent] : DepthIn(K.W, v) < DepthIn(K.W, d)
                                         /\ K.X[v].env <= K.X[d].env
    BY <2>1 DEF WindingIn
  <2> QED
    BY <2>2
<1>2. CASE d = K.base
  BY <1>2 DEF TreeOf
<1> QED
  BY <1>1, <1>2

\* The view with a winding opened in extent d.
LEMMA OpenedTree ==
  ASSUME NEW K, NEW K2, NEW m, Agrees(K, K2, m), NEW s, NEW c, TreeOf(K), Natives(K, s, c),
         K2.N = K.N, NEW n, n = Len(K.W), Len(K2.W) = n + 1, K2.G = K.G \cup {n + 1},
         K2.G0 = IF K.N = <<>> THEN K2.G ELSE K.G0,
         \A w \in 1..n : K.W[w].before \in SyncThunks(m) /\ K.W[w].after \in SyncThunks(m),
         \A w \in 0..n : DepthIn(K.W, w) \in Nat,
         NEW d, Reached(K, d), NEW b, NEW a, K2.W[n + 1].depth = DepthIn(K.W, d) + 1,
         K2.W[n + 1].parent = d, K2.W[n + 1].before = b, K2.W[n + 1].after = a,
         K2.P[n + 1] = K.P[d] \cup {n + 1}, NEW inside, K2.X[n + 1] = inside,
         inside = Effect(b, K2.T, K.X[d]), IsBefore(b), IsAfter(a),
         InstallsFor(LoopNow(K), b), InstallsFor(LoopNow(K), a),
         Same(LoopNow(K), Effect(a, K2.T, inside), K.X[d]),
         K.X[d].env <= inside.env, inside.env \in Int
  PROVE  TreeOf(K2) /\ \A l : Widens(K, K2, l)
<1>1. /\ n \in Nat /\ n + 1 \in Nat /\ n + 1 \notin 0..n /\ n + 1 # 0
      /\ \A w \in 1..n : w \in 0..n
      /\ \A w \in 0..n : w \in 0..(n + 1)
      /\ \A w \in 1..n : w \in 1..(n + 1)
      /\ n + 1 \in 1..(n + 1)
  BY DEF Agrees
<1>2. /\ K2.base = K.base
      /\ \A v \in 0..n : K2.X[v] = K.X[v] /\ K2.P[v] = K.P[v]
      /\ \A v \in 1..n : K2.W[v] = K.W[v]
  BY DEF Agrees
<1>3. /\ K.G \subseteq 1..n /\ K.G0 \subseteq K.G /\ K.base \in 0..n /\ K.base \notin K.G
      /\ K.P[K.base] = {K.base} /\ (K.N = <<>> => K.G0 = K.G)
      /\ \A w \in K.G \cup {K.base} :
           /\ w \in K.P[w] /\ K.base \in K.P[w]
           /\ K.P[w] \subseteq K.G \cup {K.base}
           /\ w \in K.G0 => K.P[w] \subseteq K.G0 \cup {K.base}
           /\ \A v \in K.P[w] : K.P[v] \subseteq K.P[w]
           /\ K.X[w].env \in Int
  BY DEF TreeOf
<1>4. n + 1 \notin K.G /\ n + 1 \notin K.G0 /\ n + 1 # K.base
  BY <1>1, <1>3
<1>5. /\ K.G \subseteq K2.G /\ K.G0 \subseteq K2.G0 /\ n + 1 \in K2.G
      /\ K.G \ K.G0 \subseteq K2.G \ K2.G0
  BY <1>3, <1>4
<1>6. ASSUME NEW l PROVE Widens(K, K2, l)
  BY <1>2, <1>5 DEF Widens, Zone, Opened
<1>7. LoopNow(K2) = LoopNow(K) /\ n + 1 \in Opened(K2, LoopNow(K))
  BY <1>4, <1>5 DEF LoopNow, Opened
<1>8. /\ d \in K.G \cup {K.base} /\ d \in Zone(K2, LoopNow(K)) /\ d \in 0..n
      /\ K.P[d] \subseteq 0..n
  <2>1. d \in K.G \cup {K.base}
    BY ZoneIn DEF Reached
  <2>2. d \in Zone(K2, LoopNow(K))
    BY <1>6 DEF Reached, Widens
  <2>3. K.G \cup {K.base} \subseteq 0..n
    BY <1>1, <1>3
  <2> QED
    BY <1>3, <2>1, <2>2, <2>3
<1>9. WindingIn(K2, LoopNow(K), n + 1)
  <2>1. ASSUME NEW v \in K.P[d]
        PROVE  DepthIn(K2.W, v) < DepthIn(K2.W, n + 1) /\ K2.X[v].env <= inside.env
    <3>1. DepthIn(K2.W, n + 1) = DepthIn(K.W, d) + 1
      BY <1>1 DEF DepthIn
    <3>2. v \in 0..n /\ v \in K.G \cup {K.base}
      BY <1>3, <1>8
    <3>3. DepthIn(K2.W, v) = DepthIn(K.W, v) /\ K2.X[v] = K.X[v]
      <4>1. v = 0 \/ v \in 1..n
        BY <1>1, <3>2
      <4> QED
        BY <1>2, <3>2, <4>1 DEF DepthIn
    <3>4. DepthIn(K.W, v) \in Nat /\ DepthIn(K.W, d) \in Nat
      BY <1>8, <3>2
    <3>5. K.X[v].env \in Int /\ K.X[d].env \in Int
      BY <1>3, <1>8, <3>2
    <3>6. v = d \/ (DepthIn(K.W, v) < DepthIn(K.W, d) /\ K.X[v].env <= K.X[d].env)
      BY <1>8, AroundFacts
    <3>7. DepthIn(K.W, v) < DepthIn(K.W, d) + 1
      BY <3>4, <3>6
    <3>8. K.X[v].env <= inside.env
      BY <3>5, <3>6
    <3> QED
      BY <3>1, <3>3, <3>7, <3>8
  <2>2. K2.P[d] = K.P[d] /\ K2.X[d] = K.X[d]
    BY <1>2, <1>8
  <2>3. /\ Effect(b, K2.T, K2.X[d]) = K2.X[n + 1]
        /\ Same(LoopNow(K), Effect(a, K2.T, K2.X[n + 1]), K2.X[d])
    BY <2>2
  <2>4. Same(LoopNow(K), Effect(b, K2.T, K2.X[d]), K2.X[n + 1])
    BY <2>3, SameIs
  <2>5. K2.P[n + 1] = K2.P[d] \cup {n + 1}
    BY <2>2
  <2>6. \A v \in K2.P[d] : DepthIn(K2.W, v) < DepthIn(K2.W, n + 1) /\ K2.X[v].env <= K2.X[n + 1].env
    BY <2>1, <2>2
  <2> QED
    BY <1>8, <2>3, <2>4, <2>5, <2>6 DEF WindingIn
<1>10. ASSUME NEW w \in K2.G PROVE WindingIn(K2, LoopOf(K2, w), w)
  <2>1. CASE w = n + 1
    <3>1. LoopOf(K2, w) = LoopNow(K)
      BY <1>4, <1>5, <2>1 DEF LoopOf, LoopNow
    <3> QED
      BY <1>9, <2>1, <3>1
  <2>2. CASE w \in K.G
    <3>1. LoopOf(K2, w) = LoopOf(K, w)
      BY <1>3, <1>5, <2>2 DEF LoopOf
    <3>2. K.W[w].before \in SyncThunks(m) /\ K.W[w].after \in SyncThunks(m)
      BY <1>3, <2>2
    <3> QED
      BY <1>6, <2>2, <3>1, <3>2, WindingKept
  <2> QED
    BY <2>1, <2>2
<1>11. ASSUME NEW w \in K2.G \cup {K2.base}
       PROVE  /\ w \in K2.P[w] /\ K2.base \in K2.P[w]
              /\ K2.P[w] \subseteq K2.G \cup {K2.base}
              /\ w \in K2.G0 => K2.P[w] \subseteq K2.G0 \cup {K2.base}
              /\ \A v \in K2.P[w] : K2.P[v] \subseteq K2.P[w]
              /\ K2.X[w].env \in Int
  <2>1. CASE w = n + 1
    <3>1. \A v \in K.P[d] : K2.P[v] = K.P[v] /\ K.P[v] \subseteq K.P[d]
      BY <1>2, <1>3, <1>8
    <3>2. \A v \in K2.P[w] : K2.P[v] \subseteq K2.P[w]
      BY <2>1, <3>1
    <3>3. w \in K2.P[w] /\ K2.base \in K2.P[w] /\ K2.P[w] \subseteq K2.G \cup {K2.base}
      BY <1>2, <1>3, <1>8, <2>1
    <3>4. w \in K2.G0 => K2.P[w] \subseteq K2.G0 \cup {K2.base}
      BY <1>4, <2>1, <3>3
    <3> QED
      BY <2>1, <3>2, <3>3, <3>4
  <2>2. CASE w # n + 1
    <3>1. w \in K.G \cup {K.base} /\ w \in 0..n
      BY <1>1, <1>2, <1>3, <2>2
    <3>2. K2.P[w] = K.P[w] /\ K2.X[w] = K.X[w]
      BY <1>2, <3>1
    <3>3. \A v \in K.P[w] : v \in 0..n
      BY <1>1, <1>3, <3>1
    <3>4. \A v \in K2.P[w] : K2.P[v] \subseteq K2.P[w]
      BY <1>2, <1>3, <3>1, <3>2, <3>3
    <3>5. w \in K2.G0 => K2.P[w] \subseteq K2.G0 \cup {K2.base}
      BY <1>2, <1>3, <1>5, <2>2, <3>1, <3>2
    <3> QED
      BY <1>2, <1>3, <1>5, <3>1, <3>2, <3>4, <3>5
  <2> QED
    BY <2>1, <2>2
<1>12. TreeOf(K2)
  <2>1. K2.G \subseteq 1..Len(K2.W) /\ K2.G0 \subseteq K2.G
    BY <1>1, <1>3, <1>5
  <2>2. K2.base \in 0..Len(K2.W) /\ K2.base \notin K2.G /\ K2.P[K2.base] = {K2.base}
    BY <1>1, <1>2, <1>3, <1>4
  <2> QED
    BY <1>10, <1>11, <2>1, <2>2 DEF TreeOf
<1> QED
  BY <1>6, <1>12

\* A view of the next state.
LEMMA NewView ==
  ASSUME NEW K2, K2.W = winds', K2.T = ThunksOf(objs'), K2.N = native', ~passed' => K2.lo = 0,
         Sound(K2, stack', call', Now'), call'.at = curDW'
  PROVE  Viewed(K2)'
<1>1. CallIn(K2, Len(stack') + 1, call', Top(stack'), Now')
  BY DEF Sound
<1>2. call'.run.fn = "Bottom" => K2.N = <<>>
  BY <1>1 DEF CallIn, Frame, Loops
<1>3. Coming' = call'
  BY <1>2 DEF Coming, Halted, Calling
<1> QED
  BY <1>3 DEF Viewed, T0

\* Thunks called before something install an environment or keep the one there is.
LEMMA EffectInt ==
  ASSUME NEW n \in Nat, NEW m \in Nat, NEW p \in SyncPending(n, m), IsBefore(p),
         NEW T, ObjectsSetEnv(T), DOMAIN T = 1..m, NEW x, x.env \in Int
  PROVE  Effect(p, T, x).env \in Int
<1>1. CASE p.fn = "SafeBefore"
  <2>1. p.o \in 1..m
    BY <1>1, SyncCaptures
  <2>2. /\ IsObjectThunk(T[p.o].before)
        /\ T[p.o].before.fn = "SetEnv" => T[p.o].before.e = p.o
    BY <2>1 DEF ObjectsSetEnv
  <2>3. Inner(p, T) = T[p.o].before
    BY <1>1 DEF Inner
  <2> QED
    BY <2>1, <2>2, <2>3 DEF Effect
<1>2. CASE p.fn # "SafeBefore"
  <2>1. Inner(p, T) = p /\ p.fn # "SetEnv"
    BY <1>2 DEF Inner, IsBefore
  <2> QED
    BY <2>1 DEF Effect
<1> QED
  BY <1>1, <1>2

LEMMA WindsTyped ==
  ASSUME SyncTypes
  PROVE  /\ \A w \in 1..n0 : winds[w].before \in SyncThunks(m0) /\ winds[w].after \in SyncThunks(m0)
         /\ \A w \in 0..n0 : DepthIn(winds, w) \in Nat
         /\ DOMAIN T0 = 1..m0
<1>1. \A w \in 1..n0 : winds[w] \in SyncWindings(n0, m0)
  BY Typed
<1>2. \A w \in 0..n0 : Depth(w) \in Nat
  BY DepthTyped
<1>3. objs \in Seq(Objects(m0))
  BY Typed
<1>4. DOMAIN objs = 1..m0
  BY <1>3, LenProperties DEF m0
<1> QED
  BY <1>1, <1>2, <1>4 DEF SyncWindings, Depth, DepthIn, T0, ThunksOf

\* WindBody, called to open the winding new.
LEMMA WindBodyView ==
  ASSUME NEW K, Acting(K), ObjectsSetEnv(T0), WindBody, UNCHANGED native, ~passed' => ~passed
  PROVE  \E K2 : Viewed(K2)'
<1> DEFINE n == n0
           m == m0
           new == n + 1
           d == curDW
           b == call.run.before
           a == call.run.after
           t == call.run.thunk
           q == [fn |-> "WindExit", after |-> a, prev |-> d]
           f == Closure(q, new)
           c == Closure(t, new)
           inside == Effect(b, T0, K.X[d])
           l == LoopNow(K)
           i == Len(stack) + 1
<1>1. /\ Sound(K, stack, call, Now) /\ call.at = d /\ TreeOf(K) /\ Natives(K, stack, call)
      /\ K.W = winds /\ K.T = T0 /\ K.N = native /\ n \in Nat /\ m \in Nat
      /\ stack \in Seq(SyncFrames(n, m)) /\ call.run \in SyncPending(n, m)
      /\ call.run.fn # "Break" /\ Reached(K, d) /\ Body(K, l, call) /\ Suits(l, handlers)
  BY ActingFacts DEF Sound
<1>2. call.run.fn = "WindBody"
  BY DEF WindBody, Calling
<1>3. b \in SyncThunks(m) /\ t \in SyncThunks(m) /\ a \in SyncThunks(m)
  BY <1>1, <1>2, SyncCaptures
<1>4. /\ IsBefore(b) /\ IsAfter(a) /\ ~Changes(t)
      /\ Same(l, Effect(a, T0, inside), K.X[d]) /\ K.X[d].env <= inside.env
      /\ t.fn = "ErrorThunk" => ObjectUndoes(t.o, T0, inside)
      /\ InstallsFor(l, b) /\ InstallsFor(l, a)
  BY <1>1, <1>2 DEF Body, Restoring, Captured
<1>5. inside.env \in Int
  <2>1. K.X[d].env \in Int
    BY <1>1, ReachedIn
  <2>2. b \in SyncPending(n, m) /\ DOMAIN T0 = 1..m
    BY <1>1, <1>3, SimpleTyped, WindsTyped DEF Acting
  <2> QED
    BY <1>1, <1>4, <2>1, <2>2, EffectInt
<1>6. /\ winds' = Append(winds, [depth |-> Depth(d) + 1, parent |-> d, before |-> b, after |-> a])
      /\ curDW' = new /\ stack' = Push(stack, q, new) /\ call' = c
      /\ UNCHANGED <<handlers, env, objs>>
  BY DEF WindBody, Apply, n0
<1>7. /\ Len(winds') = new /\ \A w \in 1..n : winds'[w] = winds[w]
      /\ winds'[new] = [depth |-> Depth(d) + 1, parent |-> d, before |-> b, after |-> a]
  <2>1. winds \in Seq(SyncWindings(n, m))
    BY Typed DEF Acting
  <2> DEFINE w == [depth |-> Depth(d) + 1, parent |-> d, before |-> b, after |-> a]
  <2> HIDE DEF w
  <2>2. winds' = Append(winds, w)
    BY <1>6 DEF w
  <2>3. /\ Len(winds') = n + 1 /\ winds'[n + 1] = w
        /\ \A v \in 1..n : winds'[v] = winds[v]
    BY <2>1, <2>2, AppendProperties DEF n0
  <2> QED
    BY <2>3 DEF w
<1>8. Depth(d) = DepthIn(winds, d)
  BY DEF Depth, DepthIn
<1> HIDE DEF inside, b, a, t
<1>9. PICK P2 : P2 = [w \in 0..new |-> IF w = new THEN K.P[d] \cup {new} ELSE K.P[w]]
  OBVIOUS
<1>10. PICK X2 : X2 = [w \in 0..new |-> IF w = new THEN inside ELSE K.X[w]]
  OBVIOUS
<1>11. PICK K2 : K2 = [W |-> winds', T |-> T0, N |-> K.N, lo |-> K.lo, base |-> K.base,
                      G |-> K.G \cup {new}, G0 |-> IF K.N = <<>> THEN K.G \cup {new} ELSE K.G0,
                      P |-> P2, X |-> X2]
  OBVIOUS
<1>12. /\ \A w \in 0..n : P2[w] = K.P[w] /\ X2[w] = K.X[w]
       /\ P2[new] = K.P[d] \cup {new} /\ X2[new] = inside
  <2>1. new \in 0..new /\ \A w \in 0..n : w \in 0..new /\ w # new
    BY <1>1
  <2> QED
    BY <1>9, <1>10, <2>1
<1>13. /\ K2.W = winds' /\ K2.T = T0 /\ K2.N = K.N /\ K2.lo = K.lo /\ K2.base = K.base
       /\ K2.G = K.G \cup {new} /\ K2.P = P2 /\ K2.X = X2
       /\ K2.G0 = IF K.N = <<>> THEN K2.G ELSE K.G0
  BY <1>11
<1> HIDE DEF new
<1>14. n = Len(K.W) /\ new = n + 1
  BY <1>1 DEF n0, new
<1>15. Agrees(K, K2, m)
  BY <1>1, <1>7, <1>12, <1>13, <1>14 DEF Agrees, SameThunks
<1>16. TreeOf(K2) /\ \A k : Widens(K, K2, k)
  <2>1. /\ Len(K2.W) = n + 1 /\ K2.G = K.G \cup {n + 1}
        /\ K2.W[n + 1].depth = DepthIn(K.W, d) + 1
        /\ K2.W[n + 1].parent = d /\ K2.W[n + 1].before = b /\ K2.W[n + 1].after = a
        /\ K2.P[n + 1] = K.P[d] \cup {n + 1} /\ K2.X[n + 1] = inside
    BY <1>1, <1>7, <1>8, <1>12, <1>13, <1>14
  <2>2. /\ \A w \in 1..n : K.W[w].before \in SyncThunks(m) /\ K.W[w].after \in SyncThunks(m)
        /\ \A w \in 0..n : DepthIn(K.W, w) \in Nat
    BY <1>1, WindsTyped DEF Acting
  <2>3. inside = Effect(b, K2.T, K.X[d]) /\ Same(l, Effect(a, K2.T, inside), K.X[d])
    BY <1>4, <1>13 DEF inside
  <2> QED
    BY <1>1, <1>4, <1>5, <1>13, <1>14, <1>15, <2>1, <2>2, <2>3, OpenedTree
<1>17. Sound(K2, stack, call, Now)
  <2>1. stack \in Seq(SyncFrames(Len(K.W), m)) /\ call.run \in SyncPending(Len(K.W), m)
    BY <1>1, <1>14
  <2>2. K.N # <<>> => K2.G0 = K.G0
    BY <1>13
  <2> QED
    BY <1>1, <1>13, <1>15, <1>16, <2>1, <2>2, CarrySound
<1>18. /\ LoopNow(K2) = l /\ d \in 0..n /\ K2.X[d] = K.X[d] /\ K2.P[d] = K.P[d]
       /\ K2.X[new] = inside /\ K2.P[new] = K.P[d] \cup {new}
  BY <1>1, <1>12, <1>13, ReachedIn, <1>14 DEF LoopNow
<1>19. Reached(K2, d) /\ Reached(K2, new) /\ new \in Opened(K2, l)
  <2>1. d \in Zone(K2, l)
    BY <1>1, <1>16 DEF Reached, Widens
  <2>2. new \in Opened(K2, l)
    <3>1. new \notin K.G0
      <4>1. K.G0 \subseteq 1..n
        BY <1>1, <1>14 DEF TreeOf
      <4> QED
        BY <1>1, <1>14, <4>1
    <3> QED
      BY <1>13, <3>1 DEF Opened, LoopNow
  <2> QED
    BY <1>1, <1>13, <1>18, <2>1, <2>2 DEF Reached, Zone
<1>20. /\ Same(l, Now, inside) /\ Needs(call, K2.X, K2.T) = inside
       /\ Hands(K2, i, call, Top(stack)) /\ ~(i <= K2.lo) /\ Loop(K2, i) = l
  <2>1. CallIn(K2, i, call, Top(stack), Now)
    BY <1>17 DEF Sound
  <2>2. ~Changes(call.run)
    BY <1>2 DEF Changes
  <2>3. Needs(call, K2.X, K2.T) = inside
    BY <1>1, <1>2, <1>13, <1>18 DEF Needs, inside, b
  <2>4. Len(stack) \in Nat /\ K2.lo \in Nat /\ K2.lo <= Len(stack) /\ Loop(K2, i) = l
    BY <1>1, <1>17, <1>18, SoundFacts
  <2>5. ~(i <= K2.lo)
    BY <2>4
  <2> QED
    BY <1>18, <2>1, <2>2, <2>3, <2>4, <2>5 DEF CallIn
<1>21. Final(call.run) => Final(t)
  BY <1>2 DEF Final, FailsOnReturn, t
<1>22. LeadsTo(call) = d
  BY <1>1, <1>2 DEF LeadsTo
<1>23. /\ f.run = q /\ f.at = new /\ LeadsTo(f) = d /\ Needs(f, K2.X, K2.T) = inside
       /\ q.fn = "WindExit" /\ q.prev = d /\ q.after = a
       /\ c.run = t /\ c.at = new
  BY <1>18 DEF Closure, LeadsTo, Needs
<1>24. q \in SyncContinuations(n, m) /\ d \in 0..n
  BY <1>3, <1>18 DEF SyncContinuations
<1> HIDE DEF q, f, c
<1>25. Frame(K2, i, f)
  <2>1. winds'[new].parent = d /\ winds'[new].after = a
    BY <1>7
  <2>2. Body(K2, l, f)
    <3>1. new \in Zone(K2, l) /\ d \in Zone(K2, l)
      BY <1>18, <1>19 DEF Reached
    <3> QED
      BY <1>13, <1>19, <1>23, <2>1, <3>1 DEF Body, Captured, InstallsFor, Restoring
  <2> QED
    BY <1>1, <1>17, <1>18, <1>19, <1>23, <2>2, TopFrame
<1>26. Hands(K2, i, f, Top(stack)) \/ Final(t)
  BY <1>20, <1>21, <1>22, <1>23 DEF Hands
<1>27. CallIn(K2, Len(stack) + 2, c, f, Now)
  <2>1. Simple(t)
    <3>1. t \in SyncPending(n, m)
      BY <1>1, <1>3, SimpleTyped
    <3>2. t.fn \in {"User", "SetHandlers", "SetEnv", "SafeBefore", "SafeAfter", "ErrorThunk",
                    "HandlerThunk"}
      BY <1>3 DEF SyncThunks, Thunks
    <3> QED
      BY <3>2 DEF Simple
  <2>2. InstallsFor(l, t)
    BY <1>4 DEF Changes, InstallsFor
  <2>3. Frame(K2, Len(stack) + 2, c) /\ Loop(K2, Len(stack) + 2) = l
    BY <1>1, <1>17, <1>18, <1>19, <2>1, <2>2, SimpleFrame DEF c
  <2>4. LeadsTo(c) = new /\ Needs(c, K2.X, K2.T) = inside
    BY <1>18, <2>1, SimpleNeeds DEF c
  <2>5. Hands(K2, Len(stack) + 2, c, f)
    <3>1. Same(l, K2.X[LeadsTo(c)], Needs(f, K2.X, K2.T))
      BY <1>18, <1>23, <2>4, SameIs
    <3> QED
      BY <1>23, <2>3, <2>4, <3>1 DEF Hands
  <2>6. t.fn \notin {"SafeBefore", "SafeAfter"}
    BY <1>4 DEF Changes
  <2>7. t.fn = "ErrorThunk" => ObjectUndoes(t.o, K2.T, K2.X[new])
    BY <1>4, <1>13, <1>18
  <2> QED
    BY <1>4, <1>18, <1>20, <1>23, <2>3, <2>4, <2>5, <2>6, <2>7 DEF CallIn
<1>28. Sound(K2, Push(stack, q, new), c, Now)
  <2> DEFINE S == SyncFrames(new, m)
  <2>1. stack \in Seq(S) /\ Closure(q, new) \in S
    <3>1. SyncFrames(n, m) \subseteq S /\ SyncContinuations(n, m) \subseteq SyncContinuations(new, m)
      BY <1>1, <1>14, SyncTypesGrow
    <3>2. stack \in Seq(S)
      BY <1>1, <3>1, SeqMonotonic
    <3>3. new \in Nat
      BY <1>1, <1>14
    <3> QED
      BY <1>24, <3>1, <3>2, <3>3 DEF SyncFrames, Closure
  <2> HIDE DEF S
  <2>2. /\ Frame(K2, Len(stack) + 1, Closure(q, new))
        /\ Hands(K2, Len(stack) + 1, Closure(q, new), Top(stack)) \/ Final(c.run)
        /\ CallIn(K2, Len(stack) + 2, c, Closure(q, new), Now)
    BY <1>23, <1>25, <1>26, <1>27 DEF f
  <2>3. Suits(LoopNow(K2), Now.hs)
    BY <1>1, <1>18 DEF Now
  <2>4. Final(call.run) => Final(q) \/ Final(c.run)
    BY <1>21, <1>23
  <2> QED
    BY <1>1, <1>17, <2>1, <2>2, <2>3, <2>4, PushSound
<1>29. Sound(K2, stack', call', Now') /\ call'.at = curDW'
  <2>1. Now' = Now
    BY <1>6 DEF Now
  <2> QED
    BY <1>6, <1>23, <1>28, <2>1
<1>30. /\ K2.W = winds' /\ K2.T = ThunksOf(objs') /\ K2.N = native' /\ (~passed' => K2.lo = 0)
  BY <1>1, <1>6, <1>13 DEF Acting, Viewed, T0
<1> QED
  BY <1>29, <1>30, NewView

-----------------------------------------------------------------------------
(* Making an object *)

\* The thunks of an object that is made set its environment and then the one
\* there was, or are user code.
Restores(before, after, o, e) ==
  \/ before.fn = "User" /\ after.fn = "User"
  \/ before = SetEnv(o) /\ after = SetEnv(e)

LEMMA NewObjectUndoes ==
  ASSUME NEW T, NEW o \in Int, NEW x, x = [hs |-> x.hs, env |-> x.env], x.env \in Int,
         x.env <= o, Restores(T[o].before, T[o].after, o, x.env)
  PROVE  ObjectUndoes(o, T, x)
<1> DEFINE b == OfObject("SafeBefore", o)
           a == OfObject("SafeAfter", o)
           inside == Effect(b, T, x)
<1>1. b.fn = "SafeBefore" /\ b.o = o /\ a.fn = "SafeAfter" /\ a.o = o
  BY DEF OfObject
<1>2. Inner(b, T) = T[o].before /\ Inner(a, T) = T[o].after
  BY <1>1 DEF Inner
<1>3. /\ inside.hs = x.hs
      /\ inside.env = IF T[o].before.fn = "SetEnv" THEN T[o].before.e ELSE x.env
      /\ Effect(a, T, inside) =
           [hs |-> inside.hs,
            env |-> IF T[o].after.fn = "SetEnv" THEN T[o].after.e ELSE inside.env]
  BY <1>1, <1>2 DEF Effect
<1> HIDE DEF a, b, inside
<1>4. Effect(a, T, inside) = x /\ x.env <= inside.env
  <2>1. CASE T[o].before.fn = "User" /\ T[o].after.fn = "User"
    BY <1>3, <2>1
  <2>2. CASE T[o].before = SetEnv(o) /\ T[o].after = SetEnv(x.env)
    <3>1. /\ SetEnv(o).fn = "SetEnv" /\ SetEnv(o).e = o
          /\ SetEnv(x.env).fn = "SetEnv" /\ SetEnv(x.env).e = x.env
      BY DEF SetEnv
    <3> QED
      BY <1>3, <2>2, <3>1
  <2> QED
    BY <2>1, <2>2 DEF Restores
<1> QED
  BY <1>4 DEF ObjectUndoes, a, b, inside

LEMMA ManagedView ==
  ASSUME NEW K, Acting(K), Calling("User"),
         NEW before \in Thunks(m0 + 1), NEW after \in Thunks(m0 + 1),
         Restores(before, after, m0 + 1, env),
         ManagedObjectWind(Here, before, after),
         UNCHANGED <<winds, native, handlers, env, curDW>>, ~passed' => ~passed
  PROVE  \E K2 : Viewed(K2)'
<1> DEFINE n == n0
           m == m0
           o == m + 1
           d == curDW
           new == [alive |-> TRUE, isError |-> FALSE, before |-> before, after |-> after]
           h == OfObject("ErrorHandler", o)
           t == OfObject("ErrorThunk", o)
           p == OfObject("Destroy", o)
           hs == <<h>> \o handlers
           S == SyncFrames(n, o)
           l == LoopNow(K)
<1>1. /\ Sound(K, stack, call, Now) /\ call.at = d /\ TreeOf(K) /\ Natives(K, stack, call)
      /\ K.W = winds /\ K.T = T0 /\ K.N = native /\ n \in Nat /\ m \in Nat
      /\ stack \in Seq(SyncFrames(n, m)) /\ call.run \in SyncPending(n, m)
      /\ call.run.fn # "Break" /\ Reached(K, d) /\ Suits(l, handlers)
  BY ActingFacts DEF Sound
<1>2. /\ objs \in Seq(Objects(m)) /\ handlers \in SyncHandlerLists(m) /\ env \in 0..m
      /\ d \in 0..n
  BY Typed DEF Acting
<1>3. /\ objs' = Append(objs, new)
      /\ WithExceptionHandlers(Push(Here, p, d), hs, t)
  BY DEF ManagedObjectWind, m0
<1>4. /\ DOMAIN T0 = 1..m /\ DOMAIN ThunksOf(objs') = 1..o
      /\ \A v \in 1..m : ThunksOf(objs')[v] = T0[v]
      /\ ThunksOf(objs')[o].before = before /\ ThunksOf(objs')[o].after = after
  <2> HIDE DEF new
  <2>1. /\ Len(objs') = o /\ objs'[o] = new
        /\ \A v \in 1..m : objs'[v] = objs[v]
    BY <1>2, <1>3, AppendProperties DEF m0
  <2>2. objs' \in Seq(Objects(m) \cup {new})
    <3>1. objs \in Seq(Objects(m) \cup {new})
      BY <1>2, SeqMonotonic
    <3> QED
      BY <1>3, <3>1, AppendProperties
  <2>3. DOMAIN objs = 1..m /\ DOMAIN objs' = 1..o
    BY <1>2, <2>1, <2>2, LenProperties DEF m0
  <2>4. o \in 1..o /\ \A v \in 1..m : v \in 1..o
    BY <1>1
  <2>5. new.before = before /\ new.after = after
    BY DEF new
  <2> QED
    BY <2>1, <2>3, <2>4, <2>5 DEF ThunksOf, T0
<1>5. PICK K2 : K2 = [W |-> K.W, T |-> ThunksOf(objs'), N |-> K.N, lo |-> K.lo,
                      base |-> K.base, G |-> K.G, G0 |-> K.G0, P |-> K.P, X |-> K.X]
  OBVIOUS
<1>6. /\ K2.W = K.W /\ K2.T = ThunksOf(objs') /\ K2.N = K.N /\ K2.lo = K.lo
      /\ K2.base = K.base /\ K2.G = K.G /\ K2.G0 = K.G0 /\ K2.P = K.P /\ K2.X = K.X
  BY <1>5
<1>7. LoopNow(K2) = l /\ (\A w : LoopOf(K2, w) = LoopOf(K, w)) /\ \A k : Widens(K, K2, k)
  BY <1>6 DEF LoopNow, LoopOf, Widens, Zone, Opened
<1>8. n = Len(K.W)
  BY <1>1 DEF n0
<1>9. Agrees(K, K2, m)
  BY <1>1, <1>4, <1>6, <1>8 DEF Agrees, SameThunks
<1>10. TreeOf(K2)
  <2>1. \A w \in 1..n : winds[w].before \in SyncThunks(m) /\ winds[w].after \in SyncThunks(m)
    BY WindsTyped DEF Acting
  <2>2. K.G \subseteq 1..n
    BY <1>1, <1>8 DEF TreeOf
  <2>3. ASSUME NEW w \in K.G PROVE WindingIn(K2, LoopOf(K2, w), w)
    <3>1. K.W[w].before \in SyncThunks(m) /\ K.W[w].after \in SyncThunks(m)
      BY <1>1, <2>1, <2>2
    <3> QED
      BY <1>1, <1>7, <1>9, <3>1, WindingKept
  <2> QED
    BY <1>1, <1>6, <2>3 DEF TreeOf
<1>11. Sound(K2, stack, call, Now)
  <2>1. stack \in Seq(SyncFrames(Len(K.W), m)) /\ call.run \in SyncPending(Len(K.W), m)
    BY <1>1, <1>8
  <2> QED
    BY <1>1, <1>6, <1>7, <1>9, <1>10, <2>1, CarrySound
<1>12. o \in Nat /\ o \in Int /\ o \in 1..o /\ m <= o /\ n <= n
  BY <1>1
<1>13. stack \in Seq(S) /\ SyncHandlerLists(m) \subseteq SyncHandlerLists(o)
  <2>1. /\ SyncFrames(n, m) \subseteq SyncFrames(n, o)
        /\ SyncHandlerLists(m) \subseteq SyncHandlerLists(o)
    BY <1>1, <1>12, SyncTypesGrow
  <2> QED
    BY <1>1, <2>1, SeqMonotonic
<1>14. /\ p \in SyncContinuations(n, o) /\ User("main") \in SyncContinuations(n, o)
       /\ h \in Handlers(o) /\ t \in SyncThunks(o)
  BY <1>1, <1>12, SimpleTyped DEF Roles
<1>15. p.fn = "Destroy" /\ t.fn = "ErrorThunk" /\ t.o = o /\ User("main").fn = "User"
  BY DEF OfObject, User
<1>16. hs \in SyncHandlerLists(o) /\ Suits(l, hs)
  <2>1. handlers \in SyncHandlerLists(o)
    BY <1>2, <1>13
  <2>2. Suits(l, hs)
    BY <1>1, <1>12, <1>14, <2>1, SuitsMore
  <2>3. hs \in SyncHandlerLists(o)
    BY <1>14, <2>1, ConcatProperties DEF SyncHandlerLists
  <2> QED
    BY <2>2, <2>3
<1>17. ObjectUndoes(o, K2.T, [hs |-> hs, env |-> K2.X[d].env])
  <2>1. Same(l, Now, K2.X[d])
    BY <1>6, UserHere
  <2>2. env = K2.X[d].env /\ K2.X[d].env \in Int /\ K2.X[d].env <= o
    <3>1. env = K2.X[d].env
      BY <2>1 DEF Same, Now
    <3>2. env \in Int /\ env <= o
      BY <1>1, <1>2
    <3> QED
      BY <3>1, <3>2
  <2> DEFINE y == [hs |-> hs, env |-> K2.X[d].env]
  <2>3. y = [hs |-> y.hs, env |-> y.env] /\ y.env = env
    BY <2>2
  <2>4. Restores(K2.T[o].before, K2.T[o].after, o, y.env)
    BY <1>4, <1>6, <2>3
  <2> HIDE DEF o, y
  <2>5. ObjectUndoes(o, K2.T, y)
    BY <1>12, <2>2, <2>3, <2>4, NewObjectUndoes
  <2> QED
    BY <2>5 DEF y
<1> HIDE DEF h, t, p, o, hs, new
<1>18. ASSUME NEW q \in SyncContinuations(n, o) PROVE Closure(q, d) \in S
  BY <1>1, <1>2 DEF Closure, SyncFrames
<1>19. /\ Simple(p) /\ ~Changes(p) /\ ~Final(p) /\ ~Changes(t) /\ t.fn # "HandlerThunk"
       /\ Simple(User("main")) /\ ~Changes(User("main")) /\ ~Final(User("main"))
  BY <1>15 DEF Simple, Changes, Final, FailsOnReturn
<1>20. /\ ~Changes(call.run) /\ ~Final(call.run) /\ call.run.fn # "WindBody"
       /\ LeadsTo(call) = d
  BY UserHere
<1> DEFINE c == Closure(User("thunk"), d)
           s2 == Push(Here, p, d)
<1>21. QuietAt(K2, S, Here, c, Now, d)
  <2> DEFINE q == User("main")
  <2>1. Closure(q, d) \in S
    BY <1>14, <1>18
  <2>2. Here = Push(stack, q, d) /\ c = Closure(User("thunk"), d)
    BY DEF Here
  <2>3. stack \in Seq(S) /\ Sound(K2, stack, call, Now) /\ call.at = d
        /\ call.run.fn # "Break"
    BY <1>1, <1>11, <1>13
  <2>4. QuietFrame(q)
    BY <1>19 DEF QuietFrame
  <2> HIDE DEF S, c, d, q
  <2>5. QuietAt(K2, S, stack, call, Now, d)
    BY <1>20, <2>3 DEF QuietAt
  <2> QED
    BY <2>1, <2>2, <2>4, <2>5, QuietPush
<1>22. /\ s2 \in Seq(S) /\ Sound(K2, s2, c, Now) /\ d = Top(s2).at
       /\ Same(l, K2.X[d], Needs(Top(s2), K2.X, K2.T))
       /\ c.at = d /\ c.run.fn # "Break" /\ ~Final(c.run) /\ ~Changes(c.run)
  <2>1. Closure(p, d) \in S
    BY <1>14, <1>18
  <2>2. s2 = Push(Here, p, d) /\ c = Closure(User("thunk"), d) /\ l = LoopNow(K2)
    BY <1>7
  <2>3. QuietFrame(p)
    BY <1>19 DEF QuietFrame
  <2> HIDE DEF S, c, d, s2, l
  <2>4. QuietAt(K2, S, s2, c, Now, d)
    BY <1>21, <2>1, <2>2, <2>3, QuietPush
  <2> QED
    BY <2>2, <2>4, QuietTop DEF QuietAt
<1> DEFINE b == SetHandlers(hs)
           a == SetHandlers(handlers)
           w == [fn |-> "WindBody", before |-> b, thunk |-> t, after |-> a]
<1>23. Closure(w, d) \in S
  <2>1. handlers \in SyncHandlerLists(o)
    BY <1>2, <1>13
  <2>2. b \in SyncThunks(o) /\ a \in SyncThunks(o)
    BY <1>16, <2>1 DEF SetHandlers, SyncThunks
  <2> HIDE DEF a, b
  <2>3. w \in SyncContinuations(n, o)
    BY <1>14, <2>2 DEF SyncContinuations
  <2> HIDE DEF w
  <2> QED
    BY <1>18, <2>3
<1>24. Now.hs = handlers /\ Now' = Now
  BY DEF Now
<1>25. Sound(K2, Push(s2, w, d), Closure(b, d), Now)
  <2>1. /\ Reached(K2, d) /\ Same(LoopNow(K2), Now, K2.X[d]) /\ Suits(LoopNow(K2), Now.hs)
        /\ Suits(LoopNow(K2), hs)
    <3>1. Reached(K2, d)
      BY <1>1, <1>6, <1>7 DEF Reached, Widens
    <3>2. Same(l, Now, K2.X[d])
      BY <1>6, UserHere
    <3> QED
      BY <1>1, <1>7, <1>16, <1>24, <3>1, <3>2
  <2>2. t.fn = "ErrorThunk" => ObjectUndoes(t.o, K2.T, [hs |-> hs, env |-> K2.X[d].env])
    BY <1>15, <1>17
  <2>3. Closure([fn |-> "WindBody", before |-> SetHandlers(hs), thunk |-> t,
                 after |-> SetHandlers(Now.hs)], d) \in S
    BY <1>23, <1>24
  <2> HIDE DEF S, c, s2
  <2>4. Sound(K2, Push(s2, [fn |-> "WindBody", before |-> SetHandlers(hs), thunk |-> t,
                            after |-> SetHandlers(Now.hs)], d), Closure(SetHandlers(hs), d), Now)
    BY <1>7, <1>19, <1>21, <1>22, <2>1, <2>2, <2>3, HandlersSound
  <2> QED
    BY <1>24, <2>4
<1>26. stack' = Push(s2, w, d) /\ call' = Closure(b, d)
  BY <1>3 DEF WithExceptionHandlers, DynamicWind, Apply
<1>27. Closure(b, d).at = d
  BY DEF Closure
<1> HIDE DEF w, s2, b
<1>28. Sound(K2, stack', call', Now') /\ call'.at = curDW'
  BY <1>24, <1>25, <1>26, <1>27
<1>29. /\ K2.W = winds' /\ K2.T = ThunksOf(objs') /\ K2.N = native' /\ (~passed' => K2.lo = 0)
  BY <1>1, <1>6 DEF Acting, Viewed
<1> QED
  BY <1>28, <1>29, NewView

LEMMA UserManagedView ==
  ASSUME NEW K, Acting(K), UserManaged \/ UserWithEnv, UNCHANGED native, ~passed' => ~passed
  PROVE  \E K2 : Viewed(K2)'
<1>1. m0 \in Nat /\ env \in 0..m0 /\ m0 + 1 \in Nat /\ m0 + 1 \in 0..(m0 + 1)
      /\ env \in 0..(m0 + 1)
  BY Typed DEF Acting
<1>2. CASE UserManaged
  <2>1. User("before") \in Thunks(m0 + 1) /\ User("after") \in Thunks(m0 + 1)
    BY <1>1, SimpleTyped DEF Roles
  <2>2. Restores(User("before"), User("after"), m0 + 1, env)
    BY DEF Restores, User
  <2>3. /\ Calling("User") /\ ManagedObjectWind(Here, User("before"), User("after"))
        /\ UNCHANGED <<winds, native, handlers, env, curDW>>
    BY <1>2 DEF UserManaged, Use
  <2> QED
    BY <2>1, <2>2, <2>3, ManagedView
<1>3. CASE UserWithEnv
  <2> DEFINE b == SetEnv(m0 + 1)
             a == SetEnv(env)
  <2>1. b \in Thunks(m0 + 1) /\ a \in Thunks(m0 + 1)
    BY <1>1, SimpleTyped
  <2>2. Restores(b, a, m0 + 1, env)
    BY DEF Restores
  <2>3. /\ Calling("User") /\ ManagedObjectWind(Here, b, a)
        /\ UNCHANGED <<winds, native, handlers, env, curDW>>
    BY <1>3 DEF UserWithEnv, Use, m0
  <2> HIDE DEF b, a
  <2> QED
    BY <2>1, <2>2, <2>3, ManagedView
<1> QED
  BY <1>2, <1>3

\* The thunks of the objects stay, also when one is made.
LEMMA ObjectsKept ==
  ASSUME SyncTypes, ObjectsSetEnv(T0), NothingSaved,
         Turn \/ UNCHANGED objs
  PROVE  ObjectsSetEnv(T0)'
<1> DEFINE m == m0
<1>1. objs \in Seq(Objects(m)) /\ m \in Nat /\ call.run \in SyncPending(n0, m) /\ n0 \in Nat
  BY Typed
<1>2. ASSUME ThunksOf(objs') = T0 PROVE ObjectsSetEnv(T0)'
  <2>1. T0' = T0
    BY <1>2 DEF T0
  <2> QED
    BY <2>1 DEF ObjectsSetEnv
<1>3. ASSUME UNCHANGED objs PROVE ObjectsSetEnv(T0)'
  BY <1>2, <1>3 DEF T0
<1>4. CASE ErrorHandler \/ ClearMark \/ Destroy
  <2> DEFINE o == call.run.o
  <2>1. \/ objs' = [objs EXCEPT ![o].isError = TRUE]
        \/ objs' = [objs EXCEPT ![o].isError = FALSE]
        \/ objs' = [objs EXCEPT ![o].alive = FALSE]
    BY <1>4 DEF ErrorHandler, ClearMark, Destroy
  <2> HIDE DEF o
  <2>2. CASE objs' = [objs EXCEPT ![o].isError = TRUE]
    BY <1>1, <1>2, <2>2, ThunksKept
  <2>3. CASE objs' = [objs EXCEPT ![o].isError = FALSE]
    BY <1>1, <1>2, <2>3, ThunksKept
  <2>4. CASE objs' = [objs EXCEPT ![o].alive = FALSE]
    BY <1>1, <1>2, <2>4, ThunksKept
  <2> QED
    BY <2>1, <2>2, <2>3, <2>4
<1>5. ASSUME NEW before, NEW after, NEW s, ManagedObjectWind(s, before, after),
             \/ before.fn = "User" /\ after.fn = "User"
             \/ before = SetEnv(m + 1) /\ after = SetEnv(env)
      PROVE  ObjectsSetEnv(T0)'
  <2> DEFINE new == [alive |-> TRUE, isError |-> FALSE, before |-> before, after |-> after]
             o == m + 1
             t == ThunksOf(objs')
  <2>1. objs' = Append(objs, new)
    BY <1>5 DEF ManagedObjectWind
  <2>2. new.before = before /\ new.after = after
    OBVIOUS
  <2>3. /\ DOMAIN T0 = 1..m /\ DOMAIN t = 1..o
        /\ \A v \in 1..m : t[v] = T0[v]
        /\ t[o].before = before /\ t[o].after = after
    <3> HIDE DEF new
    <3>1. /\ Len(objs') = o /\ objs'[o] = new
          /\ \A v \in 1..m : objs'[v] = objs[v]
      BY <1>1, <2>1, AppendProperties DEF m0
    <3>2. objs' \in Seq(Objects(m) \cup {new})
      <4>1. objs \in Seq(Objects(m) \cup {new})
        BY <1>1, SeqMonotonic
      <4> QED
        BY <2>1, <4>1, AppendProperties
    <3>3. DOMAIN objs = 1..m /\ DOMAIN objs' = 1..o
      BY <1>1, <3>1, <3>2, LenProperties DEF m0
    <3>4. o \in 1..o /\ \A v \in 1..m : v \in 1..o
      BY <1>1
    <3> QED
      BY <2>2, <3>1, <3>3, <3>4 DEF ThunksOf, T0
  <2>4. IsObjectThunk(before) /\ IsObjectThunk(after) /\ (before.fn = "SetEnv" => before.e = o)
    BY <1>5 DEF IsObjectThunk, SetEnv
  <2>5. 1..o = (1..m) \cup {o}
    BY <1>1
  <2> HIDE DEF o, t
  <2>6. ObjectsSetEnv(t)
    BY <2>3, <2>4, <2>5 DEF ObjectsSetEnv
  <2>7. ObjectsSetEnv(T0)' <=> ObjectsSetEnv(t)
    BY DEF ObjectsSetEnv, T0, t
  <2> QED
    BY <2>6, <2>7
<1>6. CASE UserManaged
  <2>1. ManagedObjectWind(Here, User("before"), User("after"))
    BY <1>6 DEF UserManaged
  <2>2. User("before").fn = "User" /\ User("after").fn = "User"
    BY DEF User
  <2> QED
    BY <1>5, <2>1, <2>2
<1>7. CASE UserWithEnv
  <2>1. ManagedObjectWind(Here, SetEnv(m + 1), SetEnv(env))
    BY <1>7 DEF UserWithEnv, m0
  <2> QED
    BY <1>5, <2>1
<1>8. CASE Turn /\ ~(ErrorHandler \/ ClearMark \/ Destroy) /\ ~UserManaged /\ ~UserWithEnv
  <2>1. ~UserThrow
    BY NoThrow
  <2>2. CASE WindStep
    BY <1>3, <2>2 DEF WindStep, WindBody, WindExit, Forward
  <2>3. CASE TraverseStep
    BY <1>3, <2>3 DEF TraverseStep, TraverseArrive, TraverseDown, TraverseUp, ContinueUp,
      EnterWind, SetDW
  <2>4. CASE EscapeStep
    BY <1>3, <2>4 DEF EscapeStep, CallEscape, Restore
  <2>5. CASE RaiseStep
    BY <1>3, <2>5 DEF RaiseStep, CallSetHandlers, RaiseUncaught, RaiseToHandler,
      CallHandlerThunk, RaiseAgain
  <2>6. CASE ObjectStep
    BY <1>3, <1>8, <2>6 DEF ObjectStep, ErrorThunk, SafeBefore, SafeAfter, DestroyAgain, CallSetEnv
  <2>7. CASE UserStep
    BY <1>3, <1>8, <2>7 DEF UserStep, UserReturn, UserWind, UserCallCC, UserThrow, UserRaise,
      UserRaiseContinuable, UserHandler
  <2> QED
    BY <1>8, <2>2, <2>3, <2>4, <2>5, <2>6, <2>7 DEF Turn
<1> QED
  BY <1>3, <1>4, <1>6, <1>7, <1>8

\* A turn of the loop other than those of nested loops.
LEMMA TurnView ==
  ASSUME NEW K, Acting(K), ObjectsSetEnv(T0), NothingSaved, Turn, UNCHANGED native,
         ~passed' => ~passed
  PROVE  \E K2 : Viewed(K2)'
<1>1. ~EscapeStep
  <2>1. call.run.fn \notin {"Escape", "Restore"}
    BY ActingFacts, SyncCaptures
  <2> QED
    BY <2>1 DEF EscapeStep, CallEscape, Restore, Calling
<1>2. CASE WindStep
  <2>1. CASE WindBody
    BY <2>1, WindBodyView
  <2>2. CASE WindExit
    BY <2>2, WindExitView
  <2>3. CASE Forward
    BY <2>3, ForwardView
  <2> QED
    BY <1>2, <2>1, <2>2, <2>3 DEF WindStep
<1>3. CASE TraverseStep
  BY <1>3, TraverseView
<1>4. CASE RaiseStep
  BY <1>4, RaiseView
<1>5. CASE ObjectStep
  BY <1>5, ObjectView
<1>6. CASE UserStep
  <2>1. CASE UserManaged \/ UserWithEnv
    BY <2>1, UserManagedView
  <2>2. CASE ~UserManaged /\ ~UserWithEnv
    BY <1>6, <2>2, UserView
  <2> QED
    BY <2>1, <2>2
<1> QED
  BY <1>1, <1>2, <1>3, <1>4, <1>5, <1>6 DEF Turn

\* While a nested loop runs a turn leaves something to call.
LEMMA StillRunning ==
  ASSUME SyncTypes, NothingSaved, Turn, stack # <<>>
  PROVE  call'.run.fn # "Bottom"
<1> DEFINE n == n0
           m == m0
<1>1. /\ n \in Nat /\ m \in Nat /\ stack \in Seq(SyncFrames(n, m))
      /\ call.run \in SyncPending(n, m)
      /\ \A w \in 1..n : winds[w] \in SyncWindings(n, m)
      /\ \A o \in 1..m : objs[o] \in Objects(m)
  BY Typed
<1>2. Top(stack).run.fn # "Bottom"
  <2>1. Len(stack) \in 1..Len(stack)
    <3>1. Len(stack) \in Nat /\ Len(stack) # 0
      BY <1>1, EmptySeq, LenProperties
    <3> QED
      BY <3>1
  <2>2. stack[Len(stack)].run.fn # "Bottom"
    BY <1>1, <2>1, FramesPending
  <2> QED
    BY <2>2 DEF Top
<1>3. ASSUME Cont(stack) PROVE call'.run.fn # "Bottom"
  BY <1>2, <1>3 DEF Cont
<1>4. ASSUME NEW p, NEW d, Apply(p, d), p.fn # "Bottom" PROVE call'.run.fn # "Bottom"
  <2>1. Closure(p, d).run = p
    BY DEF Closure
  <2> QED
    BY <1>4, <2>1 DEF Apply
<1>5. /\ \A p \in SyncThunks(m) : p.fn # "Bottom"
      /\ \A p \in Handlers(m) : p.fn # "Bottom"
      /\ \A p \in Thunks(m) : p.fn # "Bottom"
  BY DEF SyncThunks, Handlers, Thunks
<1>6. \A w \in 1..n : winds[w].before.fn # "Bottom" /\ winds[w].after.fn # "Bottom"
  BY <1>1, <1>5 DEF SyncWindings
<1>7. \A o \in 1..m : objs[o].before.fn # "Bottom" /\ objs[o].after.fn # "Bottom"
  BY <1>1, <1>5 DEF Objects
<1>8. /\ Raise.fn # "Bottom" /\ \A r : User(r).fn # "Bottom"
      /\ \A r, e : Traverse(r, e).fn # "Bottom" /\ OfObject("SafeBefore", r).fn # "Bottom"
      /\ \A hs : SetHandlers(hs).fn # "Bottom"
  BY DEF Raise, User, Traverse, OfObject, SetHandlers
<1>9. ASSUME NEW s, RaiseContinuable(s) PROVE call'.run.fn # "Bottom"
  <2>1. CASE IsPair(handlers)
    <3>1. Apply(SetHandlers(Tail(handlers)), curDW)
      BY <1>9, <2>1 DEF RaiseContinuable, WithExceptionHandlers, DynamicWind
    <3> QED
      BY <1>4, <1>8, <3>1
  <2>2. CASE ~IsPair(handlers)
    <3>1. Apply(Raise, curDW)
      BY <1>9, <2>2 DEF RaiseContinuable
    <3> QED
      BY <1>4, <1>8, <3>1
  <2> QED
    BY <2>1, <2>2
<1>10. ASSUME NEW s, NEW hs, NEW t, WithExceptionHandlers(s, hs, t)
       PROVE  call'.run.fn # "Bottom"
  <2>1. Apply(SetHandlers(hs), curDW)
    BY <1>10 DEF WithExceptionHandlers, DynamicWind
  <2> QED
    BY <1>4, <1>8, <2>1
<1>11. ASSUME NEW s, NEW b, NEW a, ManagedObjectWind(s, b, a)
       PROVE  call'.run.fn # "Bottom"
  BY <1>10, <1>11 DEF ManagedObjectWind
<1>12. CASE WindStep
  <2>1. CASE WindBody
    <3>1. call.run.thunk.fn # "Bottom"
      BY <1>1, <1>5, <2>1, SyncCaptures DEF WindBody, Calling
    <3>2. Apply(call.run.thunk, Len(winds) + 1)
      BY <2>1 DEF WindBody
    <3> QED
      BY <1>4, <3>1, <3>2
  <2>2. CASE WindExit
    <3>1. call.run.after.fn # "Bottom"
      BY <1>1, <1>5, <2>2, SyncCaptures DEF WindExit, Calling
    <3>2. Apply(call.run.after, call.run.prev)
      BY <2>2 DEF WindExit
    <3> QED
      BY <1>4, <3>1, <3>2
  <2>3. CASE Forward
    BY <1>3, <2>3 DEF Forward
  <2> QED
    BY <1>12, <2>1, <2>2, <2>3 DEF WindStep
<1>13. CASE TraverseStep
  <2>1. CASE TraverseArrive \/ SetDW
    BY <1>3, <2>1 DEF TraverseArrive, SetDW
  <2>2. CASE TraverseDown \/ ContinueUp
    <3>1. PICK r, e : Apply(Traverse(r, e), curDW)
      BY <2>2 DEF TraverseDown, ContinueUp
    <3> QED
      BY <1>4, <1>8, <3>1
  <2>3. CASE TraverseUp
    <3> DEFINE src == call.run.src
    <3>1. src \in 0..n /\ call.run.dest \in 0..n
      BY <1>1, <2>3, SyncCaptures DEF TraverseUp, Calling
    <3>2. /\ src # call.run.dest /\ Depth(src) >= Depth(call.run.dest)
          /\ Apply(winds[src].after, Parent(src))
      BY <2>3 DEF TraverseUp
    <3> HIDE DEF src
    <3>3. src # 0
      BY <3>1, <3>2, DepthTyped
    <3>4. src \in 1..n
      BY <1>1, <3>1, <3>3
    <3>5. winds[src].after.fn # "Bottom"
      BY <1>6, <3>4
    <3> QED
      BY <1>4, <3>2, <3>5
  <2>4. CASE EnterWind
    <3>1. call.run.dest \in 1..n
      BY <1>1, <2>4, SyncCaptures DEF EnterWind, Calling
    <3>2. Apply(winds[call.run.dest].before, curDW) /\ winds[call.run.dest].before.fn # "Bottom"
      BY <1>6, <2>4, <3>1 DEF EnterWind
    <3> QED
      BY <1>4, <3>2
  <2> QED
    BY <1>13, <2>1, <2>2, <2>3, <2>4 DEF TraverseStep
<1>14. CASE EscapeStep
  <2>1. call.run.fn \notin {"Escape", "Restore"}
    BY <1>1, SyncCaptures
  <2> QED
    BY <1>14, <2>1 DEF EscapeStep, CallEscape, Restore, Calling
<1>15. CASE RaiseStep
  <2>1. CASE CallSetHandlers
    BY <1>3, <2>1 DEF CallSetHandlers
  <2>2. CASE RaiseUncaught
    <3>1. Apply(Traverse(curDW, bottomDW), curDW)
      BY <2>2 DEF RaiseUncaught
    <3> QED
      BY <1>4, <1>8, <3>1
  <2>3. CASE RaiseToHandler
    BY <1>10, <2>3 DEF RaiseToHandler
  <2>4. CASE CallHandlerThunk
    <3>1. call.run.h.fn # "Bottom"
      BY <1>1, <1>5, <2>4, SyncCaptures DEF CallHandlerThunk, Calling
    <3>2. Apply(call.run.h, curDW)
      BY <2>4 DEF CallHandlerThunk
    <3> QED
      BY <1>4, <3>1, <3>2
  <2>5. CASE RaiseAgain
    <3>1. Apply(Raise, curDW)
      BY <2>5 DEF RaiseAgain
    <3> QED
      BY <1>4, <1>8, <3>1
  <2> QED
    BY <1>15, <2>1, <2>2, <2>3, <2>4, <2>5 DEF RaiseStep
<1>16. CASE ObjectStep
  <2>1. CASE ErrorThunk
    <3>1. Apply(OfObject("SafeBefore", call.run.o), curDW)
      BY <2>1 DEF ErrorThunk, DynamicWind
    <3> QED
      BY <1>4, <1>8, <3>1
  <2>2. CASE SafeBefore
    <3>1. call.run.o \in 1..m
      BY <1>1, <2>2, SyncCaptures DEF SafeBefore, Calling
    <3>2. CASE objs[call.run.o].alive
      <4>1. Apply(objs[call.run.o].before, curDW)
        BY <2>2, <3>2 DEF SafeBefore
      <4> QED
        BY <1>4, <1>7, <3>1, <4>1
    <3>3. CASE ~objs[call.run.o].alive
      <4>1. Apply(Raise, curDW)
        BY <2>2, <3>3 DEF SafeBefore
      <4> QED
        BY <1>4, <1>8, <4>1
    <3> QED
      BY <3>2, <3>3
  <2>3. CASE SafeAfter
    <3>1. call.run.o \in 1..m
      BY <1>1, <2>3, SyncCaptures DEF SafeAfter, Calling
    <3>2. Apply(objs[call.run.o].after, curDW)
      BY <2>3 DEF SafeAfter
    <3> QED
      BY <1>4, <1>7, <3>1, <3>2
  <2>4. CASE ErrorHandler
    BY <1>9, <2>4 DEF ErrorHandler
  <2>5. CASE ClearMark \/ Destroy \/ CallSetEnv
    BY <1>3, <2>5 DEF ClearMark, Destroy, CallSetEnv
  <2>6. CASE DestroyAgain
    <3>1. Apply(Raise, curDW)
      BY <2>6 DEF DestroyAgain
    <3> QED
      BY <1>4, <1>8, <3>1
  <2> QED
    BY <1>16, <2>1, <2>2, <2>3, <2>4, <2>5, <2>6 DEF ObjectStep
<1>17. CASE UserStep
  <2>1. CASE UserReturn
    BY <1>3, <2>1 DEF UserReturn
  <2>2. CASE UserWind \/ UserCallCC \/ UserRaise
    <3>1. Apply(User("before"), curDW) \/ Apply(User("thunk"), curDW) \/ Apply(Raise, curDW)
      BY <2>2 DEF UserWind, DynamicWind, UserCallCC, UserRaise
    <3> QED
      BY <1>4, <1>8, <3>1
  <2>3. CASE UserRaiseContinuable
    BY <1>9, <2>3 DEF UserRaiseContinuable
  <2>4. CASE UserHandler
    BY <1>10, <2>4 DEF UserHandler
  <2>5. CASE UserManaged \/ UserWithEnv
    BY <1>11, <2>5 DEF UserManaged, UserWithEnv
  <2>6. ~UserThrow
    BY NoThrow
  <2> QED
    BY <1>17, <2>1, <2>2, <2>3, <2>4, <2>5, <2>6 DEF UserStep
<1> QED
  BY <1>12, <1>13, <1>14, <1>15, <1>16, <1>17 DEF Turn

-----------------------------------------------------------------------------
(* The end of a nested loop *)

LEMMA PlainIs ==
  ASSUME NEW n \in Nat, NEW m \in Nat, NEW c \in SyncCalls(n, m),
         c.run.fn \in {"Break", "Catch", "Raise", "Bottom"}
  PROVE  c = Closure([fn |-> c.run.fn], c.at)
<1>1. c.run \in SyncPending(n, m) /\ c = [run |-> c.run, at |-> c.at]
  BY DEF SyncCalls
<1>2. c.run = [fn |-> c.run.fn]
  BY <1>1 DEF SyncPending, SyncContinuations, SyncThunks, Thunks, Handlers
<1> QED
  BY <1>1, <1>2 DEF Closure

\* The innermost nested call.
LEMMA LastLoop ==
  ASSUME NEW K, NEW s, NEW c, TreeOf(K), Natives(K, s, c), K.N # <<>>
  PROVE  LET L == Len(K.N)
             r == K.N[L]
         IN /\ L \in Nat /\ L # 0 /\ L \in 1..L /\ Nested(K, s, c, L)
            /\ r.dw \in K.G \cup {K.base} /\ Reached(K, r.dw)
            /\ \A j \in 1..L : r.dw \in K.P[r.dw] /\ K.N[j].dw \in K.P[r.dw]
            /\ \A j \in 1..L : j # L => j \in 1..(L - 1) /\ K.N[j].top < r.top
<1> DEFINE L == Len(K.N)
           r == K.N[L]
<1>1. L \in Nat /\ L # 0 /\ \A j \in 1..L : Nested(K, s, c, j)
  BY DEF Natives
<1> HIDE DEF L
<1>2. L \in 1..L /\ \A j \in 1..L : j # L => j \in 1..(L - 1)
  BY <1>1
<1>3. Nested(K, s, c, L)
  BY <1>1, <1>2
<1>4. r.dw \in K.G \cup {K.base}
  BY <1>2, NestedIn DEF L
<1>5. r.dw \in K.P[r.dw]
  BY <1>4 DEF TreeOf
<1>6. \A j \in 1..L : K.N[j].dw \in K.P[r.dw]
  <2>1. \A j \in 1..(L - 1) : K.N[j].dw \in K.P[r.dw]
    BY <1>3 DEF Nested
  <2> QED
    BY <1>2, <1>5, <2>1
<1>7. \A j \in 1..L : j # L => K.N[j].top < r.top
  BY <1>2, <1>3 DEF Nested
<1>8. r.dw \in Zone(K, "inner")
  <2>1. CASE L = 1
    BY <2>1 DEF Zone
  <2>2. CASE L # 1
    BY <1>3, <2>2 DEF Nested
  <2> QED
    BY <2>1, <2>2
<1>9. Reached(K, r.dw)
  BY <1>6, <1>8 DEF Reached, LoopNow, L
<1> QED
  BY <1>1, <1>2, <1>3, <1>4, <1>5, <1>6, <1>7, <1>9 DEF L

\* When PushBreak's frame or CatchHandler is called, control is where the
\* innermost nested loop was entered, in the environment it was entered in.
LEMMA LoopEnds ==
  ASSUME NEW K, NEW S, NEW s \in Seq(S), NEW c, NEW x, Sound(K, s, c, x),
         c.run.fn \in {"Break", "Catch"}
  PROVE  LET r == K.N[Len(K.N)]
         IN /\ K.N # <<>> /\ c.at = r.dw /\ x.env = r.env
            /\ c.run.fn = "Break" => r.top = Len(s)
            /\ c.run.fn = "Break" /\ ~(Len(s) + 1 <= K.lo) =>
                 r.dw = Top(s).at /\ Same(Loop(K, Len(s) + 1), K.X[r.dw], Needs(Top(s), K.X, K.T))
<1> DEFINE L == Len(K.N)
           r == K.N[L]
           k == Len(s)
           t == Top(s)
<1>1. /\ TreeOf(K) /\ Natives(K, s, c) /\ Frame(K, k + 1, c) /\ k \in Nat
      /\ ~Changes(c.run) /\ Needs(c, K.X, K.T) = K.X[c.at] /\ LeadsTo(c) = c.at
      /\ Same(LoopNow(K), x, K.X[c.at]) /\ Hands(K, k + 1, c, t)
  <2>1. ~Changes(c.run) /\ Needs(c, K.X, K.T) = K.X[c.at] /\ LeadsTo(c) = c.at
    BY DEF Changes, Needs, LeadsTo
  <2>2. k \in Nat
    BY LenProperties
  <2> QED
    BY <2>1, <2>2 DEF Sound, CallIn
<1>2. Loops(K, k + 1, c) /\ L \in Nat
  BY <1>1 DEF Frame, Natives
<1>3. K.N # <<>> /\ (c.run.fn = "Break" => r.top = k) /\ c.at = r.dw
  <2>1. PICK j \in 1..L : /\ K.N[j].dw = c.at
                          /\ \/ k + 1 = K.N[j].top + 1
                             \/ c.run.fn = "Catch" /\ K.N[j].top < k + 1
                                /\ \A i \in (j + 1)..L : k + 1 <= K.N[i].top
    BY <1>2 DEF Loops
  <2>2. K.N # <<>>
    BY <1>1, <1>2, <2>1 DEF Natives
  <2>3. /\ L \in 1..L /\ Nested(K, s, c, L)
        /\ \A i \in 1..L : i # L => i \in 1..(L - 1) /\ K.N[i].top < r.top
    BY <1>1, <2>2, LastLoop
  <2>4. r.top \in Nat /\ r.top <= k
    BY <2>3 DEF Nested
  <2>5. Nested(K, s, c, j)
    BY <1>1, <2>1 DEF Natives
  <2>6. K.N[j].top \in Nat
    BY <2>5 DEF Nested
  <2>7. j = L
    <3> SUFFICES ASSUME j # L PROVE FALSE
      OBVIOUS
    <3>1. K.N[j].top < r.top /\ j \in 1..(L - 1)
      BY <2>3
    <3>2. L \in (j + 1)..L
      BY <1>2, <3>1
    <3> HIDE DEF L, r, k
    <3>3. CASE k + 1 = K.N[j].top + 1
      BY <1>1, <2>4, <2>6, <3>1, <3>3
    <3>4. CASE \A i \in (j + 1)..L : k + 1 <= K.N[i].top
      <4>1. k + 1 <= r.top
        BY <3>2, <3>4 DEF r
      <4> QED
        BY <1>1, <2>4, <4>1
    <3> QED
      BY <2>1, <3>3, <3>4
  <2>8. c.run.fn = "Break" => r.top = k
    BY <1>1, <2>1, <2>4, <2>7
  <2> QED
    BY <2>1, <2>2, <2>7, <2>8
<1>4. x.env = r.env
  <2>1. r.env = K.X[r.dw].env
    BY <1>1, <1>3, LastLoop DEF Nested
  <2> QED
    BY <1>1, <1>3, <2>1 DEF Same
<1>5. c.run.fn = "Break" /\ ~(k + 1 <= K.lo) =>
        r.dw = t.at /\ Same(Loop(K, k + 1), K.X[r.dw], Needs(t, K.X, K.T))
  <2>1. c.run.fn = "Break" => ~Final(c.run)
    BY DEF Final, FailsOnReturn
  <2> HIDE DEF k, t, r, L
  <2>2. \/ Final(c.run) \/ k + 1 <= K.lo
        \/ LeadsTo(c) = t.at /\ Same(Loop(K, k + 1), K.X[LeadsTo(c)], Needs(t, K.X, K.T))
    BY <1>1 DEF Hands
  <2>3. LeadsTo(c) = r.dw
    BY <1>1, <1>3
  <2>4. ASSUME c.run.fn = "Break", ~(k + 1 <= K.lo)
        PROVE  r.dw = t.at /\ Same(Loop(K, k + 1), K.X[r.dw], Needs(t, K.X, K.T))
    BY <2>1, <2>2, <2>3, <2>4
  <2> QED
    BY <2>4
<1> QED
  BY <1>3, <1>4, <1>5

\* The environments of the nested calls are those of extents around control.
LEMMA EnvOrder ==
  ASSUME NEW K, NEW s, NEW c, TreeOf(K), Natives(K, s, c), NEW j \in 1..Len(K.N),
         NEW w \in K.G \cup {K.base}, K.N[j].dw \in K.P[w]
  PROVE  /\ K.N[j].env \in Int /\ K.X[w].env \in Int /\ K.N[j].env <= K.X[w].env
         /\ K.N[j].env = K.X[K.N[j].dw].env
<1>1. K.N[j].env = K.X[K.N[j].dw].env
  BY DEF Natives, Nested
<1>2. K.N[j].dw \in K.G \cup {K.base}
  BY NestedIn
<1>3. K.X[K.N[j].dw].env \in Int /\ K.X[w].env \in Int
  BY <1>2 DEF TreeOf
<1>4. K.N[j].dw = w \/ K.X[K.N[j].dw].env <= K.X[w].env
  BY AroundFacts
<1> QED
  BY <1>1, <1>3, <1>4

\* An error may be raised wherever the context is that of the extent.
LEMMA RaisingSound ==
  ASSUME NEW K, Acting(K), Same(LoopNow(K), Now, K.X[curDW])
  PROVE  Sound(K, stack, Closure(Raise, curDW), Now)
<1> DEFINE p == Raise
<1>1. /\ Sound(K, stack, call, Now) /\ call.run.fn # "Break"
      /\ stack \in Seq(SyncFrames(n0, m0)) /\ Reached(K, curDW)
      /\ Suits(LoopNow(K), Now.hs)
  BY ActingFacts DEF Now
<1>2. p.fn = "Raise"
  BY DEF Raise
<1> HIDE DEF p
<1>3. Simple(p) /\ ~Changes(p) /\ p.fn # "ErrorThunk" /\ Final(p)
  BY <1>2 DEF Simple, Changes, Final
<1>4. CallIn(K, Len(stack) + 1, Closure(p, curDW), Top(stack), Now)
  BY <1>1, <1>3, QuietCall
<1>5. Closure(p, curDW).run = p
  BY DEF Closure
<1> DEFINE c == Closure(p, curDW)
<1>6. Final(c.run)
  BY <1>3, <1>5
<1> HIDE DEF c
<1>7. Sound(K, stack, c, Now)
  BY <1>1, <1>4, <1>6, CallSound DEF c
<1> QED
  BY <1>7 DEF c, p

LEMMA RaiseToBottomView ==
  ASSUME NEW K, Acting(K), RaiseToBottom, ~passed' => ~passed
  PROVE  Viewed(K)'
<1> DEFINE l == LoopNow(K)
           L == Len(K.N)
           b == K.N[L].dw
           d == curDW
           q == Catch
           f == Closure(q, b)
           p == Traverse(d, b)
           g == Closure(p, d)
           k == Len(stack)
<1>1. /\ Sound(K, stack, call, Now) /\ call.run.fn # "Break" /\ TreeOf(K)
      /\ Natives(K, stack, call) /\ K.N = native /\ Reached(K, d) /\ Suits(l, handlers)
      /\ stack \in Seq(SyncFrames(n0, m0)) /\ n0 \in Nat /\ m0 \in Nat /\ k \in Nat
      /\ native \in Seq(SyncLocals(n0, m0)) /\ handlers \in SyncHandlerLists(m0)
  BY ActingFacts, Typed DEF Sound, Acting
<1>2. /\ call.run.fn = "Raise" /\ handlers # <<>> /\ Head(handlers) = Catch
      /\ stack' = Push(stack, Head(handlers), bottomDW)
      /\ Apply(Traverse(curDW, bottomDW), curDW)
      /\ UNCHANGED <<curDW, winds, handlers, objs, env, native>>
  BY DEF RaiseToBottom, Calling, IsPair
<1>3. K.N # <<>>
  <2>1. Head(handlers) = handlers[1] /\ 1 \in 1..Len(handlers)
    BY <1>1, <1>2, HeadTailProperties DEF SyncHandlerLists
  <2>2. ~NoCatch(handlers)
    BY <1>2, <2>1 DEF NoCatch
  <2> QED
    BY <1>1, <2>2 DEF Suits, LoopNow
<1>4. /\ L \in Nat /\ L # 0 /\ L \in 1..L /\ Nested(K, stack, call, L) /\ Reached(K, b)
      /\ \A j \in 1..L : K.N[j].dw \in K.P[b]
      /\ b \in K.G \cup {K.base}
  BY <1>1, <1>3, LastLoop
<1>5. bottomDW = b
  <2>1. bottomDW = BottomOf(native, L + 1)
    BY <1>1 DEF Acting, SyncTypes
  <2> QED
    BY <1>1, <1>4, <2>1 DEF BottomOf
<1>6. b \in Nat /\ q \in SyncContinuations(n0, m0) /\ d \in 0..n0
  <2>1. native[L] \in SyncLocals(n0, m0)
    BY <1>1, <1>4, ElementOfSeq
  <2> QED
    BY <1>1, <2>1, SimpleTyped, Typed DEF SyncLocals, Catch, Acting
<1>7. /\ l = "inner" /\ Loop(K, k + 1) = l
      /\ \A j \in 1..L : K.N[j].top \in Nat /\ K.N[j].top < k
  BY <1>1, <1>3, SoundFacts DEF LoopNow
<1>8. f.run = q /\ f.at = b /\ LeadsTo(f) = b /\ q.fn = "Catch"
  BY DEF Closure, LeadsTo, Catch
<1>9. g.run = p /\ g.at = d /\ LeadsTo(g) = b /\ p.fn = "Traverse" /\ p.src = d /\ p.dest = b
  BY DEF Closure, LeadsTo, Traverse
<1>10. stack' = Push(stack, q, b) /\ Apply(p, d)
  BY <1>2, <1>5
<1> HIDE DEF q, p, f, g, b, k
<1>11. Frame(K, k + 1, f)
  <2>1. Body(K, l, f)
    <3>1. b \in Zone(K, l)
      BY <1>4 DEF Reached
    <3> QED
      BY <1>8, <3>1 DEF Body, Captured, InstallsFor, Restoring
  <2>2. Within(K, k + 1, b)
    BY <1>4 DEF Within
  <2>3. \A i \in (L + 1)..L : k + 1 <= K.N[i].top
    BY <1>4
  <2>4. K.N[L].dw = b /\ K.N[L].top < k + 1
    BY <1>1, <1>4, <1>7 DEF b
  <2> HIDE DEF L
  <2>5. Loops(K, k + 1, f)
    BY <1>4, <1>8, <2>2, <2>3, <2>4 DEF Loops, L
  <2> QED
    BY <1>7, <2>1, <2>5 DEF Frame
<1>12. Final(q)
  BY <1>8 DEF Final
<1>13. Hands(K, k + 1, f, Top(stack))
  BY <1>8, <1>12 DEF Hands
<1>14. Same(l, Now, K.X[d])
  <2>1. ~Changes(call.run) /\ call.run.fn # "WindBody"
    BY <1>2 DEF Changes
  <2> QED
    BY <2>1, QuietHere
<1>15. CallIn(K, k + 2, g, f, Now)
  <2>1. Body(K, l, g)
    <3>1. d \in Zone(K, l) /\ b \in Zone(K, l) /\ b \in K.P[d]
      BY <1>1, <1>4 DEF Reached, b
    <3> QED
      BY <1>9, <3>1 DEF Body, Captured, InstallsFor, Restoring
  <2>2. Frame(K, k + 2, g) /\ Loop(K, k + 2) = l
    <3>1. g.run.fn \notin {"Catch", "Break", "Bottom"} /\ k + 2 \in {Len(stack) + 1, Len(stack) + 2}
      BY <1>9 DEF k
    <3> QED
      BY <1>1, <1>4, <1>9, <2>1, <3>1, TopFrame
  <2>3. ~Changes(g.run) /\ g.run.fn # "ErrorThunk" /\ g.run.fn \notin {"SafeBefore", "SafeAfter"}
    BY <1>9 DEF Changes
  <2>4. Needs(g, K.X, K.T) = K.X[d] /\ Needs(f, K.X, K.T) = K.X[b]
    BY <1>8, <1>9 DEF Needs
  <2>5. Hands(K, k + 2, g, f)
    BY <1>8, <1>9, <2>2, <2>4, SameIs DEF Hands
  <2> QED
    BY <1>14, <2>2, <2>3, <2>4, <2>5 DEF CallIn
<1>16. Frame(K, Len(stack) + 1, Closure(q, b)) /\ Hands(K, Len(stack) + 1, Closure(q, b), Top(stack))
       /\ CallIn(K, Len(stack) + 2, Closure(p, d), Closure(q, b), Now)
  BY <1>11, <1>13, <1>15 DEF f, g, k
<1>17. ThunksOf(objs') = T0
  BY <1>2 DEF T0
<1> QED
  BY <1>2, <1>6, <1>10, <1>12, <1>16, <1>17, PushView

\* A loop that stops with an error, for RunSync to hand on.
LEMMA StopView ==
  ASSUME NEW K, Acting(K), Same(LoopNow(K), Now, K.X[curDW]), native # <<>>,
         call' = Bottom, caught' # "none",
         UNCHANGED <<stack, curDW, winds, handlers, objs, env, native>>, ~passed' => ~passed
  PROVE  Viewed(K)'
<1>1. Sound(K, stack, Closure(Raise, curDW), Now)
  BY RaisingSound
<1>2. Coming' = Closure(Raise, curDW)
  <2>1. Halted'
    BY DEF Halted, Calling, Bottom, Closure
  <2> QED
    BY <2>1 DEF Coming
<1>3. Now' = Now /\ T0' = T0
  BY DEF Now, T0
<1>4. Closure(Raise, curDW).at = curDW
  BY DEF Closure
<1>5. /\ K.W = winds /\ K.T = T0 /\ K.N = native /\ (~passed => K.lo = 0)
  BY DEF Acting, Viewed
<1> HIDE DEF Coming
<1>6. Sound(K, stack, Coming, Now)' <=> Sound(K, stack, Closure(Raise, curDW), Now)
  BY <1>2, <1>3
<1> QED
  BY <1>1, <1>2, <1>3, <1>4, <1>5, <1>6 DEF Viewed

LEMMA BreakView ==
  ASSUME NEW K, SyncTypes, Viewed(K), Break, ~passed' => ~passed
  PROVE  Viewed(K)' /\ native # <<>> /\ env = Last(native).env /\ curDW = Last(native).dw
<1> DEFINE c == Closure([fn |-> "Break"], Last(native).dw)
<1>1. call.run.fn = "Break"
  BY DEF Break, Calling
<1>2. Coming = call
  BY <1>1 DEF Coming, Halted, Calling
<1>3. /\ Sound(K, stack, call, Now) /\ call.at = curDW /\ K.N = native
      /\ K.W = winds /\ K.T = T0 /\ (~passed => K.lo = 0)
  BY <1>2 DEF Viewed
<1>4. stack \in Seq(SyncFrames(n0, m0)) /\ call \in SyncCalls(n0, m0) /\ n0 \in Nat /\ m0 \in Nat
  BY Typed
<1>5. native # <<>> /\ curDW = Last(native).dw /\ env = Last(native).env
  <2>1. K.N # <<>> /\ call.at = K.N[Len(K.N)].dw /\ Now.env = K.N[Len(K.N)].env
    BY <1>1, <1>3, <1>4, LoopEnds
  <2>2. Last(native) = K.N[Len(K.N)]
    BY <1>3 DEF Last
  <2> QED
    BY <1>3, <2>1, <2>2 DEF Now
<1>6. call = c
  BY <1>1, <1>3, <1>4, <1>5, PlainIs
<1>7. Coming' = c
  <2>1. Halted' /\ caught' = "none" /\ native' = native
    BY DEF Break, Halted, Calling, Bottom, Closure
  <2> QED
    BY <1>5, <2>1 DEF Coming
<1>8. UNCHANGED <<stack, curDW, winds, native>> /\ Now' = Now /\ T0' = T0
  BY DEF Break, Now, T0
<1> HIDE DEF c, Coming
<1>9. Sound(K, stack, Coming, Now)' <=> Sound(K, stack, c, Now)
  BY <1>7, <1>8
<1>10. c.at = curDW
  BY <1>3, <1>6
<1> QED
  BY <1>3, <1>5, <1>6, <1>7, <1>8, <1>9, <1>10 DEF Viewed

LEMMA CatchView ==
  ASSUME NEW K, Acting(K), CallCatch, ~passed' => ~passed
  PROVE  Viewed(K)' /\ native # <<>> /\ env = Last(native).env /\ curDW = Last(native).dw
<1>1. call.run.fn = "Catch"
  BY DEF CallCatch, Calling
<1>2. /\ Sound(K, stack, call, Now) /\ call.at = curDW /\ K.N = native
      /\ stack \in Seq(SyncFrames(n0, m0))
  BY ActingFacts
<1>3. native # <<>> /\ curDW = Last(native).dw /\ env = Last(native).env
  <2>1. K.N # <<>> /\ call.at = K.N[Len(K.N)].dw /\ Now.env = K.N[Len(K.N)].env
    BY <1>1, <1>2, LoopEnds
  <2>2. Last(native) = K.N[Len(K.N)]
    BY <1>2 DEF Last
  <2> QED
    BY <1>2, <2>1, <2>2 DEF Now
<1>4. Same(LoopNow(K), Now, K.X[curDW])
  <2>1. ~Changes(call.run) /\ call.run.fn # "WindBody"
    BY <1>1 DEF Changes
  <2> QED
    BY <2>1, QuietHere
<1>5. /\ call' = Bottom /\ caught' # "none"
      /\ UNCHANGED <<stack, curDW, winds, handlers, objs, env, native>>
  BY DEF CallCatch
<1> QED
  BY <1>3, <1>4, <1>5, StopView

\* The environment of some nested call is that of the innermost one if it is
\* that of control.
LEMMA DepthFacts ==
  ASSUME NEW e, NEW N, RunSyncDepth(e, N) > 0
  PROVE  \E j \in DOMAIN N : N[j].env = e
<1>1. {j \in DOMAIN N : N[j].env = e} # {}
  BY FS_EmptySet DEF RunSyncDepth
<1> QED
  BY <1>1

LEMMA CompileErrorView ==
  ASSUME NEW K, Acting(K), UserCompileError, ~passed' => ~passed
  PROVE  /\ Viewed(K)'
         /\ call' = Bottom => native # <<>> /\ env = Last(native).env
<1>1. /\ Sound(K, stack, call, Now) /\ call.at = curDW /\ K.N = native /\ TreeOf(K)
      /\ native \in Seq(SyncLocals(n0, m0)) /\ Reached(K, curDW)
  BY ActingFacts, Typed DEF Acting
<1>2. Same(LoopNow(K), Now, K.X[curDW])
  BY UserHere DEF UserCompileError
<1>3. UNCHANGED <<stack, curDW, winds, handlers, objs, env, native>>
  BY DEF UserCompileError
<1>4. ThunksOf(objs') = T0
  BY <1>3 DEF T0
<1>5. CASE RunSyncDepth(env, native) > 0
  <2> DEFINE L == Len(native)
  <2>1. call' = Bottom /\ caught' # "none"
    BY <1>5 DEF UserCompileError
  <2>2. PICK j \in 1..L : native[j].env = env
    BY <1>1, <1>5, DepthFacts, LenProperties
  <2>3. native # <<>>
    BY <1>1, <2>2, EmptySeq
  <2>4. env = native[L].env
    <3>1. Natives(K, stack, call)
      BY <1>1 DEF Sound
    <3>2. /\ L \in 1..L /\ native[L].dw \in K.G \cup {K.base}
          /\ \A i \in 1..L : native[i].dw \in K.P[native[L].dw]
      BY <1>1, <2>3, <3>1, LastLoop
    <3>3. native[L].dw \in K.P[curDW] /\ curDW \in K.G \cup {K.base}
      BY <1>1, <3>2, ReachedIn DEF Reached
    <3>4. /\ native[j].env \in Int /\ native[j].env <= K.X[native[L].dw].env
      BY <1>1, <2>2, <3>1, <3>2, EnvOrder
    <3>5. /\ native[L].env \in Int /\ native[L].env <= K.X[curDW].env /\ K.X[curDW].env \in Int
          /\ native[L].env = K.X[native[L].dw].env
      BY <1>1, <3>1, <3>2, <3>3, EnvOrder
    <3>6. env = K.X[curDW].env
      BY <1>2 DEF Same, Now
    <3> HIDE DEF L
    <3> QED
      BY <2>2, <3>4, <3>5, <3>6
  <2>5. Last(native) = native[L]
    BY DEF Last
  <2>6. Viewed(K)'
    BY <1>2, <1>3, <2>1, <2>3, StopView
  <2> QED
    BY <2>3, <2>4, <2>5, <2>6
<1>6. CASE ~(RunSyncDepth(env, native) > 0)
  <2>1. Apply(Raise, curDW)
    BY <1>6 DEF UserCompileError
  <2>2. call' # Bottom
    BY <2>1 DEF Apply, Closure, Bottom, Raise
  <2> QED
    BY <1>2, <1>3, <1>4, <2>1, <2>2, RaisingView
<1> QED
  BY <1>5, <1>6

-----------------------------------------------------------------------------
(* RunSync returns *)

\* K2 is K without its innermost nested call. What is left when there was only
\* one is the outermost loop, all of which K must account for.
Leaves(K, K2) ==
  /\ K2.W = K.W /\ K2.T = K.T /\ K2.lo = K.lo /\ K2.base = K.base
  /\ K2.P = K.P /\ K2.X = K.X /\ K2.G0 = K.G0
  /\ Len(K2.N) = Len(K.N) - 1 /\ \A j \in 1..(Len(K.N) - 1) : K2.N[j] = K.N[j]
  /\ K2.N = <<>> <=> Len(K.N) = 1
  /\ Len(K.N) = 1 => K.lo = 0 /\ K2.G = K.G0
  /\ Len(K.N) # 1 => K2.G = K.G

LEMMA LeftFacts ==
  ASSUME NEW K, NEW s, NEW c, TreeOf(K), Natives(K, s, c), K.N # <<>>,
         NEW K2, Leaves(K, K2), NEW m \in Nat, Len(K.W) \in Nat, Len(s) \in Nat
  PROVE  LET L == Len(K.N)
             r == K.N[L]
         IN /\ Agrees(K, K2, m) /\ Widens(K, K2, "outer")
            /\ L # 1 => Widens(K, K2, "inner") /\ LoopNow(K2) = "inner"
            /\ L = 1 => LoopNow(K2) = "outer"
            /\ Zone(K2, LoopNow(K2)) = Zone(K, IF L = 1 THEN "outer" ELSE "inner")
            /\ \A i \in Nat : i <= r.top => /\ Loop(K2, i) = Loop(K, i)
                                            /\ Widens(K, K2, Loop(K, i))
            /\ \A i \in Nat : r.top < i => Loop(K2, i) = LoopNow(K2)
            /\ Loop(K, r.top + 1) = LoopNow(K2)
<1> DEFINE L == Len(K.N)
           r == K.N[L]
<1>1. /\ L \in Nat /\ L # 0 /\ L \in 1..L /\ Nested(K, s, c, L)
      /\ \A j \in 1..L : j # L => j \in 1..(L - 1) /\ K.N[j].top < r.top
  BY LastLoop
<1>2. r.top \in Nat
  BY <1>1 DEF Nested
<1>3. /\ K2.W = K.W /\ K2.T = K.T /\ K2.lo = K.lo /\ K2.base = K.base
      /\ K2.P = K.P /\ K2.X = K.X /\ K2.G0 = K.G0
      /\ Len(K2.N) = L - 1 /\ (\A j \in 1..(L - 1) : K2.N[j] = K.N[j])
      /\ (K2.N = <<>> <=> L = 1)
      /\ (L = 1 => K.lo = 0 /\ K2.G = K.G0)
      /\ (L # 1 => K2.G = K.G)
  BY DEF Leaves
<1>4. \A j \in 1..L : K.N[j].top \in Nat
  BY DEF Natives, Nested
<1>5. Agrees(K, K2, m)
  BY <1>3 DEF Agrees, SameThunks
<1> HIDE DEF L, r
<1>6. Widens(K, K2, "outer") /\ Zone(K2, "outer") = Zone(K, "outer")
  BY <1>3 DEF Widens, Zone, Opened
<1>7. L # 1 => 1 \in 1..(L - 1) /\ 1 \in 1..L /\ K2.N[1] = K.N[1]
               /\ K.N[1].top < r.top /\ K.N[1].top \in Nat
  <2> SUFFICES ASSUME L # 1
               PROVE  1 \in 1..(L - 1) /\ 1 \in 1..L /\ K2.N[1] = K.N[1]
                      /\ K.N[1].top < r.top /\ K.N[1].top \in Nat
    OBVIOUS
  <2>1. 1 \in 1..(L - 1) /\ 1 \in 1..L /\ 1 # L
    BY <1>1
  <2> QED
    BY <1>1, <1>3, <1>4, <2>1
<1>8. L # 1 => Widens(K, K2, "inner") /\ LoopNow(K2) = "inner"
               /\ Zone(K2, "inner") = Zone(K, "inner")
  BY <1>3, <1>7 DEF Widens, Zone, Opened, LoopNow
<1>9. L = 1 => LoopNow(K2) = "outer"
  BY <1>3 DEF LoopNow
<1>10. Zone(K2, LoopNow(K2)) = Zone(K, IF L = 1 THEN "outer" ELSE "inner")
  BY <1>6, <1>8, <1>9
<1>11. ASSUME NEW i \in Nat, i <= r.top
       PROVE  Loop(K2, i) = Loop(K, i) /\ Widens(K, K2, Loop(K, i))
  <2>1. CASE L = 1
    <3>1. K2.N = <<>> /\ K.lo = 0 /\ r = K.N[1]
      BY <1>3, <2>1 DEF r
    <3>2. Loop(K2, i) = "outer" /\ Loop(K, i) = "outer"
      BY <1>2, <1>11, <3>1 DEF Loop
    <3> QED
      BY <1>6, <3>2
  <2>2. CASE L # 1
    <3>1. K2.N # <<>> /\ K2.N[1] = K.N[1] /\ K2.lo = K.lo
      BY <1>3, <1>7, <2>2
    <3>2. Loop(K2, i) = Loop(K, i)
      BY <3>1 DEF Loop
    <3>3. Loop(K, i) \in {"outer", "inner"}
      BY DEF Loop
    <3> QED
      BY <1>6, <1>8, <2>2, <3>2, <3>3
  <2> QED
    BY <2>1, <2>2
<1>12. ASSUME NEW i \in Nat, r.top < i PROVE Loop(K2, i) = LoopNow(K2)
  <2>1. CASE L = 1
    BY <1>3, <2>1 DEF Loop, LoopNow
  <2>2. CASE L # 1
    <3>1. K2.N # <<>> /\ K2.N[1].top \in Nat /\ K2.N[1].top < r.top
      BY <1>3, <1>7, <2>2
    <3>2. ~(i <= K2.N[1].top + 1)
      BY <1>2, <1>12, <3>1
    <3> QED
      BY <3>1, <3>2 DEF Loop, LoopNow
  <2> QED
    BY <2>1, <2>2
<1>13. Loop(K, r.top + 1) = LoopNow(K2)
  <2>1. CASE L = 1
    <3>1. K.lo = 0 /\ r.top + 1 <= K.N[1].top + 1
      BY <1>2, <1>3, <2>1 DEF r
    <3> QED
      BY <1>9, <2>1, <3>1 DEF Loop
  <2>2. CASE L # 1
    <3>1. ~(r.top + 1 <= K.N[1].top + 1)
      BY <1>2, <1>7, <2>2
    <3> QED
      BY <1>8, <2>2, <3>1 DEF Loop
  <2> QED
    BY <2>1, <2>2
<1> QED
  BY <1>5, <1>6, <1>8, <1>9, <1>10, <1>11, <1>12, <1>13 DEF L, r

LEMMA LeftTree ==
  ASSUME NEW K, NEW s, NEW c, TreeOf(K), Natives(K, s, c), K.N # <<>>,
         NEW K2, Leaves(K, K2), NEW m \in Nat, Len(K.W) \in Nat, Len(s) \in Nat,
         \A w \in 1..Len(K.W) : K.W[w].before \in SyncThunks(m) /\ K.W[w].after \in SyncThunks(m)
  PROVE  TreeOf(K2)
<1> DEFINE L == Len(K.N)
<1>1. /\ Agrees(K, K2, m) /\ Widens(K, K2, "outer") /\ (L # 1 => Widens(K, K2, "inner"))
  BY LeftFacts
<1>2. /\ K2.W = K.W /\ K2.base = K.base /\ K2.P = K.P /\ K2.X = K.X /\ K2.G0 = K.G0
      /\ (K2.N = <<>> => K2.G = K.G0)
      /\ (L = 1 => K2.G = K.G0) /\ (L # 1 => K2.G = K.G)
  BY DEF Leaves
<1>3. K.G \subseteq 1..Len(K.W) /\ K.G0 \subseteq K.G /\ K.base \in 0..Len(K.W)
      /\ K.base \notin K.G /\ K.P[K.base] = {K.base}
  BY DEF TreeOf
<1> HIDE DEF L
<1>4. K2.G \subseteq K.G /\ K2.G0 \subseteq K2.G
  BY <1>2, <1>3
<1>5. ASSUME NEW w \in K2.G PROVE WindingIn(K2, LoopOf(K2, w), w)
  <2>1. LoopOf(K2, w) = LoopOf(K, w) /\ (L = 1 => LoopOf(K, w) = "outer")
        /\ LoopOf(K, w) \in {"outer", "inner"}
    BY <1>2 DEF LoopOf
  <2>2. Widens(K, K2, LoopOf(K, w))
    BY <1>1, <2>1
  <2>3. w \in K.G /\ K.W[w].before \in SyncThunks(m) /\ K.W[w].after \in SyncThunks(m)
    BY <1>3, <1>4
  <2> QED
    BY <1>1, <2>1, <2>2, <2>3, WindingKept
<1>6. ASSUME NEW w \in K2.G \cup {K2.base}
      PROVE  /\ w \in K.P[w] /\ K.base \in K.P[w]
             /\ K.P[w] \subseteq K2.G \cup {K.base}
             /\ w \in K.G0 => K.P[w] \subseteq K.G0 \cup {K.base}
             /\ \A a \in K.P[w] : K.P[a] \subseteq K.P[w]
             /\ K.X[w].env \in Int
  <2>1. w \in K.G \cup {K.base}
    BY <1>2, <1>4
  <2>2. /\ w \in K.P[w] /\ K.base \in K.P[w] /\ K.P[w] \subseteq K.G \cup {K.base}
        /\ (w \in K.G0 => K.P[w] \subseteq K.G0 \cup {K.base})
        /\ (\A a \in K.P[w] : K.P[a] \subseteq K.P[w]) /\ K.X[w].env \in Int
    BY <2>1 DEF TreeOf
  <2>3. K.P[w] \subseteq K2.G \cup {K.base}
    BY <1>2, <1>3, <1>6, <2>2
  <2> QED
    BY <2>2, <2>3
<1> QED
  BY <1>2, <1>3, <1>4, <1>5, <1>6 DEF TreeOf

LEMMA LeftNatives ==
  ASSUME NEW K, NEW s, NEW c, TreeOf(K), Natives(K, s, c), K.N # <<>>,
         NEW K2, Leaves(K, K2), NEW m \in Nat, Len(K.W) \in Nat, Len(s) \in Nat, NEW c2
  PROVE  /\ Natives(K2, s, c2) /\ Reached(K2, K.N[Len(K.N)].dw)
         /\ \A w : Reached(K, w) /\ Len(K.N) # 1 => Reached(K2, w)
<1> DEFINE L == Len(K.N)
           r == K.N[L]
           N2 == K2.N
<1>1. /\ L \in Nat /\ L # 0 /\ L \in 1..L /\ Nested(K, s, c, L)
      /\ \A j \in 1..L : j # L => j \in 1..(L - 1) /\ K.N[j].top < r.top
      /\ \A j \in 1..L : K.N[j].dw \in K.P[r.dw]
      /\ \A j \in 1..L : Nested(K, s, c, j) /\ K.N[j].dw \in 0..Len(K.W)
  BY LastLoop, NestedIn DEF Natives
<1>2. /\ Agrees(K, K2, m) /\ Widens(K, K2, "outer") /\ (L # 1 => Widens(K, K2, "inner"))
      /\ (L # 1 => LoopNow(K2) = "inner") /\ (L = 1 => LoopNow(K2) = "outer")
      /\ Zone(K2, LoopNow(K2)) = Zone(K, IF L = 1 THEN "outer" ELSE "inner")
  BY LeftFacts
<1>3. /\ Len(N2) = L - 1 /\ (\A j \in 1..(L - 1) : N2[j] = K.N[j])
      /\ (N2 = <<>> <=> L = 1) /\ (L = 1 => K.lo = 0)
      /\ K2.lo = K.lo /\ K2.base = K.base /\ K2.X = K.X /\ K2.P = K.P /\ K2.G0 = K.G0
  BY DEF Leaves
<1>4. r.top \in Nat /\ r.top <= Len(s)
  BY <1>1 DEF Nested
<1> HIDE DEF L, r, N2
<1>5. ASSUME NEW j \in 1..(L - 1) PROVE Nested(K2, s, c2, j)
  <2>1. j \in 1..L /\ L # 1 /\ j # L /\ N2[j] = K.N[j] /\ K.N[j].top < r.top
    <3>1. j \in 1..L /\ L # 1 /\ j # L
      BY <1>1
    <3> QED
      BY <1>1, <1>3, <3>1
  <2>2. Nested(K, s, c, j) /\ K.N[j].dw \in 0..Len(K.W)
    BY <1>1, <2>1
  <2> DEFINE q == K.N[j]
             l == IF j = 1 /\ K.lo = 0 THEN "outer" ELSE "inner"
  <2>3. /\ q.top \in Nat /\ q.top <= Len(s)
        /\ (q.top < Len(s) => s[q.top + 1] = Closure([fn |-> "Break"], q.dw))
        /\ (\A i \in 1..(j - 1) : K.N[i].top < q.top /\ K.N[i].dw \in K.P[q.dw])
        /\ q.dw \in Zone(K, l) /\ q.env = K.X[q.dw].env
        /\ (j = 1 => (K.lo = 0 => NoCatch(q.handlers) /\ q.handlers = K.X[q.dw].hs))
        /\ (j # 1 => EndsInCatch(q.handlers))
    BY <2>2 DEF Nested
  <2>4. q.top # Len(s)
    BY <1>4, <2>1, <2>3
  <2>5. q.dw \in Zone(K2, l)
    <3>1. Widens(K, K2, l)
      BY <1>2, <2>1
    <3> QED
      BY <2>3, <3>1 DEF Widens
  <2>6. \A i \in 1..(j - 1) : N2[i] = K.N[i]
    <3>1. \A i \in 1..(j - 1) : i \in 1..(L - 1)
      BY <1>1
    <3> QED
      BY <1>3, <3>1
  <2>7. N2[j] = q
    BY <2>1
  <2> HIDE DEF q
  <2>8. \A i \in 1..(j - 1) : N2[i].top < q.top /\ N2[i].dw \in K.P[q.dw]
    BY <2>3, <2>6
  <2>9. q.dw \in Zone(K2, IF j = 1 /\ K2.lo = 0 THEN "outer" ELSE "inner")
    BY <1>3, <2>5
  <2> QED
    BY <1>3, <2>3, <2>4, <2>7, <2>8, <2>9 DEF Nested, N2
<1>6. Natives(K2, s, c2)
  <2>1. Len(N2) \in Nat /\ (N2 = <<>> <=> Len(N2) = 0)
    BY <1>1, <1>3
  <2>2. \/ K.lo = 0 /\ K.base = 0 /\ K.X[0] = Base
        \/ K.lo = K.N[1].top + 1 /\ K.base = K.N[1].dw /\ K.G0 = {} /\ K.lo # 0
    <3>1. K.N[1].top \in Nat
      <4>1. 1 \in 1..L
        BY <1>1
      <4> QED
        BY <1>1, <4>1 DEF Nested
    <3> QED
      BY <3>1 DEF Natives
  <2>3. K.lo # 0 => N2 # <<>> /\ N2[1] = K.N[1]
    <3> SUFFICES ASSUME K.lo # 0 PROVE N2 # <<>> /\ N2[1] = K.N[1]
      OBVIOUS
    <3>1. L # 1 /\ 1 \in 1..(L - 1)
      BY <1>1, <1>3
    <3> QED
      BY <1>3, <3>1
  <2>4. \A j \in 1..Len(N2) : Nested(K2, s, c2, j)
    BY <1>3, <1>5
  <2>5. \/ K2.lo = 0 /\ K2.base = 0 /\ K2.X[0] = Base
        \/ N2 # <<>> /\ K2.lo = N2[1].top + 1 /\ K2.base = N2[1].dw /\ K2.G0 = {}
    BY <1>3, <2>2, <2>3
  <2> QED
    BY <2>1, <2>4, <2>5 DEF Natives, N2
<1>7. Reached(K2, r.dw)
  <2>1. r.dw \in Zone(K, IF L = 1 THEN "outer" ELSE "inner")
    BY <1>1, <1>3 DEF Nested, r
  <2>2. \A j \in 1..(L - 1) : N2[j].dw \in K2.P[r.dw]
    BY <1>1, <1>3
  <2> QED
    BY <1>2, <1>3, <2>1, <2>2 DEF Reached, N2
<1>8. ASSUME NEW w, Reached(K, w), L # 1 PROVE Reached(K2, w)
  <2>1. LoopNow(K) = "inner"
    BY DEF LoopNow
  <2>2. w \in Zone(K, "inner") /\ \A j \in 1..L : K.N[j].dw \in K.P[w]
    BY <1>8, <2>1 DEF Reached, L
  <2>3. \A j \in 1..(L - 1) : N2[j].dw \in K2.P[w]
    BY <1>1, <1>3, <2>2
  <2> QED
    BY <1>2, <1>3, <1>8, <2>2, <2>3 DEF Reached, N2
<1> QED
  BY <1>6, <1>7, <1>8 DEF L, r

LEMMA LeftLoops ==
  ASSUME NEW K, NEW s, NEW c, TreeOf(K), Natives(K, s, c), K.N # <<>>, NEW K2, Leaves(K, K2),
         NEW i \in Nat, i <= K.N[Len(K.N)].top, NEW f, f.run.fn # "Bottom", Loops(K, i, f)
  PROVE  Loops(K2, i, f)
<1> DEFINE L == Len(K.N)
           r == K.N[L]
<1>1. /\ L \in Nat /\ L # 0 /\ L \in 1..L /\ r.top \in Nat
      /\ \A j \in 1..L : j # L => j \in 1..(L - 1)
  BY LastLoop DEF Nested
<1>2. Len(K2.N) = L - 1 /\ (\A j \in 1..(L - 1) : K2.N[j] = K.N[j]) /\ K2.P = K.P
  BY DEF Leaves
<1>3. \A j \in 1..(L - 1) : j \in 1..L
  BY <1>1
<1>4. ASSUME NEW w, Within(K, i, w) PROVE Within(K2, i, w)
  BY <1>2, <1>3, <1>4 DEF Within
<1>5. ASSUME f.run.fn = "Catch"
      PROVE  \E j \in 1..(L - 1) : K2.N[j].dw = f.at /\ K2.N[j].top < i
                                   /\ \A k \in (j + 1)..(L - 1) : i <= K2.N[k].top
  <2>1. PICK j \in 1..L : /\ K.N[j].dw = f.at /\ K.N[j].top < i
                          /\ \A k \in (j + 1)..L : i <= K.N[k].top
    BY <1>5 DEF Loops
  <2>2. j # L
    BY <1>1, <2>1
  <2>3. j \in 1..(L - 1)
    BY <1>1, <2>2
  <2> HIDE DEF L, r
  <2>4. \A k \in (j + 1)..(L - 1) : k \in (j + 1)..L /\ k \in 1..(L - 1)
    BY <1>1, <2>3
  <2>5. \A k \in (j + 1)..(L - 1) : i <= K2.N[k].top
    BY <1>2, <2>1, <2>4
  <2> QED
    BY <1>2, <2>1, <2>3, <2>5
<1>6. ASSUME f.run.fn = "Break"
      PROVE  \E j \in 1..(L - 1) : K2.N[j].dw = f.at /\ i = K2.N[j].top + 1
  <2>1. PICK j \in 1..L : K.N[j].dw = f.at /\ i = K.N[j].top + 1
    BY <1>6 DEF Loops
  <2>2. j # L
    BY <1>1, <2>1
  <2>3. j \in 1..(L - 1)
    BY <1>1, <2>2
  <2> QED
    BY <1>2, <2>1, <2>3
<1>7. Within(K, i, f.at) /\ Within(K, i, LeadsTo(f))
  BY DEF Loops
<1> QED
  BY <1>2, <1>4, <1>5, <1>6, <1>7 DEF Loops

\* The frames below PushBreak's are those of the loops that go on.
LEMMA LeftChained ==
  ASSUME NEW K, NEW m \in Nat, Len(K.W) \in Nat, NEW s \in Seq(SyncFrames(Len(K.W), m)), NEW c,
         TreeOf(K), Natives(K, s, c), Chained(K, s, c), ~Final(c.run),
         K.N # <<>>, K.N[Len(K.N)].top = Len(s), NEW K2, Leaves(K, K2), NEW c2
  PROVE  Chained(K2, s, c2)
<1> DEFINE k == Len(s)
<1>1. k \in Nat
  BY LenProperties
<1>2. /\ Agrees(K, K2, m) /\ K2.lo = K.lo
      /\ \A i \in Nat : i <= k => Loop(K2, i) = Loop(K, i) /\ Widens(K, K2, Loop(K, i))
  BY <1>1, LeftFacts DEF Leaves
<1> SUFFICES ASSUME NEW i \in 1..k, i >= K2.lo
             PROVE  (Frame(K2, i, s[i]) /\ Hands(K2, i, s[i], Below(s, i))) \/ Dead(s, i, c2)
  BY DEF Chained
<1> DEFINE f == s[i]
           g == Below(s, i)
<1>3. /\ f.run \in SyncPending(Len(K.W), m) /\ g.run \in SyncPending(Len(K.W), m)
      /\ f.run.fn # "Bottom"
  BY FramesPending
<1>4. i \in Nat /\ i <= k /\ i >= K.lo
  BY <1>1, <1>2
<1>5. (Frame(K, i, f) /\ Hands(K, i, f, g)) \/ Dead(s, i, c)
  BY <1>4 DEF Chained
<1> HIDE DEF f, g
<1>6. Dead(s, i, c) => Dead(s, i, c2)
  BY DEF Dead
<1>7. ASSUME Frame(K, i, f), Hands(K, i, f, g)
      PROVE  Frame(K2, i, f) /\ Hands(K2, i, f, g)
  <2> DEFINE l == Loop(K, i)
  <2>1. Loop(K2, i) = l /\ Widens(K, K2, l)
    BY <1>2, <1>4
  <2>2. Zone(K, l) \subseteq 0..Len(K.W) /\ Opened(K, l) \subseteq 1..Len(K.W)
    BY ZonesIn
  <2>3. Body(K, l, f) /\ Loops(K, i, f)
    BY <1>7 DEF Frame
  <2> HIDE DEF l
  <2>4. Body(K2, l, f)
    BY <1>2, <1>3, <2>1, <2>2, <2>3, BodyKept
  <2>5. Loops(K2, i, f)
    BY <1>3, <1>4, <2>3, LeftLoops
  <2>6. Hands(K2, i, f, g)
    BY <1>2, <1>3, <1>7, <2>1, <2>2, <2>3, HandsKept DEF l
  <2> QED
    BY <2>1, <2>4, <2>5, <2>6 DEF Frame
<1> QED
  BY <1>5, <1>6, <1>7 DEF f, g

\* A loop that RunSync leaves, with what is left when it has returned.
LEMMA LeavesLoop ==
  ASSUME NEW K, SyncTypes, Viewed(K), Returning, NEW c2, ReturnFromSync(c2),
         native' # <<>> \/ ~passed', ~passed' => ~passed
  PROVE  /\ \E K2 : Leaves(K, K2) /\ K2.N = native'
         /\ K.N = native /\ K.W = winds /\ K.T = T0 /\ K.N # <<>>
         /\ Last(native) = K.N[Len(K.N)] /\ TreeOf(K) /\ Natives(K, stack, Coming)
         /\ Sound(K, stack, Coming, Now) /\ Coming.at = curDW
         /\ native' = <<>> <=> Len(K.N) = 1
         /\ Len(K.N) = 1 => K.lo = 0
<1> DEFINE L == Len(K.N)
<1>1. /\ K.N = native /\ K.W = winds /\ K.T = T0 /\ K.N # <<>> /\ (~passed => K.lo = 0)
      /\ TreeOf(K) /\ Natives(K, stack, Coming) /\ Sound(K, stack, Coming, Now)
      /\ Coming.at = curDW
  BY DEF Viewed, Returning, Sound
<1>2. native \in Seq(SyncLocals(n0, m0)) /\ native' = Front(native)
  BY Typed DEF ReturnFromSync
<1>3. /\ L \in Nat \ {0} /\ Last(native) = K.N[L]
      /\ Front(native) \in Seq(SyncLocals(n0, m0)) /\ Len(Front(native)) = L - 1
      /\ \A j \in 1..(L - 1) : Front(native)[j] = K.N[j]
  BY <1>1, <1>2, FrontOf
<1>4. native' = <<>> <=> L = 1
  <2>1. native' = <<>> <=> Len(Front(native)) = 0
    BY <1>2, <1>3, EmptySeq
  <2> QED
    BY <1>3, <2>1
<1>5. L = 1 => K.lo = 0
  BY <1>1, <1>4
<1>6. PICK K2 : K2 = [W |-> K.W, T |-> K.T, N |-> native', lo |-> K.lo, base |-> K.base,
                      G |-> IF L = 1 THEN K.G0 ELSE K.G, G0 |-> K.G0, P |-> K.P, X |-> K.X]
  OBVIOUS
<1>7. /\ K2.W = K.W /\ K2.T = K.T /\ K2.N = native' /\ K2.lo = K.lo /\ K2.base = K.base
      /\ K2.G = (IF L = 1 THEN K.G0 ELSE K.G) /\ K2.G0 = K.G0 /\ K2.P = K.P /\ K2.X = K.X
  BY <1>6
<1> HIDE DEF L
<1>8. K2.N = Front(native)
  BY <1>2, <1>7
<1>9. Leaves(K, K2)
  <2>1. L = 1 => K2.G = K.G0
    BY <1>7
  <2>2. L # 1 => K2.G = K.G
    BY <1>7
  <2>3. K2.N = <<>> <=> L = 1
    BY <1>4, <1>7
  <2>4. Len(K2.N) = L - 1 /\ \A j \in 1..(L - 1) : K2.N[j] = K.N[j]
    BY <1>3, <1>8
  <2> QED
    BY <1>5, <1>7, <2>1, <2>2, <2>3, <2>4 DEF Leaves, L
<1> QED
  BY <1>1, <1>3, <1>4, <1>5, <1>7, <1>9 DEF L

\* The handlers and the environment a nested call kept are those of its caller.
LEMMA KeptContext ==
  ASSUME NEW K, NEW s, NEW c, TreeOf(K), Natives(K, s, c), K.N # <<>>,
         NEW K2, Leaves(K, K2), Len(K.W) \in Nat, Len(s) \in Nat
  PROVE  LET r == K.N[Len(K.N)]
         IN /\ Suits(LoopNow(K2), r.handlers) /\ r.env = K2.X[r.dw].env
            /\ \A x : x.env = r.env /\ x.hs = r.handlers => Same(LoopNow(K2), x, K2.X[r.dw])
<1> DEFINE L == Len(K.N)
           r == K.N[L]
<1>1. L \in Nat /\ L # 0 /\ Nested(K, s, c, L)
  BY LastLoop
<1>2. (L # 1 => LoopNow(K2) = "inner") /\ (L = 1 => LoopNow(K2) = "outer")
  BY LeftFacts, LeftFacts DEF Leaves, LoopNow
<1>3. K2.X = K.X /\ (L = 1 => K.lo = 0)
  BY DEF Leaves
<1>4. /\ r.env = K.X[r.dw].env
      /\ (L = 1 => NoCatch(r.handlers) /\ r.handlers = K.X[r.dw].hs)
      /\ (L # 1 => EndsInCatch(r.handlers))
  BY <1>1, <1>3 DEF Nested
<1> HIDE DEF L, r
<1>5. Suits(LoopNow(K2), r.handlers)
  BY <1>2, <1>4 DEF Suits
<1>6. ASSUME NEW x, x.env = r.env, x.hs = r.handlers PROVE Same(LoopNow(K2), x, K2.X[r.dw])
  BY <1>2, <1>3, <1>4, <1>6 DEF Same
<1> QED
  BY <1>3, <1>4, <1>5, <1>6 DEF L, r

\* A simple procedure where control may be is a frame.
LEMMA ReachedFrame ==
  ASSUME NEW K, NEW i, NEW p, Simple(p), ~Changes(p), NEW d, Reached(K, d),
         Loop(K, i) = LoopNow(K)
  PROVE  Frame(K, i, Closure(p, d))
<1> DEFINE f == Closure(p, d)
<1>1. InstallsFor(LoopNow(K), p)
  BY DEF InstallsFor, Changes
<1>2. d \in Zone(K, LoopNow(K)) /\ Within(K, i, d)
  BY DEF Reached, Within
<1>3. Body(K, LoopNow(K), f)
  BY <1>1, <1>2, SimpleBody
<1>4. f.run = p /\ f.at = d /\ LeadsTo(f) = d
  BY SimpleNeeds
<1>5. p.fn \notin {"Catch", "Break", "Bottom"}
  BY DEF Simple
<1> HIDE DEF f
<1>6. Loops(K, i, f)
  BY <1>2, <1>4, <1>5 DEF Loops
<1> QED
  BY <1>3, <1>6 DEF Frame, f

LEMMA SyncResultView ==
  ASSUME NEW K, SyncTypes, Viewed(K), SyncResult, env = Last(native).env,
         curDW = Last(native).dw, native' # <<>> \/ ~passed', ~passed' => ~passed
  PROVE  \E K2 : Viewed(K2)'
<1> DEFINE L == Len(K.N)
           r == K.N[L]
           d == curDW
           p == User("main")
           c2 == Closure(p, d)
           c == Closure([fn |-> "Break"], r.dw)
           k == Len(stack)
           t == Top(stack)
<1>1. Returning /\ ReturnFromSync(c2) /\ caught = "none"
  BY DEF SyncResult, Returning, ReturnFromSync
<1>2. /\ \E K2 : Leaves(K, K2) /\ K2.N = native'
      /\ K.N = native /\ K.W = winds /\ K.T = T0 /\ K.N # <<>> /\ Last(native) = r
      /\ TreeOf(K) /\ Natives(K, stack, Coming) /\ Sound(K, stack, Coming, Now)
      /\ (native' = <<>> <=> L = 1) /\ (L = 1 => K.lo = 0)
  BY <1>1, LeavesLoop
<1>3. Coming = c
  BY <1>1, <1>2 DEF Coming, Returning
<1> HIDE DEF Coming
<1>4. PICK K2 : Leaves(K, K2) /\ K2.N = native'
  BY <1>2
<1>5. /\ n0 \in Nat /\ m0 \in Nat /\ stack \in Seq(SyncFrames(n0, m0)) /\ k \in Nat
      /\ Len(K.W) = n0
  BY <1>2, Typed DEF n0
<1>6. /\ K2.W = K.W /\ K2.T = K.T /\ K2.lo = K.lo /\ K2.X = K.X
  BY <1>4 DEF Leaves
<1>7. /\ c.run.fn = "Break" /\ ~Final(c.run)
  BY DEF Closure, Final, FailsOnReturn
<1>8. c2.run = p /\ c2.at = d /\ LeadsTo(c2) = d /\ p.fn = "User"
  BY DEF Closure, LeadsTo, User
<1>9. ThunksOf(objs') = T0 /\ call' = c2 /\ Now'.hs = r.handlers /\ Now'.env = env
      /\ UNCHANGED <<stack, curDW, winds>>
  BY <1>1, <1>2 DEF ReturnFromSync, T0, Now
<1> HIDE DEF c, c2, p
<1>10. /\ Sound(K, stack, c, Now) /\ Natives(K, stack, c) /\ TreeOf(K) /\ Chained(K, stack, c)
  BY <1>2, <1>3 DEF Sound
<1>11. /\ r.top = k
       /\ ~(k + 1 <= K.lo) => r.dw = t.at /\ Same(Loop(K, k + 1), K.X[r.dw], Needs(t, K.X, K.T))
  BY <1>5, <1>7, <1>10, LoopEnds
<1>12. d = r.dw /\ env = r.env
  BY <1>2
<1>13. TreeOf(K2)
  <2>1. \A w \in 1..Len(K.W) : K.W[w].before \in SyncThunks(m0) /\ K.W[w].after \in SyncThunks(m0)
    BY <1>2, <1>5, WindsTyped
  <2> QED
    BY <1>2, <1>4, <1>5, <1>10, <2>1, LeftTree
<1>14. Natives(K2, stack, c2) /\ Reached(K2, d)
  BY <1>2, <1>4, <1>5, <1>10, <1>12, LeftNatives
<1>15. Chained(K2, stack, c2)
  <2>1. stack \in Seq(SyncFrames(Len(K.W), m0)) /\ Len(K.W) \in Nat
    BY <1>5
  <2> QED
    BY <1>2, <1>4, <1>5, <1>7, <1>10, <1>11, <2>1, LeftChained
<1>16. Loop(K2, k + 1) = LoopNow(K2) /\ Loop(K, k + 1) = LoopNow(K2)
  <2>1. /\ \A i \in Nat : r.top < i => Loop(K2, i) = LoopNow(K2)
        /\ Loop(K, r.top + 1) = LoopNow(K2)
    BY <1>2, <1>4, <1>5, <1>10, LeftFacts
  <2>2. k + 1 \in Nat /\ k < k + 1
    BY <1>5
  <2> HIDE DEF k, r
  <2> QED
    BY <1>11, <2>1, <2>2
<1>17. Suits(LoopNow(K2), r.handlers) /\ Same(LoopNow(K2), Now', K2.X[d])
  <2>1. Len(K.W) \in Nat
    BY <1>5
  <2>2. /\ Suits(LoopNow(K2), r.handlers)
        /\ \A x : x.env = r.env /\ x.hs = r.handlers => Same(LoopNow(K2), x, K2.X[r.dw])
    BY <1>2, <1>4, <1>5, <1>10, <2>1, KeptContext
  <2>3. Now'.env = r.env /\ Now'.hs = r.handlers
    BY <1>9, <1>12
  <2> HIDE DEF r, L
  <2> QED
    BY <1>12, <2>2, <2>3
<1>18. Simple(p) /\ ~Changes(p) /\ p.fn # "ErrorThunk"
  BY <1>8 DEF Simple, Changes
<1>19. Frame(K2, k + 1, c2)
  <2>1. Frame(K2, k + 1, Closure(p, d))
    BY <1>14, <1>16, <1>18, ReachedFrame
  <2> QED
    BY <2>1 DEF c2
<1> HIDE DEF k, t, r, L, d
<1>20. Hands(K2, k + 1, c2, t)
  BY <1>6, <1>8, <1>11, <1>12, <1>16 DEF Hands
<1>21. CallIn(K2, k + 1, c2, t, Now')
  <2>1. Needs(c2, K2.X, K2.T) = K2.X[d]
    BY <1>8 DEF Needs
  <2>2. c2.run.fn \notin {"SafeBefore", "SafeAfter", "ErrorThunk"}
    BY <1>8
  <2> QED
    BY <1>8, <1>17, <1>18, <1>19, <1>20, <2>1, <2>2 DEF CallIn
<1>22. Sound(K2, stack, c2, Now')
  BY <1>9, <1>13, <1>14, <1>15, <1>17, <1>21 DEF Sound, k, t
<1>23. /\ K2.W = winds' /\ K2.T = ThunksOf(objs') /\ K2.N = native'
       /\ Sound(K2, stack', call', Now') /\ call'.at = curDW'
  <2>1. Sound(K2, stack', call', Now')
    BY <1>9, <1>22
  <2>2. call'.at = curDW'
    BY <1>8, <1>9 DEF d
  <2> QED
    BY <1>2, <1>4, <1>6, <1>9, <2>1, <2>2
<1>24. ~passed' => K2.lo = 0
  BY <1>6 DEF Viewed
<1> QED
  BY <1>23, <1>24, NewView

\* RunSync hands an error on, to the loop it was called in or to the RunSync
\* around it.
LEMMA SyncErrorView ==
  ASSUME NEW K, SyncTypes, Viewed(K), Returning, caught # "none", NEW c2, ReturnFromSync(c2),
         env = Last(native).env, caught # "passed" => curDW = Last(native).dw,
         caught # "passed" \/ native' # <<>>, native' # <<>> \/ ~passed', ~passed' => ~passed,
         c2 = Closure(Raise, curDW) \/ (c2 = Bottom /\ native' # <<>> /\ caught' # "none")
  PROVE  \E K2 : Viewed(K2)'
<1> DEFINE L == Len(K.N)
           r == K.N[L]
           d == curDW
           p == Raise
           c == Closure(p, d)
           k == Len(stack)
           t == Top(stack)
<1>2. /\ \E K2 : Leaves(K, K2) /\ K2.N = native'
      /\ K.N = native /\ K.W = winds /\ K.T = T0 /\ K.N # <<>> /\ Last(native) = r
      /\ TreeOf(K) /\ Natives(K, stack, Coming) /\ Sound(K, stack, Coming, Now)
      /\ (native' = <<>> <=> L = 1) /\ (L = 1 => K.lo = 0)
  BY LeavesLoop
<1>3. Coming = c
  BY DEF Coming, Returning
<1>4. PICK K2 : Leaves(K, K2) /\ K2.N = native'
  BY <1>2
<1>5. /\ n0 \in Nat /\ m0 \in Nat /\ stack \in Seq(SyncFrames(n0, m0)) /\ k \in Nat
      /\ Len(K.W) = n0
  BY <1>2, Typed DEF n0
<1>6. /\ K2.W = K.W /\ K2.T = K.T /\ K2.lo = K.lo /\ K2.X = K.X
  BY <1>4 DEF Leaves
<1>7. c.run = p /\ c.at = d /\ LeadsTo(c) = d /\ p.fn = "Raise"
  BY DEF Closure, LeadsTo, Raise
<1>8. Simple(p) /\ ~Changes(p) /\ p.fn # "ErrorThunk" /\ Final(p)
  BY <1>7 DEF Simple, Changes, Final
<1>9. ThunksOf(objs') = T0 /\ call' = c2 /\ Now'.hs = r.handlers /\ Now'.env = env
      /\ UNCHANGED <<stack, curDW, winds>>
  BY <1>2 DEF ReturnFromSync, T0, Now
<1>10. Coming' = c
  <2>1. CASE c2 = c
    <3>1. call' = c
      BY <1>9, <2>1
    <3>2. ~Halted'
      BY <3>1 DEF Halted, Calling, Closure, Raise
    <3> QED
      BY <3>1, <3>2 DEF Coming
  <2>2. CASE c2 = Bottom /\ native' # <<>> /\ caught' # "none"
    <3>1. Halted'
      BY <1>9, <2>2 DEF Halted, Calling, Bottom, Closure
    <3> QED
      BY <1>9, <2>2, <3>1 DEF Coming
  <2> QED
    BY <2>1, <2>2
<1> HIDE DEF Coming, c, p
<1>11. /\ Sound(K, stack, c, Now) /\ Natives(K, stack, c) /\ TreeOf(K)
  BY <1>2, <1>3
<1>12. Reached(K, d) /\ Same(LoopNow(K), Now, K.X[d])
  <2>1. c.run.fn # "Break" /\ ~Changes(c.run) /\ c.run.fn # "WindBody"
    BY <1>7, <1>8
  <2>2. Reached(K, c.at)
    BY <1>5, <1>11, <2>1, SoundFacts
  <2>3. Same(LoopNow(K), Now, K.X[c.at])
    BY <1>5, <1>11, <2>1, QuietFacts
  <2> QED
    BY <1>7, <2>2, <2>3
<1>13. TreeOf(K2)
  <2>1. \A w \in 1..Len(K.W) : K.W[w].before \in SyncThunks(m0) /\ K.W[w].after \in SyncThunks(m0)
    BY <1>2, <1>5, WindsTyped
  <2> QED
    BY <1>2, <1>4, <1>5, <1>11, <2>1, LeftTree
<1>14. /\ Natives(K2, stack, c) /\ Reached(K2, r.dw)
       /\ \A w : Reached(K, w) /\ L # 1 => Reached(K2, w)
  BY <1>2, <1>4, <1>5, <1>11, LeftNatives
<1>15. L = 1 => d = r.dw
  BY <1>2
<1>16. Reached(K2, d)
  <2>1. CASE L = 1
    BY <1>14, <1>15, <2>1
  <2>2. CASE L # 1
    BY <1>12, <1>14, <2>2
  <2> QED
    BY <2>1, <2>2
<1>17. Chained(K2, stack, c)
  <2>1. Final(c.run)
    BY <1>7, <1>8
  <2> QED
    BY <2>1 DEF Chained, Dead
<1>18. /\ Loop(K2, k + 1) = LoopNow(K2)
       /\ (L # 1 => LoopNow(K2) = "inner")
  <2>1. /\ \A i \in Nat : r.top < i => Loop(K2, i) = LoopNow(K2)
        /\ (L # 1 => LoopNow(K2) = "inner")
    BY <1>2, <1>4, <1>5, <1>11, LeftFacts
  <2>2. r.top \in Nat /\ r.top <= k
    BY <1>2, <1>11, LastLoop DEF Nested
  <2> HIDE DEF k, r
  <2>3. k + 1 \in Nat /\ r.top < k + 1
    BY <1>5, <2>2
  <2> QED
    BY <2>1, <2>3
<1>19. Suits(LoopNow(K2), r.handlers) /\ Same(LoopNow(K2), Now', K2.X[d])
  <2>1. Len(K.W) \in Nat
    BY <1>5
  <2>2. /\ Suits(LoopNow(K2), r.handlers)
        /\ \A x : x.env = r.env /\ x.hs = r.handlers => Same(LoopNow(K2), x, K2.X[r.dw])
    BY <1>2, <1>4, <1>5, <1>11, <2>1, KeptContext
  <2>3. Now'.env = r.env /\ Now'.hs = r.handlers /\ Now'.env = env
    BY <1>2, <1>9
  <2>4. CASE L = 1
    BY <1>15, <2>2, <2>3, <2>4
  <2>5. CASE L # 1
    <3>1. env = K.X[d].env
      BY <1>12 DEF Same, Now
    <3>2. LoopNow(K2) = "inner" /\ Now'.env = K2.X[d].env
      BY <1>6, <1>18, <2>3, <2>5, <3>1
    <3> HIDE DEF r, L, d
    <3> QED
      BY <2>2, <3>2 DEF Same
  <2> QED
    BY <2>4, <2>5
<1>20. Frame(K2, k + 1, c)
  <2>1. Frame(K2, k + 1, Closure(p, d))
    BY <1>8, <1>16, <1>18, ReachedFrame
  <2> QED
    BY <2>1 DEF c
<1> HIDE DEF k, t, r, L, d
<1>21. CallIn(K2, k + 1, c, t, Now')
  <2>1. Needs(c, K2.X, K2.T) = K2.X[d]
    BY <1>7 DEF Needs
  <2>2. c.run.fn \notin {"SafeBefore", "SafeAfter", "ErrorThunk"}
    BY <1>7
  <2>3. Hands(K2, k + 1, c, t)
    BY <1>7, <1>8 DEF Hands
  <2> QED
    BY <1>7, <1>8, <1>19, <1>20, <2>1, <2>2, <2>3 DEF CallIn
<1>22. Sound(K2, stack, c, Now')
  BY <1>9, <1>13, <1>14, <1>17, <1>19, <1>21 DEF Sound, k, t
<1>23. (~passed' => K2.lo = 0) /\ K2.W = winds' /\ K2.T = T0' /\ K2.N = native'
  BY <1>2, <1>4, <1>6, <1>9 DEF Viewed, T0
<1>24. Sound(K2, stack, Coming, Now)' <=> Sound(K2, stack, c, Now')
  BY <1>9, <1>10
<1>25. Coming'.at = curDW'
  BY <1>7, <1>9, <1>10 DEF d
<1> QED
  BY <1>22, <1>23, <1>24, <1>25 DEF Viewed

-----------------------------------------------------------------------------
(* The outermost loop is entered *)

LEMMA HostView ==
  ASSUME NEW K, SyncTypes, Viewed(K), native = <<>>, HostCall, UNCHANGED native,
         ~passed' => ~passed
  PROVE  Viewed(K)'
<1> DEFINE p == User("main")
           d == curDW
           l == LoopNow(K)
           k == Len(stack)
           t == Top(stack)
<1>1. call.run.fn = "Bottom"
  BY DEF HostCall, Halted, Calling
<1>2. Coming = call
  BY DEF Coming
<1>3. /\ Sound(K, stack, call, Now) /\ call.at = d /\ K.N = native
      /\ K.W = winds /\ K.T = T0 /\ (~passed => K.lo = 0)
  BY <1>2 DEF Viewed
<1>4. stack \in Seq(SyncFrames(n0, m0)) /\ k \in Nat
  BY Typed
<1>5. call.run.fn # "Break" /\ ~Final(call.run) /\ ~Changes(call.run) /\ LeadsTo(call) = d
  BY <1>1, <1>3 DEF Final, FailsOnReturn, Changes, LeadsTo
<1>6. d = 0 /\ stack = <<>>
  <2>1. Loops(K, k + 1, call)
    BY <1>3 DEF Sound, CallIn, Frame
  <2>2. call.at = 0 /\ k + 1 = 1
    BY <1>1, <2>1 DEF Loops
  <2> QED
    BY <1>3, <1>4, <2>2, EmptySeq
<1>7. t.at = d /\ Needs(t, K.X, K.T) = K.X[d]
  BY <1>6 DEF Top, Bottom, Closure, Needs
<1>8. Reached(K, d) /\ Suits(l, Now.hs)
  BY <1>3, <1>4, <1>5, SoundFacts DEF Sound
<1>9. Same(l, Now, K.X[d])
  BY <1>1, <1>3, <1>4, <1>5, QuietFacts
<1>10. p.fn = "User"
  BY DEF User
<1> HIDE DEF p, l, t
<1>11. Simple(p) /\ ~Changes(p) /\ p.fn # "ErrorThunk"
  BY <1>10 DEF Simple, Changes
<1>12. Same(LoopNow(K), K.X[d], Needs(t, K.X, K.T)) /\ Same(LoopNow(K), Now, K.X[d])
  BY <1>7, <1>9, SameIs DEF l
<1>13. CallIn(K, k + 1, Closure(p, d), t, Now)
  BY <1>3, <1>4, <1>5, <1>7, <1>8, <1>11, <1>12, QuietCall
<1> DEFINE c2 == Closure(p, d)
<1>14. Sound(K, stack, c2, Now)
  <2>1. Suits(LoopNow(K), Now.hs)
    BY <1>8 DEF l
  <2> HIDE DEF c2
  <2>2. CallIn(K, Len(stack) + 1, c2, Top(stack), Now)
    BY <1>13 DEF c2, t
  <2> QED
    BY <1>3, <1>4, <1>5, <2>1, <2>2, CallSound
<1>15. /\ call' = c2 /\ UNCHANGED <<stack, curDW, winds>> /\ ThunksOf(objs') = T0
       /\ Now' = Now /\ c2.at = curDW
  BY DEF HostCall, Apply, T0, Now, p, Closure
<1> HIDE DEF c2
<1>16. /\ K.W = winds' /\ K.T = ThunksOf(objs') /\ K.N = native' /\ (~passed' => K.lo = 0)
       /\ Sound(K, stack', call', Now') /\ call'.at = curDW'
  BY <1>3, <1>14, <1>15
<1> QED
  BY <1>16, NewView

-----------------------------------------------------------------------------
(* A nested loop is entered *)

\* K2 is K with one more nested call, made at d.
Enters(K, K2, s, d, r) ==
  /\ K2.W = K.W /\ K2.T = K.T /\ K2.lo = K.lo /\ K2.base = K.base
  /\ K2.P = K.P /\ K2.X = K.X /\ K2.G = K.G /\ K2.G0 = K.G0
  /\ Len(K2.N) = Len(K.N) + 1 /\ (\A j \in 1..Len(K.N) : K2.N[j] = K.N[j])
  /\ K2.N[Len(K.N) + 1] = r /\ K2.N # <<>>
  /\ r.top = Len(s) /\ r.dw = d

LEMMA EnteredFacts ==
  ASSUME NEW K, NEW S, NEW s \in Seq(S), NEW c, NEW x, Sound(K, s, c, x), c.run.fn # "Break",
         NEW d, Reached(K, d), NEW K2, NEW r, Enters(K, K2, s, d, r), NEW m \in Nat,
         Len(K.W) \in Nat
  PROVE  LET k == Len(s)
         IN /\ Agrees(K, K2, m) /\ LoopNow(K2) = "inner"
            /\ (\A l : l = LoopNow(K) \/ K.N # <<>> \/ l = "outer" => Widens(K, K2, l))
            /\ d \in Zone(K2, LoopNow(K)) /\ d \in Zone(K2, "inner") /\ Reached(K2, d)
            /\ \A i \in Nat : i <= k + 1 => Loop(K2, i) = Loop(K, i)
            /\ \A i \in Nat : k + 1 < i => Loop(K2, i) = "inner"
            /\ Loop(K, k + 1) = LoopNow(K)
<1> DEFINE k == Len(s)
           L == Len(K.N)
<1>1. /\ k \in Nat /\ L \in Nat /\ (K.N # <<>> <=> 1 \in 1..L) /\ Loop(K, k + 1) = LoopNow(K)
      /\ \A j \in 1..L : K.N[j].top \in Nat /\ K.N[j].top < k
  BY SoundFacts
<1>2. /\ K2.W = K.W /\ K2.T = K.T /\ K2.lo = K.lo /\ K2.base = K.base
      /\ K2.P = K.P /\ K2.X = K.X /\ K2.G = K.G /\ K2.G0 = K.G0
      /\ Len(K2.N) = L + 1 /\ (\A j \in 1..L : K2.N[j] = K.N[j])
      /\ K2.N[L + 1] = r /\ K2.N # <<>> /\ r.top = k /\ r.dw = d
  BY DEF Enters
<1>3. K.N = <<>> => L = 0 /\ K.lo = 0 /\ K.G0 = K.G
  <2>1. TreeOf(K) /\ Natives(K, s, c)
    BY DEF Sound
  <2> QED
    BY <2>1 DEF TreeOf, Natives
<1>4. Agrees(K, K2, m)
  BY <1>2 DEF Agrees, SameThunks
<1> HIDE DEF L, k
<1>5. K.N # <<>> => K2.N[1] = K.N[1] /\ K.N[1].top \in Nat /\ K.N[1].top < k
  BY <1>1, <1>2
<1>6. K.N = <<>> => K2.N[1] = r
  <2> SUFFICES ASSUME K.N = <<>> PROVE K2.N[1] = r
    OBVIOUS
  <2>1. L + 1 = 1
    BY <1>3
  <2> QED
    BY <1>2, <2>1
<1>7. LoopNow(K2) = "inner"
  BY <1>2 DEF LoopNow
<1>8. ASSUME NEW l, l = LoopNow(K) \/ K.N # <<>> \/ l = "outer" PROVE Widens(K, K2, l)
  <2>1. CASE l = "outer"
    BY <1>2, <2>1 DEF Widens, Zone, Opened
  <2>2. CASE l # "outer" /\ K.N # <<>>
    BY <1>2, <1>5, <2>2 DEF Widens, Zone, Opened
  <2> QED
    BY <1>8, <2>1, <2>2 DEF LoopNow
<1>9. d \in Zone(K, LoopNow(K)) /\ \A j \in 1..L : K.N[j].dw \in K.P[d]
  BY DEF Reached, L
<1>10. d \in Zone(K2, LoopNow(K))
  BY <1>8, <1>9 DEF Widens
<1>11. d \in Zone(K2, "inner")
  <2>1. CASE K.N = <<>>
    BY <1>2, <1>6, <2>1 DEF Zone
  <2>2. CASE K.N # <<>>
    BY <1>10, <2>2 DEF LoopNow
  <2> QED
    BY <2>1, <2>2
<1>12. d \in K.P[d]
  BY ReachedIn
<1>13. Reached(K2, d)
  <2>1. \A j \in 1..(L + 1) : K2.N[j].dw \in K2.P[d]
    <3>1. \A j \in 1..(L + 1) : j \in 1..L \/ j = L + 1
      BY <1>1
    <3> QED
      BY <1>2, <1>9, <1>12, <3>1
  <2> QED
    BY <1>2, <1>7, <1>11, <2>1 DEF Reached
<1>14. ASSUME NEW i \in Nat, i <= k + 1 PROVE Loop(K2, i) = Loop(K, i)
  <2>1. CASE K.N = <<>>
    <3>1. K2.lo = 0 /\ i <= K2.N[1].top + 1
      BY <1>2, <1>3, <1>6, <1>14, <2>1
    <3> QED
      BY <2>1, <3>1 DEF Loop
  <2>2. CASE K.N # <<>>
    BY <1>2, <1>5, <2>2 DEF Loop
  <2> QED
    BY <2>1, <2>2
<1>15. ASSUME NEW i \in Nat, k + 1 < i PROVE Loop(K2, i) = "inner"
  <2>1. K2.N[1].top \in Nat /\ K2.N[1].top <= k
    BY <1>1, <1>2, <1>5, <1>6
  <2>2. ~(i <= K2.N[1].top + 1)
    BY <1>1, <1>15, <2>1
  <2> QED
    BY <1>2, <2>2 DEF Loop
<1> QED
  BY <1>1, <1>4, <1>7, <1>8, <1>10, <1>11, <1>13, <1>14, <1>15 DEF k

LEMMA EnteredTree ==
  ASSUME NEW K, NEW S, NEW s \in Seq(S), NEW c, NEW x, Sound(K, s, c, x), c.run.fn # "Break",
         NEW d, Reached(K, d), NEW K2, NEW r, Enters(K, K2, s, d, r), NEW m \in Nat,
         Len(K.W) \in Nat,
         \A w \in 1..Len(K.W) : K.W[w].before \in SyncThunks(m) /\ K.W[w].after \in SyncThunks(m)
  PROVE  TreeOf(K2)
<1>1. TreeOf(K) /\ Natives(K, s, c)
  BY DEF Sound
<1>2. /\ K2.W = K.W /\ K2.T = K.T /\ K2.lo = K.lo /\ K2.base = K.base
      /\ K2.P = K.P /\ K2.X = K.X /\ K2.G = K.G /\ K2.G0 = K.G0 /\ K2.N # <<>>
  BY DEF Enters
<1>3. /\ Agrees(K, K2, m)
      /\ \A l : l = LoopNow(K) \/ K.N # <<>> \/ l = "outer" => Widens(K, K2, l)
  BY EnteredFacts
<1>4. ASSUME NEW w \in K.G PROVE WindingIn(K2, LoopOf(K2, w), w)
  <2>1. LoopOf(K2, w) = LoopOf(K, w) /\ (K.N = <<>> => LoopOf(K, w) = "outer")
    BY <1>1, <1>2 DEF LoopOf, TreeOf
  <2>2. Widens(K, K2, LoopOf(K, w))
    BY <1>3, <2>1
  <2>3. K.W[w].before \in SyncThunks(m) /\ K.W[w].after \in SyncThunks(m)
    BY <1>1 DEF TreeOf
  <2> QED
    BY <1>1, <1>3, <2>1, <2>2, <2>3, WindingKept
<1> QED
  BY <1>1, <1>2, <1>4 DEF TreeOf

\* The nested calls, with PushBreak's frame on the stack.
LEMMA EnteredNatives ==
  ASSUME NEW K, NEW S, NEW s \in Seq(S), NEW c, NEW x, Sound(K, s, c, x), c.run.fn # "Break",
         NEW d, Reached(K, d), Same(LoopNow(K), x, K.X[d]),
         NEW K2, NEW r, Enters(K, K2, s, d, r), Len(K.W) \in Nat,
         r.env = x.env, r.handlers = x.hs,
         NEW f, f = Closure([fn |-> "Break"], d), NEW s2, Len(s2) = Len(s) + 1,
         \A i \in 1..Len(s) : s2[i] = s[i], s2[Len(s) + 1] = f, NEW c2
  PROVE  Natives(K2, s2, c2)
<1> DEFINE k == Len(s)
           L == Len(K.N)
<1>1. /\ k \in Nat /\ L \in Nat /\ (K.N # <<>> <=> 1 \in 1..L)
      /\ (\A j \in 1..L : K.N[j].top \in Nat /\ K.N[j].top < k)
      /\ TreeOf(K) /\ Natives(K, s, c) /\ Suits(LoopNow(K), x.hs)
  BY SoundFacts DEF Sound
<1>2. /\ K2.W = K.W /\ K2.lo = K.lo /\ K2.base = K.base
      /\ K2.P = K.P /\ K2.X = K.X /\ K2.G0 = K.G0
      /\ Len(K2.N) = L + 1 /\ (\A j \in 1..L : K2.N[j] = K.N[j])
      /\ K2.N[L + 1] = r /\ K2.N # <<>> /\ r.top = k /\ r.dw = d
  BY DEF Enters
<1>3. /\ (\A l : l = LoopNow(K) \/ K.N # <<>> \/ l = "outer" => Widens(K, K2, l))
      /\ d \in Zone(K2, LoopNow(K)) /\ d \in Zone(K2, "inner")
  <2>1. 0 \in Nat
    OBVIOUS
  <2> QED
    BY <2>1, EnteredFacts
<1>4. /\ \A j \in 1..L : Nested(K, s, c, j)
      /\ \/ K.lo = 0 /\ K.base = 0 /\ K.X[0] = Base
         \/ K.N # <<>> /\ K.lo = K.N[1].top + 1 /\ K.base = K.N[1].dw /\ K.G0 = {}
      /\ (K.N = <<>> => L = 0 /\ K.lo = 0)
  BY <1>1 DEF Natives
<1>5. \A j \in 1..L : K.N[j].dw \in K.P[d]
  BY DEF Reached
<1> HIDE DEF k, L
<1>6. ASSUME NEW j \in 1..L PROVE Nested(K2, s2, c2, j)
  <2> DEFINE q == K.N[j]
             l == IF j = 1 /\ K.lo = 0 THEN "outer" ELSE "inner"
  <2>1. K2.N[j] = q /\ q.top < k /\ K.N # <<>>
    <3>1. 1 \in 1..L
      BY <1>1
    <3> QED
      BY <1>1, <1>2, <3>1
  <2>2. Nested(K, s, c, j)
    BY <1>4
  <2>3. /\ q.top \in Nat /\ q.top <= Len(s)
        /\ (q.top < Len(s) => s[q.top + 1] = Closure([fn |-> "Break"], q.dw))
        /\ (\A i \in 1..(j - 1) : K.N[i].top < q.top /\ K.N[i].dw \in K.P[q.dw])
        /\ q.dw \in Zone(K, l) /\ q.env = K.X[q.dw].env
        /\ (j = 1 => (K.lo = 0 => NoCatch(q.handlers) /\ q.handlers = K.X[q.dw].hs))
        /\ (j # 1 => EndsInCatch(q.handlers))
    BY <2>2 DEF Nested
  <2>4. q.dw \in Zone(K2, l)
    BY <1>3, <2>1, <2>3 DEF Widens
  <2>5. \A i \in 1..(j - 1) : K2.N[i] = K.N[i]
    <3>1. \A i \in 1..(j - 1) : i \in 1..L
      BY <1>1
    <3> QED
      BY <1>2, <3>1
  <2>6. s2[q.top + 1] = Closure([fn |-> "Break"], q.dw)
    <3>1. q.top + 1 \in 1..k
      BY <1>1, <2>1, <2>3
    <3>2. s2[q.top + 1] = s[q.top + 1]
      BY <3>1 DEF k
    <3> QED
      BY <2>1, <2>3, <3>2 DEF k
  <2>7. q.top <= Len(s2) /\ q.top # Len(s2)
    BY <1>1, <2>1, <2>3 DEF k
  <2> HIDE DEF q
  <2>8. \A i \in 1..(j - 1) : K2.N[i].top < q.top /\ K2.N[i].dw \in K.P[q.dw]
    BY <2>3, <2>5
  <2>9. q.dw \in Zone(K2, IF j = 1 /\ K2.lo = 0 THEN "outer" ELSE "inner")
    BY <1>2, <2>4
  <2> QED
    BY <1>2, <2>1, <2>3, <2>6, <2>7, <2>8, <2>9 DEF Nested
<1>7. Nested(K2, s2, c2, L + 1)
  <2> DEFINE j == L + 1
  <2>1. /\ r.top \in Nat /\ r.top <= Len(s2) /\ r.top # Len(s2)
        /\ s2[r.top + 1] = Closure([fn |-> "Break"], r.dw)
    BY <1>1, <1>2 DEF k
  <2>2. \A i \in 1..(j - 1) : i \in 1..L
    BY <1>1
  <2>3. \A i \in 1..(j - 1) : K2.N[i].top < r.top /\ K2.N[i].dw \in K2.P[r.dw]
    BY <1>1, <1>2, <1>5, <2>2
  <2>4. j = 1 <=> K.N = <<>>
    BY <1>1, <1>4
  <2>5. r.dw \in Zone(K2, IF j = 1 /\ K2.lo = 0 THEN "outer" ELSE "inner")
    BY <1>2, <1>3, <1>4, <2>4 DEF LoopNow
  <2>6. r.env = K2.X[r.dw].env
    BY <1>2 DEF Same
  <2>7. (j = 1 => (K2.lo = 0 => NoCatch(r.handlers) /\ r.handlers = K2.X[r.dw].hs))
        /\ (j # 1 => EndsInCatch(r.handlers))
    BY <1>1, <1>2, <2>4 DEF LoopNow, Suits, Same
  <2>8. K2.N[j] = r
    BY <1>2
  <2> HIDE DEF j
  <2>9. Nested(K2, s2, c2, j)
    BY <2>1, <2>3, <2>5, <2>6, <2>7, <2>8 DEF Nested
  <2> QED
    BY <2>9 DEF j
<1>8. Len(K2.N) \in Nat /\ (K2.N = <<>> <=> Len(K2.N) = 0)
  BY <1>1, <1>2
<1>9. \/ K2.lo = 0 /\ K2.base = 0 /\ K2.X[0] = Base
      \/ K2.N # <<>> /\ K2.lo = K2.N[1].top + 1 /\ K2.base = K2.N[1].dw /\ K2.G0 = {}
  <2>1. K.N # <<>> => K2.N[1] = K.N[1]
    BY <1>1, <1>2
  <2> QED
    BY <1>2, <1>4, <2>1
<1>10. \A j \in 1..Len(K2.N) : Nested(K2, s2, c2, j)
  <2>1. \A j \in 1..(L + 1) : j \in 1..L \/ j = L + 1
    BY <1>1
  <2> QED
    BY <1>2, <1>6, <1>7, <2>1
<1> QED
  BY <1>8, <1>9, <1>10 DEF Natives

LEMMA EnteredLoops ==
  ASSUME NEW K, NEW s, NEW d, NEW K2, NEW r, Enters(K, K2, s, d, r), Len(K.N) \in Nat,
         NEW i \in Nat, Len(s) \in Nat, i <= Len(s), NEW f, f.run.fn # "Bottom", Loops(K, i, f)
  PROVE  Loops(K2, i, f)
<1> DEFINE L == Len(K.N)
<1>1. /\ Len(K2.N) = L + 1 /\ (\A j \in 1..L : K2.N[j] = K.N[j])
      /\ K2.N[L + 1] = r /\ r.top = Len(s) /\ K2.P = K.P
  BY DEF Enters
<1>2. \A j \in 1..(L + 1) : j \in 1..L \/ j = L + 1
  OBVIOUS
<1>3. \A j \in 1..L : j \in 1..(L + 1)
  OBVIOUS
<1>4. ASSUME NEW w, Within(K, i, w) PROVE Within(K2, i, w)
  <2>1. ~(r.top < i)
    BY <1>1
  <2>2. \A j \in 1..L : K.N[j].top < i => K.N[j].dw \in K.P[w]
    BY <1>4 DEF Within
  <2> HIDE DEF L
  <2>3. \A j \in 1..(L + 1) : K2.N[j].top < i => K2.N[j].dw \in K2.P[w]
    BY <1>1, <1>2, <2>1, <2>2
  <2> QED
    BY <1>1, <2>3 DEF Within
<1>5. ASSUME f.run.fn = "Catch"
      PROVE  \E j \in 1..(L + 1) : K2.N[j].dw = f.at /\ K2.N[j].top < i
                                   /\ \A k \in (j + 1)..(L + 1) : i <= K2.N[k].top
  <2>1. PICK j \in 1..L : /\ K.N[j].dw = f.at /\ K.N[j].top < i
                          /\ \A k \in (j + 1)..L : i <= K.N[k].top
    BY <1>5 DEF Loops
  <2>2. \A k \in (j + 1)..(L + 1) : (k \in (j + 1)..L /\ k \in 1..L) \/ k = L + 1
    OBVIOUS
  <2> HIDE DEF L
  <2>3. \A k \in (j + 1)..(L + 1) : i <= K2.N[k].top
    BY <1>1, <2>1, <2>2
  <2> QED
    BY <1>1, <1>3, <2>1, <2>3
<1>6. ASSUME f.run.fn = "Break"
      PROVE  \E j \in 1..(L + 1) : K2.N[j].dw = f.at /\ i = K2.N[j].top + 1
  <2>1. PICK j \in 1..L : K.N[j].dw = f.at /\ i = K.N[j].top + 1
    BY <1>6 DEF Loops
  <2> HIDE DEF L
  <2> QED
    BY <1>1, <1>3, <2>1
<1>7. Within(K, i, f.at) /\ Within(K, i, LeadsTo(f))
  BY DEF Loops
<1> QED
  BY <1>1, <1>4, <1>5, <1>6, <1>7 DEF Loops

LEMMA EnteredChained ==
  ASSUME NEW K, NEW m \in Nat, Len(K.W) \in Nat, NEW s \in Seq(SyncFrames(Len(K.W), m)), NEW c,
         NEW x, Sound(K, s, c, x), c.run.fn # "Break", ~Final(c.run), NEW d, Reached(K, d),
         d = Top(s).at, Same(LoopNow(K), K.X[d], Needs(Top(s), K.X, K.T)),
         NEW K2, NEW r, Enters(K, K2, s, d, r),
         NEW f, f = Closure([fn |-> "Break"], d), NEW s2, Len(s2) = Len(s) + 1,
         \A i \in 1..Len(s) : s2[i] = s[i] /\ Below(s2, i) = Below(s, i),
         s2[Len(s) + 1] = f, Below(s2, Len(s) + 1) = Top(s), NEW c2
  PROVE  Chained(K2, s2, c2) /\ Frame(K2, Len(s) + 1, f)
<1> DEFINE k == Len(s)
           L == Len(K.N)
<1>1. /\ k \in Nat /\ L \in Nat /\ TreeOf(K) /\ Natives(K, s, c) /\ Chained(K, s, c)
  BY SoundFacts DEF Sound
<1>2. /\ Agrees(K, K2, m) /\ K2.lo = K.lo /\ K2.X = K.X /\ K2.T = K.T
      /\ (\A l : l = LoopNow(K) \/ K.N # <<>> \/ l = "outer" => Widens(K, K2, l))
      /\ d \in Zone(K2, LoopNow(K)) /\ Reached(K2, d)
      /\ (\A i \in Nat : i <= k + 1 => Loop(K2, i) = Loop(K, i))
      /\ Loop(K, k + 1) = LoopNow(K)
      /\ Len(K2.N) = L + 1 /\ K2.N[L + 1] = r /\ r.top = k /\ r.dw = d
  BY EnteredFacts DEF Enters
<1>3. /\ f.run.fn = "Break" /\ f.at = d /\ LeadsTo(f) = d /\ ~Final(f.run)
  BY DEF Closure, LeadsTo, Final, FailsOnReturn
<1>4. Frame(K2, k + 1, f)
  <2>1. Body(K2, LoopNow(K), f)
    BY <1>2, <1>3 DEF Body, Captured, InstallsFor, Restoring
  <2>2. Within(K2, k + 1, d)
    BY <1>2 DEF Reached, Within
  <2>3. L + 1 \in 1..Len(K2.N) /\ K2.N[L + 1].dw = f.at /\ k + 1 = K2.N[L + 1].top + 1
    BY <1>1, <1>2, <1>3
  <2>4. Loop(K2, k + 1) = LoopNow(K)
    BY <1>1, <1>2
  <2> HIDE DEF k, L
  <2>5. Loops(K2, k + 1, f)
    BY <1>3, <2>2, <2>3 DEF Loops
  <2> QED
    BY <2>1, <2>4, <2>5 DEF Frame
<1>5. Hands(K2, k + 1, f, Top(s))
  <2>1. Loop(K2, k + 1) = LoopNow(K)
    BY <1>1, <1>2
  <2> QED
    BY <1>2, <1>3, <2>1 DEF Hands
<1>6. ASSUME NEW i \in 1..k, i >= K2.lo
      PROVE  (Frame(K2, i, s2[i]) /\ Hands(K2, i, s2[i], Below(s2, i))) \/ Dead(s2, i, c2)
  <2> DEFINE e == s[i]
             g == Below(s, i)
  <2>1. /\ e.run \in SyncPending(Len(K.W), m) /\ g.run \in SyncPending(Len(K.W), m)
        /\ e.run.fn # "Bottom"
    BY FramesPending
  <2>2. i \in Nat /\ i <= k /\ i >= K.lo /\ i <= k + 1
    BY <1>1, <1>2, <1>6
  <2>3. (Frame(K, i, e) /\ Hands(K, i, e, g)) \/ Dead(s, i, c)
    BY <1>1, <2>2 DEF Chained
  <2>4. s2[i] = e /\ Below(s2, i) = g
    OBVIOUS
  <2> HIDE DEF e, g
  <2>5. ASSUME Dead(s, i, c) PROVE Dead(s2, i, c2)
    <3>1. PICK j \in (i + 1)..k : Final(s[j].run)
      BY <2>5 DEF Dead
    <3>2. j \in 1..k /\ j \in (i + 1)..Len(s2)
      BY <1>1, <2>2
    <3>3. s2[j] = s[j]
      BY <3>2
    <3> QED
      BY <3>1, <3>2, <3>3 DEF Dead
  <2>6. ASSUME Frame(K, i, e), Hands(K, i, e, g)
        PROVE  Frame(K2, i, e) /\ Hands(K2, i, e, g)
    <3> DEFINE l == Loop(K, i)
    <3>1. Loop(K2, i) = l /\ (l = "outer" \/ K.N # <<>>)
      BY <1>2, <2>2 DEF Loop
    <3>2. Zone(K, l) \subseteq 0..Len(K.W) /\ Opened(K, l) \subseteq 1..Len(K.W)
      BY <1>1, ZonesIn
    <3>3. Body(K, l, e) /\ Loops(K, i, e)
      BY <2>6 DEF Frame
    <3>4. Widens(K, K2, l)
      BY <1>2, <3>1
    <3> HIDE DEF l
    <3>5. Body(K2, l, e)
      BY <1>2, <2>1, <3>2, <3>3, <3>4, BodyKept
    <3>6. Loops(K2, i, e)
      BY <1>1, <2>1, <2>2, <3>3, EnteredLoops
    <3>7. Hands(K2, i, e, g)
      BY <1>2, <2>1, <2>6, <3>1, <3>2, <3>3, HandsKept DEF l
    <3> QED
      BY <3>1, <3>5, <3>6, <3>7 DEF Frame
  <2> QED
    BY <2>3, <2>4, <2>5, <2>6
<1>7. \A i \in 1..Len(s2) : i \in 1..k \/ i = k + 1
  BY <1>1
<1>8. Chained(K2, s2, c2)
  BY <1>4, <1>5, <1>6, <1>7 DEF Chained
<1> QED
  BY <1>4, <1>8

\* The call of the thunk in the new loop.
LEMMA EnteredCall ==
  ASSUME NEW K2, NEW i, LoopNow(K2) = "inner", Loop(K2, i) = "inner", NEW d, Reached(K2, d),
         NEW f, f = Closure([fn |-> "Break"], d), NEW x, NEW y,
         Same("inner", x, K2.X[d]), y.env = x.env
  PROVE  CallIn(K2, i, Closure(User("thunk"), d), f, y)
<1> DEFINE p == User("thunk")
           c == Closure(p, d)
<1>1. f.run.fn = "Break" /\ f.at = d /\ Needs(f, K2.X, K2.T) = K2.X[d]
  BY DEF Closure, Needs
<1>2. p.fn = "User"
  BY DEF User
<1>3. Simple(p) /\ ~Changes(p)
  BY <1>2 DEF Simple, Changes
<1> HIDE DEF p
<1>4. Frame(K2, i, c)
  BY <1>3, ReachedFrame
<1>5. c.run = p /\ c.at = d /\ LeadsTo(c) = d /\ Needs(c, K2.X, K2.T) = K2.X[d]
  BY <1>3, SimpleNeeds
<1>6. Same("inner", y, K2.X[d]) /\ Same("inner", K2.X[d], K2.X[d])
  BY DEF Same
<1> HIDE DEF c
<1>7. Hands(K2, i, c, f)
  BY <1>1, <1>5, <1>6 DEF Hands
<1>8. CallIn(K2, i, c, f, y)
  BY <1>1, <1>2, <1>3, <1>4, <1>5, <1>6, <1>7 DEF CallIn
<1> QED
  BY <1>8 DEF c, p

\* RunSync is called where everything is accounted for.
LEMMA RunSyncView ==
  ASSUME NEW K, Acting(K), UserRunSync, ~passed' => ~passed
  PROVE  \E K2 : Viewed(K2)'
<1> DEFINE k == Len(stack)
           L == Len(native)
           f == Closure([fn |-> "Break"], curDW)
           s2 == stack'
           c == Closure(User("thunk"), curDW)
<1>1. /\ Calling("User") /\ native' = Append(native, Local) /\ handlers' = <<Catch>>
      /\ s2 = Push(stack, [fn |-> "Break"], curDW) /\ call' = c
      /\ UNCHANGED <<curDW, winds, objs, env>>
  BY DEF UserRunSync, Apply
<1>2. /\ Sound(K, stack, call, Now) /\ call.at = curDW
      /\ K.W = winds /\ K.T = T0 /\ K.N = native
      /\ n0 \in Nat /\ m0 \in Nat /\ stack \in Seq(SyncFrames(n0, m0))
      /\ call.run.fn # "Break" /\ Reached(K, curDW)
  BY ActingFacts
<1>3. /\ ~Changes(call.run) /\ ~Final(call.run) /\ call.run.fn # "WindBody"
      /\ LeadsTo(call) = curDW
  BY <1>1, <1>2 DEF Calling, Changes, Final, FailsOnReturn, LeadsTo
<1>4. /\ Same(LoopNow(K), Now, K.X[curDW]) /\ curDW = Top(stack).at
      /\ Same(LoopNow(K), K.X[curDW], Needs(Top(stack), K.X, K.T))
  BY <1>3, QuietHere
<1>5. /\ SyncTypes /\ (~passed => K.lo = 0)
  BY DEF Acting, Viewed
<1>6. /\ native \in Seq(SyncLocals(n0, m0)) /\ L \in Nat /\ curDW \in 0..n0
      /\ \A w \in 1..n0 : winds[w] \in SyncWindings(n0, m0)
  BY <1>5, Typed
<1>7. f \in SyncFrames(n0, m0)
  <2>1. [fn |-> "Break"] \in SyncContinuations(n0, m0)
    BY DEF SyncContinuations
  <2> QED
    BY <1>2, <1>6, <2>1 DEF Closure, SyncFrames
<1>8. /\ k \in Nat /\ s2 \in Seq(SyncFrames(n0, m0)) /\ Len(s2) = k + 1
      /\ (\A i \in 1..k : s2[i] = stack[i] /\ Below(s2, i) = Below(stack, i))
      /\ s2[k + 1] = f /\ Below(s2, k + 1) = Top(stack) /\ Top(s2) = f
  <2>1. PICK q : q = [fn |-> "Break"]
    OBVIOUS
  <2>2. f = Closure(q, curDW) /\ s2 = Push(stack, q, curDW)
    BY <1>1, <2>1
  <2> HIDE DEF f
  <2>3. Closure(q, curDW) \in SyncFrames(n0, m0) /\ stack \in Seq(SyncFrames(n0, m0))
    BY <1>2, <1>7, <2>2
  <2> HIDE DEF s2
  <2> QED
    BY <2>2, <2>3, PushFrames
<1>9. PICK r : r = Local
  OBVIOUS
<1>10. /\ r.top = k /\ r.dw = curDW /\ r.env = Now.env /\ r.handlers = Now.hs
  BY <1>9 DEF Local, Now
<1>11. PICK N2 : N2 = Append(native, r)
  OBVIOUS
<1>12. /\ Len(N2) = L + 1 /\ N2 # <<>> /\ N2[L + 1] = r /\ \A j \in 1..L : N2[j] = native[j]
  BY <1>6, <1>11, AppendProperties
<1>13. PICK K2 : K2 = [W |-> K.W, T |-> K.T, N |-> N2, lo |-> K.lo, base |-> K.base,
                       P |-> K.P, X |-> K.X, G |-> K.G, G0 |-> K.G0]
  OBVIOUS
<1>14. /\ K2.W = K.W /\ K2.T = K.T /\ K2.lo = K.lo /\ K2.base = K.base /\ K2.N = N2
       /\ K2.P = K.P /\ K2.X = K.X /\ K2.G = K.G /\ K2.G0 = K.G0
  BY <1>13
<1>15. PICK S : S = SyncFrames(n0, m0)
  OBVIOUS
<1>16. PICK s : s = stack
  OBVIOUS
<1>17. PICK d : d = curDW
  OBVIOUS
<1>18. PICK x : x = Now
  OBVIOUS
<1>19. PICK t : t = s2
  OBVIOUS
<1>20. PICK y : y = Now'
  OBVIOUS
<1>21. PICK m : m = m0
  OBVIOUS
<1>22. PICK g : g = f
  OBVIOUS
<1>23. PICK c2 : c2 = c
  OBVIOUS
<1>24. PICK b : b = call
  OBVIOUS
<1>25. g = Closure([fn |-> "Break"], d) /\ c2 = Closure(User("thunk"), d)
  BY <1>17, <1>22, <1>23
<1>26. y.env = x.env /\ y.hs = <<Catch>>
  BY <1>1, <1>18, <1>20 DEF Now
<1>27. Len(K.W) = n0
  BY <1>2 DEF n0
<1> HIDE DEF f, c, s2, k, L
<1>28. Enters(K, K2, s, d, r)
  BY <1>2, <1>10, <1>12, <1>14, <1>16, <1>17 DEF Enters, k, L
<1>29. /\ Sound(K, s, b, x) /\ b.run.fn # "Break" /\ ~Final(b.run) /\ Reached(K, d)
       /\ s \in Seq(SyncFrames(Len(K.W), m)) /\ m \in Nat /\ Len(K.W) \in Nat
       /\ d = Top(s).at /\ Same(LoopNow(K), K.X[d], Needs(Top(s), K.X, K.T))
       /\ Same(LoopNow(K), x, K.X[d]) /\ r.env = x.env /\ r.handlers = x.hs
  BY <1>2, <1>3, <1>4, <1>10, <1>16, <1>17, <1>18, <1>21, <1>24, <1>27
<1>30. /\ Len(t) = Len(s) + 1 /\ t[Len(s) + 1] = g /\ Below(t, Len(s) + 1) = Top(s)
       /\ (\A i \in 1..Len(s) : t[i] = s[i] /\ Below(t, i) = Below(s, i))
       /\ Top(t) = g /\ Len(s) \in Nat
  BY <1>8, <1>16, <1>19, <1>22 DEF k
<1>31. \A w \in 1..Len(K.W) : K.W[w].before \in SyncThunks(m) /\ K.W[w].after \in SyncThunks(m)
  BY <1>2, <1>6, <1>21, <1>27 DEF SyncWindings
<1>32. TreeOf(K2)
  BY <1>28, <1>29, <1>31, EnteredTree
<1>33. Natives(K2, t, c2)
  <2>1. \A i \in 1..Len(s) : t[i] = s[i]
    BY <1>30
  <2> QED
    <3>1. /\ Sound(K, s, b, x) /\ b.run.fn # "Break" /\ Reached(K, d)
          /\ s \in Seq(SyncFrames(Len(K.W), m)) /\ Same(LoopNow(K), x, K.X[d])
          /\ Enters(K, K2, s, d, r) /\ Len(K.W) \in Nat
      BY <1>28, <1>29
    <3>2. r.env = x.env /\ r.handlers = x.hs
      BY <1>29
    <3>3. /\ g = Closure([fn |-> "Break"], d) /\ Len(t) = Len(s) + 1
          /\ t[Len(s) + 1] = g
      BY <1>25, <1>30
    <3> QED
      BY <2>1, <3>1, <3>2, <3>3, EnteredNatives
<1>34. Chained(K2, t, c2) /\ Frame(K2, Len(s) + 1, g)
  <2>1. /\ Sound(K, s, b, x) /\ b.run.fn # "Break" /\ ~Final(b.run) /\ Reached(K, d)
        /\ s \in Seq(SyncFrames(Len(K.W), m)) /\ m \in Nat /\ Len(K.W) \in Nat
        /\ d = Top(s).at /\ Same(LoopNow(K), K.X[d], Needs(Top(s), K.X, K.T))
        /\ Enters(K, K2, s, d, r)
    BY <1>28, <1>29
  <2>2. g = Closure([fn |-> "Break"], d) /\ Len(t) = Len(s) + 1
    BY <1>25, <1>30
  <2>3. /\ \A i \in 1..Len(s) : t[i] = s[i] /\ Below(t, i) = Below(s, i)
        /\ t[Len(s) + 1] = g /\ Below(t, Len(s) + 1) = Top(s)
    BY <1>30
  <2> QED
    BY <2>1, <2>2, <2>3, EnteredChained
<1>35. /\ LoopNow(K2) = "inner" /\ Reached(K2, d)
       /\ \A i \in Nat : Len(s) + 1 < i => Loop(K2, i) = "inner"
  BY <1>28, <1>29, EnteredFacts
<1>36. Loop(K2, Len(s) + 2) = "inner"
  BY <1>30, <1>35
<1>37. Same("inner", x, K2.X[d])
  BY <1>14, <1>29 DEF Same
<1>38. CallIn(K2, Len(s) + 2, c2, g, y)
  BY <1>25, <1>26, <1>35, <1>36, <1>37, EnteredCall
<1>39. Len(t) + 1 = Len(s) + 2
  BY <1>30
<1>40. Suits("inner", y.hs)
  <2>1. y.hs # <<>> /\ Len(y.hs) = 1 /\ y.hs[1] = Catch
    BY <1>26
  <2> QED
    BY <2>1 DEF Suits, EndsInCatch
<1>41. Sound(K2, t, c2, y)
  BY <1>30, <1>32, <1>33, <1>34, <1>35, <1>38, <1>39, <1>40 DEF Sound
<1>42. Sound(K2, stack', call', Now')
  BY <1>1, <1>19, <1>20, <1>23, <1>41 DEF s2
<1>43. K2.W = winds' /\ K2.T = ThunksOf(objs') /\ K2.N = native' /\ (~passed' => K2.lo = 0)
  BY <1>1, <1>2, <1>5, <1>9, <1>11, <1>14 DEF T0
<1>44. call'.at = curDW'
  BY <1>1 DEF c, Closure
<1> QED
  BY <1>42, <1>43, <1>44, NewView

\* A view that starts with the nested call r made at d.
Starts(K2, W, s, d, r) ==
  /\ K2.W = W /\ Len(K2.N) = 1 /\ K2.N # <<>> /\ K2.N[1] = r
  /\ K2.lo = Len(s) + 1 /\ K2.base = d /\ K2.G = {} /\ K2.G0 = {}
  /\ K2.P[d] = {d} /\ K2.X[d].env = r.env /\ r.env \in Int
  /\ r.top = Len(s) /\ r.dw = d

LEMMA StartedFacts ==
  ASSUME NEW K2, NEW W, NEW s, NEW d, NEW r, Starts(K2, W, s, d, r), Len(s) \in Nat
  PROVE  /\ LoopNow(K2) = "inner" /\ Reached(K2, d) /\ \A i \in Nat : Loop(K2, i) = "inner"
         /\ d \in Zone(K2, "inner")
         /\ \A i : Within(K2, i, d)
<1>1. /\ Len(K2.N) = 1 /\ K2.N # <<>> /\ K2.N[1] = r /\ K2.lo = Len(s) + 1
      /\ K2.G = {} /\ K2.G0 = {} /\ K2.P[d] = {d} /\ r.dw = d
  BY DEF Starts
<1>2. LoopNow(K2) = "inner" /\ d \in Zone(K2, "inner")
  BY <1>1 DEF LoopNow, Zone
<1>3. K2.lo # 0
  BY <1>1
<1>4. \A i \in Nat : Loop(K2, i) = "inner"
  BY <1>1, <1>3 DEF Loop
<1>5. \A j \in 1..Len(K2.N) : K2.N[j].dw \in K2.P[d]
  <2>1. \A j \in 1..1 : j = 1
    OBVIOUS
  <2> QED
    BY <1>1, <2>1
<1>6. Reached(K2, d) /\ \A i : Within(K2, i, d)
  BY <1>2, <1>5 DEF Reached, Within
<1> QED
  BY <1>2, <1>4, <1>6

LEMMA StartedSound ==
  ASSUME NEW K2, NEW W, NEW s, NEW d, NEW r, Starts(K2, W, s, d, r), Len(s) \in Nat,
         Len(W) \in Nat, d \in 0..Len(W),
         NEW f, f = Closure([fn |-> "Break"], d), NEW t, Len(t) = Len(s) + 1,
         t[Len(s) + 1] = f, Top(t) = f, NEW c, c = Closure(User("thunk"), d),
         NEW y, y.env = r.env, y.hs = <<Catch>>
  PROVE  Sound(K2, t, c, y)
<1> DEFINE k == Len(s)
<1>1. /\ K2.W = W /\ Len(K2.N) = 1 /\ K2.N # <<>> /\ K2.N[1] = r
      /\ K2.lo = k + 1 /\ K2.base = d /\ K2.G = {} /\ K2.G0 = {}
      /\ K2.P[d] = {d} /\ K2.X[d].env = r.env /\ r.env \in Int
      /\ r.top = k /\ r.dw = d
  BY DEF Starts
<1>2. /\ LoopNow(K2) = "inner" /\ Reached(K2, d) /\ (\A i \in Nat : Loop(K2, i) = "inner")
      /\ d \in Zone(K2, "inner") /\ \A i : Within(K2, i, d)
  BY StartedFacts
<1>3. k \in Nat /\ Len(t) = k + 1 /\ t[k + 1] = f
  OBVIOUS
<1>4. f.run = [fn |-> "Break"] /\ f.at = d /\ LeadsTo(f) = d
  BY DEF Closure, LeadsTo
<1> HIDE DEF k
<1>5. TreeOf(K2)
  BY <1>1 DEF TreeOf
<1>6. Natives(K2, t, c)
  <2>1. \A j \in 1..1 : j = 1
    OBVIOUS
  <2>2. k # k + 1 /\ k <= k + 1 /\ K2.lo # 0
    BY <1>1, <1>3
  <2>3. \A i \in 1..(1 - 1) : FALSE
    OBVIOUS
  <2>4. Nested(K2, t, c, 1)
    BY <1>1, <1>2, <1>3, <2>2, <2>3 DEF Nested
  <2> QED
    BY <1>1, <2>1, <2>4 DEF Natives
<1>7. Frame(K2, k + 1, f)
  <2>1. Body(K2, "inner", f)
    BY <1>2, <1>4 DEF Body, Captured, InstallsFor, Restoring
  <2>2. 1 \in 1..Len(K2.N) /\ K2.N[1].dw = f.at /\ k + 1 = K2.N[1].top + 1
    BY <1>1, <1>4
  <2>3. Loops(K2, k + 1, f)
    BY <1>2, <1>4, <2>2 DEF Loops
  <2>4. Loop(K2, k + 1) = "inner"
    BY <1>2, <1>3
  <2> QED
    BY <2>1, <2>3, <2>4 DEF Frame
<1>8. Chained(K2, t, c)
  <2>1. \A i \in 1..Len(t) : i >= K2.lo => i = k + 1 /\ i <= K2.lo
    BY <1>1, <1>3
  <2> QED
    BY <1>3, <1>7, <2>1 DEF Chained, Hands
<1>9. CallIn(K2, k + 2, c, f, y)
  <2>1. Loop(K2, k + 2) = "inner"
    BY <1>2, <1>3
  <2>2. Same("inner", y, K2.X[d])
    BY <1>1 DEF Same
  <2> QED
    BY <1>2, <2>1, <2>2, EnteredCall
<1>10. Len(t) + 1 = k + 2
  BY <1>3
<1>11. Suits("inner", y.hs)
  <2>1. y.hs # <<>> /\ Len(y.hs) = 1 /\ y.hs[1] = Catch
    OBVIOUS
  <2> QED
    BY <2>1 DEF Suits, EndsInCatch
<1> QED
  BY <1>2, <1>5, <1>6, <1>8, <1>9, <1>10, <1>11 DEF Sound

\* RunSync is called after an error passed on has reached the outermost loop.
LEMMA RunSyncAnew ==
  ASSUME SyncTypes, native = <<>>, UserRunSync, passed'
  PROVE  \E K2 : Viewed(K2)'
<1> DEFINE f == Closure([fn |-> "Break"], curDW)
           s2 == stack'
           c == Closure(User("thunk"), curDW)
<1>1. /\ native' = Append(native, Local) /\ handlers' = <<Catch>>
      /\ s2 = Push(stack, [fn |-> "Break"], curDW) /\ call' = c
      /\ UNCHANGED <<curDW, winds, objs, env>>
  BY DEF UserRunSync, Apply
<1>2. /\ n0 \in Nat /\ m0 \in Nat /\ stack \in Seq(SyncFrames(n0, m0)) /\ curDW \in 0..n0
      /\ env \in 0..m0
  BY Typed
<1>3. Len(stack) \in Nat /\ Len(s2) = Len(stack) + 1 /\ s2[Len(stack) + 1] = f /\ Top(s2) = f
  <2>1. PICK q : q = [fn |-> "Break"]
    OBVIOUS
  <2>2. f = Closure(q, curDW) /\ s2 = Push(stack, q, curDW)
    BY <1>1, <2>1
  <2>3. q \in SyncContinuations(n0, m0)
    BY <2>1 DEF SyncContinuations
  <2>4. f \in SyncFrames(n0, m0)
    BY <1>2, <2>2, <2>3 DEF Closure, SyncFrames
  <2> HIDE DEF f, s2
  <2> QED
    BY <1>2, <2>2, <2>4, PushFrames
<1>4. PICK r : r = Local
  OBVIOUS
<1>5. r.top = Len(stack) /\ r.dw = curDW /\ r.env = env
  BY <1>4 DEF Local
<1>6. PICK N2 : N2 = Append(native, r)
  OBVIOUS
<1>7. N2 = <<r>>
  BY <1>6
<1>8. PICK X2 : X2 = [w \in {curDW} |-> [hs |-> <<>>, env |-> env]]
  OBVIOUS
<1>9. PICK P2 : P2 = [w \in {curDW} |-> {curDW}]
  OBVIOUS
<1>10. X2[curDW].env = env /\ P2[curDW] = {curDW}
  BY <1>8, <1>9
<1>11. PICK K2 : K2 = [W |-> winds, T |-> T0, N |-> N2, lo |-> Len(stack) + 1,
                       base |-> curDW, P |-> P2, X |-> X2, G |-> {}, G0 |-> {}]
  OBVIOUS
<1>12. /\ K2.W = winds /\ K2.T = T0 /\ K2.N = N2 /\ K2.lo = Len(stack) + 1
       /\ K2.base = curDW /\ K2.P = P2 /\ K2.X = X2 /\ K2.G = {} /\ K2.G0 = {}
  BY <1>11
<1>13. Starts(K2, winds, stack, curDW, r)
  <2>1. Len(N2) = 1 /\ N2 # <<>> /\ N2[1] = r
    BY <1>7
  <2>2. env \in Int
    BY <1>2
  <2> QED
    BY <1>5, <1>10, <1>12, <2>1, <2>2 DEF Starts
<1>14. PICK y : y = Now'
  OBVIOUS
<1>15. y.env = r.env /\ y.hs = <<Catch>>
  BY <1>1, <1>5, <1>14 DEF Now
<1>16. Sound(K2, stack', call', Now')
  <2>1. PICK g : g = f
    OBVIOUS
  <2>2. PICK t : t = stack'
    OBVIOUS
  <2>3. PICK d : d = call'
    OBVIOUS
  <2>4. /\ g = Closure([fn |-> "Break"], curDW) /\ d = Closure(User("thunk"), curDW)
        /\ Len(t) = Len(stack) + 1 /\ t[Len(stack) + 1] = g /\ Top(t) = g
        /\ Len(stack) \in Nat /\ Len(winds) \in Nat /\ curDW \in 0..Len(winds)
    BY <1>1, <1>2, <1>3, <2>1, <2>2, <2>3 DEF n0
  <2> HIDE DEF f, c, s2
  <2>5. Sound(K2, t, d, y)
    BY <1>13, <1>15, <2>4, StartedSound
  <2> QED
    BY <1>14, <2>2, <2>3, <2>5
<1>17. K2.W = winds' /\ K2.T = ThunksOf(objs') /\ K2.N = native'
  BY <1>1, <1>4, <1>6, <1>12 DEF T0
<1>18. call'.at = curDW'
  BY <1>1 DEF Closure
<1> QED
  BY <1>16, <1>17, <1>18, NewView

\* Before anything has run.
LEMMA FirstView ==
  ASSUME SyncInit PROVE \E K : Viewed(K)
<1>1. /\ stack = <<>> /\ curDW = 0 /\ winds = <<>> /\ handlers = <<>> /\ objs = <<>> /\ env = 0
      /\ native = <<>> /\ ~passed /\ call = Bottom
  BY DEF SyncInit, Init
<1>2. PICK X2 : X2 = [w \in {0} |-> Base]
  OBVIOUS
<1>3. PICK P2 : P2 = [w \in {0} |-> {0}]
  OBVIOUS
<1>4. X2[0] = Base /\ P2[0] = {0}
  BY <1>2, <1>3
<1>5. PICK K : K = [W |-> winds, T |-> T0, N |-> native, lo |-> 0, base |-> 0,
                    P |-> P2, X |-> X2, G |-> {}, G0 |-> {}]
  OBVIOUS
<1>6. /\ K.W = winds /\ K.T = T0 /\ K.N = <<>> /\ K.lo = 0 /\ K.base = 0
      /\ K.P[0] = {0} /\ K.X[0] = Base /\ K.G = {} /\ K.G0 = {}
  BY <1>1, <1>4, <1>5
<1>7. PICK f : f = Bottom
  OBVIOUS
<1>8. f.run.fn = "Bottom" /\ f.at = 0 /\ LeadsTo(f) = 0 /\ Needs(f, K.X, K.T) = Base
  BY <1>6, <1>7 DEF Bottom, Closure, LeadsTo, Needs
<1>9. /\ LoopNow(K) = "outer" /\ Loop(K, 1) = "outer" /\ 0 \in Zone(K, "outer")
      /\ Within(K, 1, 0)
  <2>1. \A j \in 1..0 : FALSE
    OBVIOUS
  <2>2. Within(K, 1, 0)
    BY <1>6, <2>1 DEF Within
  <2> QED
    BY <1>6, <2>2 DEF LoopNow, Loop, Zone
<1>10. TreeOf(K)
  <2>1. 0 \in 0..Len(winds)
    BY <1>1
  <2>2. K.X[0].env \in Int
    BY <1>6 DEF Base
  <2> QED
    BY <1>6, <2>1, <2>2 DEF TreeOf
<1>11. Natives(K, <<>>, f) /\ Chained(K, <<>>, f)
  BY <1>6 DEF Natives, Chained
<1>12. CallIn(K, 1, f, f, Base)
  <2>1. Frame(K, 1, f)
    BY <1>6, <1>8, <1>9 DEF Frame, Body, Loops, Captured, InstallsFor, Restoring
  <2>2. Same("outer", Base, Base) /\ ~Changes(f.run)
    BY <1>8 DEF Same, Changes
  <2>3. Hands(K, 1, f, f)
    BY <1>6, <1>8, <1>9, <2>2 DEF Hands
  <2> QED
    BY <1>8, <1>9, <2>1, <2>2, <2>3 DEF CallIn
<1>13. Suits("outer", Base.hs)
  BY DEF Suits, NoCatch, Base
<1>14. Top(<<>>) = f /\ Now = Base /\ Coming = f
  BY <1>1, <1>7 DEF Top, Now, Base, Coming
<1>15. Sound(K, stack, Coming, Now)
  <2>1. Sound(K, <<>>, f, Base)
    BY <1>9, <1>10, <1>11, <1>12, <1>13, <1>14 DEF Sound
  <2> QED
    BY <1>1, <1>14, <2>1
<1> QED
  BY <1>1, <1>6, <1>8, <1>14, <1>15 DEF Viewed

-----------------------------------------------------------------------------
(* Every step keeps the invariant *)

\* What a loop that has just ended leaves.
EndsWell == Returning => /\ env = Last(native).env
                         /\ caught # "passed" => curDW = Last(native).dw

\* What a step has to show.
Follows ==
  /\ EndsWell'
  /\ native' # <<>> \/ ~passed' => \E K : Viewed(K)'

LEMMA GoesOn ==
  ASSUME call'.run.fn # "Bottom", native' # <<>> \/ ~passed' => \E K : Viewed(K)'
  PROVE  Follows
BY DEF Follows, EndsWell, Returning, Halted, Calling

\* Procedures called in a turn of Resume.
LEMMA TurnCalls ==
  ASSUME Turn PROVE call.run.fn \notin {"Break", "Catch", "Bottom"}
<1>1. CASE WindStep
  BY <1>1 DEF WindStep, WindBody, WindExit, Forward, Calling
<1>2. CASE TraverseStep
  BY <1>2 DEF TraverseStep, TraverseArrive, TraverseDown, TraverseUp, ContinueUp, EnterWind,
              SetDW, Calling
<1>3. CASE EscapeStep
  BY <1>3 DEF EscapeStep, CallEscape, Restore, Calling
<1>4. CASE RaiseStep
  BY <1>4 DEF RaiseStep, CallSetHandlers, RaiseUncaught, RaiseToHandler, CallHandlerThunk,
              RaiseAgain, Calling
<1>5. CASE ObjectStep
  BY <1>5 DEF ObjectStep, ErrorThunk, SafeBefore, SafeAfter, ErrorHandler, ClearMark, Destroy,
              DestroyAgain, CallSetEnv, Calling
<1>6. CASE UserStep
  BY <1>6 DEF UserStep, UserReturn, UserWind, UserCallCC, UserThrow, UserRaise,
              UserRaiseContinuable, UserHandler, UserManaged, UserWithEnv, Use, Calling
<1> QED
  BY <1>1, <1>2, <1>3, <1>4, <1>5, <1>6 DEF Turn

LEMMA TurnFollows ==
  ASSUME SyncInv, Turn, UNCHANGED <<native, caught>>, passed => passed'
  PROVE  Follows
<1>1. /\ SyncTypes /\ NothingSaved /\ ObjectsSetEnv(T0)
      /\ native # <<>> \/ ~passed => \E K : Viewed(K)
  BY DEF SyncInv
<1>2. call.run.fn \notin {"Break", "Catch", "Bottom"}
  BY TurnCalls
<1>3. CASE native = <<>> /\ passed
  BY <1>3 DEF Follows, EndsWell, Returning
<1>4. CASE native # <<>> \/ ~passed
  <2>1. PICK K : Acting(K)
    BY <1>1, <1>2, <1>4 DEF Acting
  <2>2. (~passed' => ~passed) /\ UNCHANGED native
    OBVIOUS
  <2>3. \E K2 : Viewed(K2)'
    BY <1>1, <2>1, <2>2, TurnView
  <2>4. ASSUME native # <<>> PROVE call'.run.fn # "Bottom"
    <3>1. /\ Sound(K, stack, call, Now) /\ call.run.fn # "Break" /\ K.N = native
          /\ stack \in Seq(SyncFrames(n0, m0))
      BY <2>1, ActingFacts
    <3>2. 1 \in 1..Len(K.N) /\ K.N[1].top \in Nat /\ K.N[1].top < Len(stack)
      <4>1. K.N # <<>>
        BY <2>4, <3>1
      <4> QED
        BY <3>1, <4>1, SoundFacts
    <3>3. stack # <<>>
      BY <3>2
    <3> QED
      BY <1>1, <3>3, StillRunning
  <2>5. EndsWell'
    BY <2>2, <2>4 DEF EndsWell, Returning, Halted, Calling
  <2> QED
    BY <2>3, <2>5 DEF Follows
<1> QED
  BY <1>3, <1>4

LEMMA RunSyncFollows ==
  ASSUME SyncInv, UserRunSync, passed' <=> (passed \/ caught' = "passed")
  PROVE  Follows
<1>1. /\ SyncTypes /\ (caught = "passed" => passed)
      /\ native # <<>> \/ ~passed => \E K : Viewed(K)
  BY DEF SyncInv
<1>2. call' = Closure(User("thunk"), curDW) /\ Calling("User") /\ UNCHANGED caught
  BY DEF UserRunSync, Apply
<1>3. call'.run.fn # "Bottom"
  BY <1>2 DEF Closure, User
<1>4. call.run.fn \notin {"Break", "Catch", "Bottom"}
  BY <1>2 DEF Calling
<1>5. (~passed' => ~passed) /\ (passed => passed')
  OBVIOUS
<1>6. CASE native = <<>> /\ passed
  BY <1>1, <1>3, <1>5, <1>6, RunSyncAnew, GoesOn
<1>7. CASE native # <<>> \/ ~passed
  <2>1. PICK K : Acting(K)
    BY <1>1, <1>4, <1>7 DEF Acting
  <2> QED
    BY <1>3, <1>5, <2>1, RunSyncView, GoesOn
<1> QED
  BY <1>6, <1>7

LEMMA StopFollows ==
  ASSUME SyncInv, \/ UserCompileError \/ RaiseToBottom \/ Break \/ CallCatch,
         passed' <=> (passed \/ caught' = "passed")
  PROVE  Follows
<1>1. /\ SyncTypes /\ (caught = "passed" => passed)
      /\ native # <<>> \/ ~passed => \E K : Viewed(K)
  BY DEF SyncInv
<1>2. UNCHANGED <<native, env, curDW>>
  BY DEF UserCompileError, RaiseToBottom, Break, CallCatch
<1>3. (~passed' => ~passed) /\ (passed => passed')
  OBVIOUS
<1>4. CASE native = <<>> /\ passed
  BY <1>2, <1>3, <1>4 DEF Follows, EndsWell, Returning
<1>5. CASE native # <<>> \/ ~passed
  <2>1. PICK K : Viewed(K)
    BY <1>1, <1>5
  <2>2. ASSUME call.run.fn \notin {"Break", "Bottom"} PROVE Acting(K)
    BY <1>1, <2>1, <2>2 DEF Acting
  <2>3. CASE Break
    <3>1. Viewed(K)' /\ native # <<>> /\ env = Last(native).env /\ curDW = Last(native).dw
      BY <1>1, <1>3, <2>1, <2>3, BreakView
    <3> QED
      BY <1>2, <3>1 DEF Follows, EndsWell
  <2>4. CASE CallCatch
    <3>1. Acting(K)
      BY <2>2, <2>4 DEF CallCatch, Calling
    <3>2. Viewed(K)' /\ native # <<>> /\ env = Last(native).env /\ curDW = Last(native).dw
      BY <1>3, <2>4, <3>1, CatchView
    <3> QED
      BY <1>2, <3>2 DEF Follows, EndsWell
  <2>5. CASE RaiseToBottom
    <3>1. Acting(K)
      BY <2>2, <2>5 DEF RaiseToBottom, Calling
    <3>2. Viewed(K)'
      BY <1>3, <2>5, <3>1, RaiseToBottomView
    <3>3. call'.run.fn # "Bottom"
      BY <2>5 DEF RaiseToBottom, Apply, Closure, Traverse
    <3> QED
      BY <3>2, <3>3, GoesOn
  <2>6. CASE UserCompileError
    <3>1. Acting(K)
      BY <2>2, <2>6 DEF UserCompileError, Calling
    <3>2. Viewed(K)' /\ (call' = Bottom => native # <<>> /\ env = Last(native).env)
      BY <1>3, <2>6, <3>1, CompileErrorView
    <3>3. \/ call' = Bottom /\ caught' = "passed"
          \/ call'.run.fn # "Bottom"
      BY <2>6 DEF UserCompileError, Apply, Closure, Raise
    <3>4. CASE call' = Bottom /\ caught' = "passed"
      BY <1>2, <3>2, <3>4 DEF Follows, EndsWell
    <3>5. CASE call'.run.fn # "Bottom"
      BY <3>2, <3>5, GoesOn
    <3> QED
      BY <3>3, <3>4, <3>5
  <2> QED
    BY <2>3, <2>4, <2>5, <2>6
<1> QED
  BY <1>4, <1>5

\* The environments of the nested calls are in the order of the calls.
LEMMA CallerEnv ==
  ASSUME NEW K, SyncTypes, Viewed(K), native # <<>>, env = Last(native).env,
         RunSyncDepth(Last(native).env, Front(native)) > 0
  PROVE  Front(native) # <<>> /\ env = Last(Front(native)).env
<1> DEFINE L == Len(native)
           F == Front(native)
<1>1. /\ native \in Seq(SyncLocals(n0, m0)) /\ L \in Nat
  BY Typed
<1>2. /\ K.N = native /\ TreeOf(K) /\ Natives(K, stack, Coming)
  BY DEF Viewed, Sound
<1>3. /\ L # 0 /\ Len(F) = L - 1 /\ F \in Seq(SyncLocals(n0, m0))
      /\ \A j \in 1..(L - 1) : F[j] = native[j]
  BY <1>1, FrontOf
<1>4. Last(native) = native[L]
  BY DEF Last
<1>5. PICK j \in 1..(L - 1) : native[j].env = env
  <2>0. PICK G : G = F
    OBVIOUS
  <2>1. PICK j \in DOMAIN F : F[j].env = env
    <3>1. RunSyncDepth(env, G) > 0
      BY <2>0
    <3> QED
      BY <2>0, <3>1, DepthFacts
  <2>2. DOMAIN F = 1..(L - 1)
    BY <1>3, LenProperties
  <2> QED
    BY <1>3, <2>1, <2>2
<1>6. /\ L - 1 \in 1..L /\ L - 1 \in 1..(L - 1) /\ j \in 1..L /\ L \in 1..L /\ L - 1 # 0
  <2>1. L \in Nat /\ j \in 1..(L - 1)
    BY <1>1, <1>5
  <2> HIDE DEF L
  <2> QED
    BY <2>1
<1>7. F # <<>> /\ Last(F) = native[L - 1]
  BY <1>3, <1>6 DEF Last
<1> HIDE DEF F, L
<1>8. \A i \in 1..L : native[i].dw \in K.G \cup {K.base} /\ native[i].dw \in K.P[native[L].dw]
  <2>1. native = K.N /\ L = Len(K.N) /\ K.N # <<>>
    BY <1>2 DEF L
  <2>2. \A i \in 1..L : K.N[i].dw \in K.P[K.N[L].dw]
    BY <1>2, <2>1, LastLoop
  <2>3. \A i \in 1..L : K.N[i].dw \in K.G \cup {K.base}
    BY <1>2, <2>1, NestedIn
  <2> QED
    BY <2>1, <2>2, <2>3
<1>9. native[j].dw \in K.P[native[L - 1].dw]
  <2>1. CASE j = L - 1
    BY <1>2, <1>6, <1>8, <2>1 DEF TreeOf
  <2>2. CASE j # L - 1
    <3>1. j \in 1..((L - 1) - 1)
      BY <1>1, <1>5, <2>2
    <3>2. Nested(K, stack, Coming, L - 1)
      BY <1>2, <1>6 DEF Natives, L
    <3> QED
      BY <1>2, <3>1, <3>2 DEF Nested
  <2> QED
    BY <2>1, <2>2
<1>10. /\ native[j].env \in Int /\ native[j].env <= K.X[native[L - 1].dw].env
       /\ native[L - 1].env \in Int /\ native[L - 1].env <= K.X[native[L].dw].env
       /\ native[L - 1].env = K.X[native[L - 1].dw].env
       /\ native[L].env = K.X[native[L].dw].env
  <2>1. L = Len(K.N) /\ native = K.N
    BY <1>2 DEF L
  <2>2. /\ K.N[j].env \in Int /\ K.N[j].env <= K.X[K.N[L - 1].dw].env
    BY <1>2, <1>6, <1>8, <1>9, <2>1, EnvOrder
  <2>3. /\ K.N[L - 1].env \in Int /\ K.N[L - 1].env <= K.X[K.N[L].dw].env
        /\ K.N[L - 1].env = K.X[K.N[L - 1].dw].env
    BY <1>2, <1>6, <1>8, <2>1, EnvOrder
  <2>4. K.N[L].env = K.X[K.N[L].dw].env
    BY <1>2, <1>6, <1>8, <2>1, EnvOrder
  <2> QED
    BY <2>1, <2>2, <2>3, <2>4
<1>11. native[j].env = env /\ native[L].env = env
  BY <1>4, <1>5
<1>12. native[L - 1].env = env
  BY <1>10, <1>11
<1> QED
  BY <1>7, <1>12 DEF F

\* RunSync returns, with a result or an error.
LEMMA ReturnFollows ==
  ASSUME SyncInv, SyncResult \/ SyncPassError \/ SyncRaiseError,
         passed' <=> (passed \/ caught' = "passed")
  PROVE  Follows
<1>1. /\ SyncTypes /\ (caught = "passed" => passed) /\ EndsWell
      /\ native # <<>> \/ ~passed => \E K : Viewed(K)
  BY DEF SyncInv, EndsWell
<1>2. Returning /\ native # <<>> /\ native' = Front(native) /\ UNCHANGED <<env, curDW>>
  BY DEF SyncResult, SyncPassError, SyncRaiseError, ReturnFromSync, Returning
<1>3. (~passed' => ~passed) /\ (passed => passed') /\ (caught' = "passed" => passed')
  OBVIOUS
<1>4. env = Last(native).env /\ (caught # "passed" => curDW = Last(native).dw)
  BY <1>1, <1>2 DEF EndsWell
<1>5. PICK K : Viewed(K)
  BY <1>1, <1>2
<1>6. CASE SyncResult
  <2>1. caught = "none" /\ call' = Closure(User("main"), curDW)
    BY <1>6 DEF SyncResult, ReturnFromSync
  <2>2. call'.run.fn # "Bottom"
    BY <2>1 DEF Closure, User
  <2>3. ASSUME native' # <<>> \/ ~passed' PROVE \E K2 : Viewed(K2)'
    BY <1>1, <1>3, <1>4, <1>5, <1>6, <2>1, <2>3, SyncResultView
  <2> QED
    BY <2>2, <2>3, GoesOn
<1>7. CASE SyncPassError
  <2>1. /\ caught # "none" /\ RunSyncDepth(Last(native).env, Front(native)) > 0
        /\ ReturnFromSync(Bottom) /\ caught' = "passed"
    BY <1>7 DEF SyncPassError
  <2>2. native' # <<>> /\ env = Last(native').env
    BY <1>1, <1>2, <1>4, <1>5, <2>1, CallerEnv
  <2>3. EndsWell'
    BY <1>2, <2>1, <2>2 DEF EndsWell
  <2>4. PICK c2 : c2 = Bottom
    OBVIOUS
  <2>5. /\ ReturnFromSync(c2) /\ caught' # "none"
        /\ c2 = Closure(Raise, curDW) \/ (c2 = Bottom /\ native' # <<>> /\ caught' # "none")
    BY <2>1, <2>2, <2>4
  <2>6. \E K2 : Viewed(K2)'
    BY <1>1, <1>2, <1>3, <1>4, <1>5, <2>1, <2>2, <2>5, SyncErrorView
  <2> QED
    BY <2>3, <2>6 DEF Follows
<1>8. CASE SyncRaiseError
  <2>1. caught # "none" /\ ReturnFromSync(Closure(Raise, curDW)) /\ caught' = caught
    BY <1>8 DEF SyncRaiseError
  <2>2. call'.run.fn # "Bottom"
    BY <2>1 DEF ReturnFromSync, Closure, Raise
  <2>3. PICK c2 : c2 = Closure(Raise, curDW)
    OBVIOUS
  <2>4. ASSUME native' # <<>> \/ ~passed' PROVE \E K2 : Viewed(K2)'
    <3>1. caught = "passed" => native' # <<>>
      BY <1>1, <1>3, <2>4
    <3>2. ReturnFromSync(c2)
      BY <2>1, <2>3
    <3>3. c2 = Closure(Raise, curDW) \/ (c2 = Bottom /\ native' # <<>> /\ caught' # "none")
      BY <2>3
    <3> QED
      BY <1>1, <1>2, <1>3, <1>4, <1>5, <2>1, <2>4, <3>1, <3>2, <3>3, SyncErrorView
  <2> QED
    BY <2>2, <2>4, GoesOn
<1> QED
  BY <1>6, <1>7, <1>8

LEMMA HostFollows ==
  ASSUME SyncInv, native = <<>>, HostCall, UNCHANGED <<native, caught, passed>>
  PROVE  Follows
<1>1. /\ SyncTypes /\ (native # <<>> \/ ~passed => \E K : Viewed(K))
  BY DEF SyncInv
<1>2. call'.run.fn # "Bottom"
  BY DEF HostCall, Apply, Closure, User
<1>3. ASSUME native' # <<>> \/ ~passed' PROVE \E K : Viewed(K)'
  <2>1. native = <<>> /\ ~passed /\ (~passed' => ~passed) /\ UNCHANGED native
    BY <1>3
  <2>2. PICK K : Viewed(K)
    BY <1>1, <2>1
  <2> QED
    BY <1>1, <2>1, <2>2, HostView
<1> QED
  BY <1>2, <1>3, GoesOn

LEMMA SyncStep ==
  ASSUME NoEscapes, SyncInv, SyncNext PROVE SyncInv'
<1>1. /\ SyncTypes /\ NothingSaved /\ ObjectsSetEnv(T0) /\ (caught = "passed" => passed)
  BY DEF SyncInv
<1>2. NothingSaved'
  <2>1. [SyncNext]_syncVars
    OBVIOUS
  <2> QED
    BY <1>1, <2>1, SavedStep
<1>3. CASE SyncTurn
  <2>1. passed' <=> (passed \/ caught' = "passed")
    <3>1. passed' = (passed \/ caught' = "passed") /\ passed \in BOOLEAN
      BY <1>1, <1>3 DEF SyncTurn, SyncTypes
    <3> QED
      BY <3>1
  <2>2. SyncTypes'
    BY <1>1, <1>3, SyncTurnTypes
  <2>3. ObjectsSetEnv(T0)'
    <3>1. Turn \/ UNCHANGED objs
      BY <1>3 DEF SyncTurn, UserRunSync, UserCompileError, RaiseToBottom, Break, CallCatch,
                  SyncResult, SyncPassError, SyncRaiseError, ReturnFromSync
    <3> QED
      BY <1>1, <3>1, ObjectsKept
  <2>4. Follows
    <3>1. CASE Turn /\ UNCHANGED <<native, caught>>
      BY <2>1, <3>1, TurnFollows
    <3>2. CASE UserRunSync
      BY <2>1, <3>2, RunSyncFollows
    <3>3. CASE UserCompileError \/ RaiseToBottom \/ Break \/ CallCatch
      BY <2>1, <3>3, StopFollows
    <3>4. CASE SyncResult \/ SyncPassError \/ SyncRaiseError
      BY <2>1, <3>4, ReturnFollows
    <3> QED
      BY <1>3, <3>1, <3>2, <3>3, <3>4 DEF SyncTurn
  <2>5. (caught = "passed" => passed)'
    BY <2>1
  <2> QED
    BY <1>2, <2>2, <2>3, <2>4, <2>5 DEF SyncInv, Follows, EndsWell
<1>4. CASE native = <<>> /\ HostCall /\ UNCHANGED <<native, caught, passed>>
  <2>1. SyncTypes' /\ Follows
    BY <1>1, <1>4, SyncHostTypes, HostFollows
  <2>2. ObjectsSetEnv(T0)'
    <3>1. UNCHANGED objs
      BY <1>4 DEF HostCall
    <3> QED
      BY <1>1, <3>1, ObjectsKept
  <2>3. (caught = "passed" => passed)'
    BY <1>1, <1>4
  <2> QED
    BY <1>2, <2>1, <2>2, <2>3 DEF SyncInv, Follows, EndsWell
<1> QED
  BY <1>3, <1>4 DEF SyncNext

LEMMA SyncStutter ==
  ASSUME SyncInv, UNCHANGED syncVars PROVE SyncInv'
<1>1. UNCHANGED <<stack, call, curDW, bottomDW, winds, handlers, conts, objs, env, fuel, native,
                  caught, passed>>
  BY DEF syncVars, vars
<1>2. SyncTypes' /\ NothingSaved' /\ ObjectsSetEnv(T0)' /\ (caught = "passed" => passed)'
  BY <1>1 DEF SyncInv, SyncTypes, NothingSaved, ObjectsSetEnv, T0
<1>3. EndsWell'
  BY <1>1 DEF SyncInv, EndsWell, Returning, Halted, Calling
<1>4. ASSUME NEW K, Viewed(K) PROVE Viewed(K)'
  BY <1>1, <1>4 DEF Viewed, Coming, Now, T0, Halted, Calling
<1>5. (native # <<>> \/ ~passed => \E K : Viewed(K))'
  BY <1>1, <1>4 DEF SyncInv
<1> QED
  BY <1>2, <1>3, <1>5 DEF SyncInv, EndsWell

LEMMA SyncFirst ==
  SyncInit => SyncInv
<1> SUFFICES ASSUME SyncInit PROVE SyncInv
  OBVIOUS
<1>1. SyncTypes /\ NothingSaved
  BY SyncInitTypes
<1>2. objs = <<>> /\ native = <<>> /\ caught = "none"
  BY DEF SyncInit, Init
<1>3. ObjectsSetEnv(T0)
  <2>1. DOMAIN objs = {}
    BY <1>2
  <2> QED
    BY <2>1 DEF ObjectsSetEnv, T0, ThunksOf
<1>4. \E K : Viewed(K)
  BY FirstView
<1> QED
  BY <1>1, <1>2, <1>3, <1>4 DEF SyncInv, Returning

\* Every state of nested run loops without escapes has a view, or an error
\* passed on has reached the outermost loop.
THEOREM SyncInvariant ==
  ASSUME NoEscapes PROVE SyncSpec => []SyncInv
<1>1. SyncInit => SyncInv
  BY SyncFirst
<1>2. SyncInv /\ [SyncNext]_syncVars => SyncInv'
  BY SyncStep, SyncStutter
<1> QED
  BY <1>1, <1>2, PTL DEF SyncSpec

-----------------------------------------------------------------------------
(* What follows *)

\* RunSync returns in the extent it was called in, with a result to the stack
\* of its caller.
THEOREM NestedUnwound ==
  ASSUME NoEscapes PROVE SyncSpec => []SyncUnwound
<1>1. SyncInv => SyncUnwound
  <2> SUFFICES ASSUME SyncInv, Returning PROVE SyncUnwound
    BY DEF SyncUnwound
  <2>1. caught # "passed" => curDW = Last(native).dw
    BY DEF SyncInv
  <2>2. ASSUME caught = "none" PROVE Len(stack) = Last(native).top
    <3>1. native # <<>> /\ Halted /\ SyncTypes
      BY DEF Returning, SyncInv
    <3>2. PICK K : Viewed(K)
      BY <3>1 DEF SyncInv
    <3>3. PICK c : c = Closure([fn |-> "Break"], Last(native).dw)
      OBVIOUS
    <3>4. c.run.fn = "Break" /\ Sound(K, stack, c, Now) /\ K.N = native
      BY <2>2, <3>1, <3>2, <3>3 DEF Viewed, Coming, Closure
    <3>5. stack \in Seq(SyncFrames(n0, m0))
      BY <3>1, Typed
    <3>6. K.N[Len(K.N)].top = Len(stack)
      BY <3>4, <3>5, LoopEnds
    <3> QED
      BY <3>4, <3>6 DEF Last
  <2> QED
    BY <2>1, <2>2 DEF SyncUnwound
<1>2. SyncSpec => []SyncInv
  BY SyncInvariant
<1> QED
  BY <1>1, <1>2, PTL

\* And in the environment it was called in: the OpGen that called it is there.
THEOREM NestedKeepsOpGen ==
  ASSUME NoEscapes PROVE SyncSpec => []OpGenKept
<1>1. SyncInv => OpGenKept
  BY DEF SyncInv, OpGenKept
<1>2. SyncSpec => []SyncInv
  BY SyncInvariant
<1> QED
  BY <1>1, <1>2, PTL

\* The loops do not see each other's handlers.
THEOREM NestedHandlers ==
  ASSUME NoEscapes PROVE SyncSpec => []SyncHandlers
<1>1. SyncInv => SyncHandlers
  <2> SUFFICES ASSUME SyncInv, ~passed PROVE SyncHandlers
    BY DEF SyncHandlers
  <2>1. PICK K : Viewed(K)
    BY DEF SyncInv
  <2>2. K.N = native /\ Suits(LoopNow(K), handlers)
    BY <2>1 DEF Viewed, Sound, Now
  <2>3. ASSUME native = <<>> PROVE Catch \notin ToSet(handlers)
    <3>1. NoCatch(handlers)
      BY <2>2, <2>3 DEF Suits, LoopNow
    <3>2. handlers \in SyncHandlerLists(m0)
      BY Typed DEF SyncInv
    <3>3. DOMAIN handlers = 1..Len(handlers)
      BY <3>2, LenProperties DEF SyncHandlerLists
    <3> QED
      BY <3>1, <3>3 DEF NoCatch, ToSet
  <2>4. ASSUME native # <<>> PROVE Last(handlers) = Catch
    BY <2>2, <2>4 DEF Suits, LoopNow, EndsInCatch, Last
  <2> QED
    BY <2>3, <2>4 DEF SyncHandlers
<1>2. SyncSpec => []SyncInv
  BY SyncInvariant
<1> QED
  BY <1>1, <1>2, PTL

\* When the outermost loop ends nothing is left of the nested ones.
THEOREM NestedUnwoundAtEnd ==
  ASSUME NoEscapes PROVE SyncSpec => []SyncUnwoundAtEnd
<1>1. SyncInv => SyncUnwoundAtEnd
  <2> SUFFICES ASSUME SyncInv, native = <<>>, ~passed, Halted
               PROVE  curDW = bottomDW /\ stack = <<>> /\ handlers = <<>> /\ env = 0
    BY DEF SyncUnwoundAtEnd, UnwoundAtEnd
  <2>1. PICK K : Viewed(K)
    BY DEF SyncInv
  <2>2. SyncTypes /\ stack \in Seq(SyncFrames(n0, m0))
    BY Typed DEF SyncInv
  <2>3. call.run.fn = "Bottom" /\ Coming = call
    BY DEF Halted, Calling, Coming
  <2>4. /\ K.N = <<>> /\ K.lo = 0 /\ call.at = curDW /\ Natives(K, stack, call)
        /\ CallIn(K, Len(stack) + 1, call, Top(stack), Now)
    BY <2>1, <2>3 DEF Viewed, Sound
  <2>5. Len(stack) + 1 = 1 /\ call.at = 0
    BY <2>3, <2>4 DEF CallIn, Frame, Loops
  <2>6. stack = <<>>
    BY <2>2, <2>5, EmptySeq, LenProperties
  <2>7. bottomDW = 0
    <3>1. Len(native) + 1 = 1
      OBVIOUS
    <3>2. bottomDW = BottomOf(native, Len(native) + 1)
      BY <2>2 DEF SyncTypes
    <3> QED
      BY <3>1, <3>2 DEF BottomOf
  <2>8. K.X[0] = Base
    BY <2>4 DEF Natives
  <2>9. Same("outer", Now, K.X[0])
    BY <2>3, <2>4, <2>5 DEF CallIn, Changes, Needs, LoopNow
  <2>10. handlers = <<>> /\ env = 0
    BY <2>8, <2>9 DEF Same, Now, Base
  <2> QED
    BY <2>4, <2>5, <2>6, <2>7, <2>10
<1>2. SyncSpec => []SyncInv
  BY SyncInvariant
<1> QED
  BY <1>1, <1>2, PTL
=============================================================================
