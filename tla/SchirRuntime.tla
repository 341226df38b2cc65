---------------------------- MODULE SchirRuntime ----------------------------
(***************************************************************************)
(* The run loop of the Schir Scheme runtime: the continuation stack,       *)
(* dynamic-wind, escape procedures made by call/cc, the exception handler  *)
(* list, and C++ objects whose lifetime is a dynamic extent.               *)
(*                                                                         *)
(* Source: schir/include/schir/ContinuationStack.h (the stack) and         *)
(* schir/lib/Context.cpp (exceptions, managed objects, environments).      *)
(*                                                                         *)
(* One step is one turn of ContinuationStack::Resume: the pending call in  *)
(* ApplyArgs is run and leaves the next pending call behind.  The C++      *)
(* closures given to PushCont and CreateLambda are records: fn names the   *)
(* closure and the other fields are its captures.  Two C++ functions that  *)
(* call themselves or each other in tail position, TraverseWindings and    *)
(* Raise, are pending calls of their own, so a step is one level of their  *)
(* recursion; nothing else can run in between.                             *)
(*                                                                         *)
(* Scheme code and the C++ code that drives the runtime are "User"         *)
(* procedures: each time control is in one it may return or use any        *)
(* operation of the runtime, then go on (it pushes a continuation of its   *)
(* own before a call that can return).  Argument values are left out: no   *)
(* branch modelled here depends on them.                                   *)
(*                                                                         *)
(* Definitions marked "Broken" are mistakes the code could have made; they *)
(* are used nowhere and show which property would notice each of them.     *)
(***************************************************************************)
EXTENDS Integers, Sequences

CONSTANTS
  MaxOps,   \* bound: operations user code performs in a behaviour
  Ops       \* the operations user code uses

AllOps == {"wind", "callcc", "throw", "raise", "raiseContinuable", "handler",
           "managed", "withEnv", "sync", "compileError"}

ASSUME OpsAssumption == MaxOps \in Nat /\ Ops \subseteq AllOps

VARIABLES
  stack,      \* the continuation stack; its last element is Top
  call,       \* ApplyArgs: the closure about to be called, or Bottom
  curDW,      \* CurDW: the current winding, 0 for the null winding
  bottomDW,   \* BottomDW: the winding an uncaught error unwinds to
  winds,      \* the winding vectors allocated so far
  handlers,   \* ExceptionHandlers, a list; its first element is its Car
  conts,      \* what CallCC saved: a copy of the stack and the winding
  objs,       \* the sentinels of the managed objects, and their thunks
  env,        \* EnvStack: the object that owns the environment, 0 the default
  fuel        \* bound: user operations left

vars == <<stack, call, curDW, bottomDW, winds, handlers, conts, objs, env, fuel>>

-----------------------------------------------------------------------------
(* Procedures *)

Roles == {"main", "before", "thunk", "after", "handler"}
User(role) == [fn |-> "User", role |-> role]

SetHandlers(hs)   == [fn |-> "SetHandlers", hs |-> hs]
SetEnv(e)         == [fn |-> "SetEnv", e |-> e]
HandlerThunk(h, continuable) ==
  [fn |-> "HandlerThunk", h |-> h, continuable |-> continuable]
Escape(k)         == [fn |-> "Escape", k |-> k]
OfObject(name, o) == [fn |-> name, o |-> o]
Traverse(src, dest) == [fn |-> "Traverse", src |-> src, dest |-> dest]
Raise  == [fn |-> "Raise"]
Catch  == [fn |-> "Catch"]    \* the handler RunSync puts under the others

\* A closure on the stack or about to be called.  `at` is auxiliary: the
\* winding its code belongs to, that is CurDW when it was created or, for the
\* frames of TraverseWindings, the winding the traversal has reached by then.
Closure(proc, dw) == [run |-> proc, at |-> dw]
Bottom == Closure([fn |-> "Bottom"], 0)

Calling(name) == call.run.fn = name
Halted == Calling("Bottom")

-----------------------------------------------------------------------------
(* The continuation stack *)

Push(s, proc, dw) == Append(s, Closure(proc, dw))
Top(s) == IF s = <<>> THEN Bottom ELSE s[Len(s)]
Pop(s) == IF s = <<>> THEN <<>> ELSE SubSeq(s, 1, Len(s) - 1)

Apply(proc, dw) == call' = Closure(proc, dw)
Cont(s) == stack' = Pop(s) /\ call' = Top(s)

Depth(w)  == IF w = 0 THEN 0 ELSE winds[w].depth
Parent(w) == IF w = 0 THEN 0 ELSE winds[w].parent

\* DynamicWind with s as the stack: call Before, then come back in WindBody.
DynamicWind(s, before, thunk, after) ==
  /\ stack' = Push(s, [fn |-> "WindBody", before |-> before, thunk |-> thunk,
                       after |-> after], curDW)
  /\ Apply(before, curDW)

\* Broken: the after thunk installs what the before thunk did.
HandlersNotRestored(s, hs, thunk) ==
  DynamicWind(s, SetHandlers(hs), thunk, SetHandlers(hs))

WithExceptionHandlers(s, hs, thunk) ==
  DynamicWind(s, SetHandlers(hs), thunk, SetHandlers(handlers))

-----------------------------------------------------------------------------
(* Windings *)

\* Broken: the depth of a winding is that of its parent.
WindBodyAtParentDepth ==
  /\ Calling("WindBody")
  /\ winds' = Append(winds, [depth |-> Depth(curDW), parent |-> curDW,
                             before |-> call.run.before, after |-> call.run.after])
  /\ curDW' = Len(winds) + 1
  /\ stack' = Push(stack, [fn |-> "WindExit", after |-> call.run.after,
                           prev |-> curDW], Len(winds) + 1)
  /\ Apply(call.run.thunk, Len(winds) + 1)
  /\ UNCHANGED <<bottomDW, handlers, conts, objs, env, fuel>>

\* Broken: CurDW is set before the winding is linked to it.
WindBodyLinkedToItself ==
  /\ Calling("WindBody")
  /\ winds' = Append(winds, [depth |-> Depth(curDW) + 1, parent |-> Len(winds) + 1,
                             before |-> call.run.before, after |-> call.run.after])
  /\ curDW' = Len(winds) + 1
  /\ stack' = Push(stack, [fn |-> "WindExit", after |-> call.run.after,
                           prev |-> curDW], Len(winds) + 1)
  /\ Apply(call.run.thunk, Len(winds) + 1)
  /\ UNCHANGED <<bottomDW, handlers, conts, objs, env, fuel>>

WindBody ==
  LET wind == call.run
      new  == Len(winds) + 1
  IN /\ Calling("WindBody")
     /\ winds' = Append(winds, [depth |-> Depth(curDW) + 1, parent |-> curDW,
                                before |-> wind.before, after |-> wind.after])
     /\ curDW' = new
     /\ stack' = Push(stack, [fn |-> "WindExit", after |-> wind.after,
                              prev |-> curDW], new)
     /\ Apply(wind.thunk, new)
     /\ UNCHANGED <<bottomDW, handlers, conts, objs, env, fuel>>

\* Broken: a normal return leaves CurDW where it is.
WindExitStays ==
  /\ Calling("WindExit")
  /\ stack' = Push(stack, [fn |-> "Forward"], call.run.prev)
  /\ Apply(call.run.after, call.run.prev)
  /\ UNCHANGED <<curDW, bottomDW, winds, handlers, conts, objs, env, fuel>>

WindExit ==
  LET wind == call.run
  IN /\ Calling("WindExit")
     /\ stack' = Push(stack, [fn |-> "Forward"], wind.prev)
     /\ curDW' = wind.prev
     /\ Apply(wind.after, wind.prev)
     /\ UNCHANGED <<bottomDW, winds, handlers, conts, objs, env, fuel>>

Forward ==
  /\ Calling("Forward")
  /\ Cont(stack)
  /\ UNCHANGED <<curDW, bottomDW, winds, handlers, conts, objs, env, fuel>>

-----------------------------------------------------------------------------
(* TraverseWindings(src, dest) *)

TraverseArrive ==
  /\ Calling("Traverse")
  /\ call.run.src = call.run.dest
  /\ Cont(stack)
  /\ UNCHANGED <<curDW, bottomDW, winds, handlers, conts, objs, env, fuel>>

\* dest is deeper: reach its parent first, then enter it.
TraverseDown ==
  LET src  == call.run.src
      dest == call.run.dest
  IN /\ Calling("Traverse")
     /\ src # dest
     /\ Depth(src) < Depth(dest)
     /\ stack' = Push(stack, [fn |-> "EnterWind", dest |-> dest], Parent(dest))
     /\ Apply(Traverse(src, Parent(dest)), curDW)
     /\ UNCHANGED <<curDW, bottomDW, winds, handlers, conts, objs, env, fuel>>

\* Broken: the before thunk is called on the way out.
TraverseUpCallsBefore ==
  LET src == call.run.src
  IN /\ Calling("Traverse")
     /\ src # call.run.dest
     /\ Depth(src) >= Depth(call.run.dest)
     /\ stack' = Push(stack, [fn |-> "ContinueUp", src |-> src, dest |-> call.run.dest],
                      Parent(src))
     /\ curDW' = Parent(src)
     /\ Apply(winds[src].before, Parent(src))
     /\ UNCHANGED <<bottomDW, winds, handlers, conts, objs, env, fuel>>

\* Leave src for its parent and call its after thunk there.
TraverseUp ==
  LET src  == call.run.src
      dest == call.run.dest
  IN /\ Calling("Traverse")
     /\ src # dest
     /\ Depth(src) >= Depth(dest)
     /\ stack' = Push(stack, [fn |-> "ContinueUp", src |-> src, dest |-> dest],
                      Parent(src))
     /\ curDW' = Parent(src)
     /\ Apply(winds[src].after, Parent(src))
     /\ UNCHANGED <<bottomDW, winds, handlers, conts, objs, env, fuel>>

\* Broken: the traversal goes on from the winding it has left.
ContinueUpFromLeft ==
  /\ Calling("ContinueUp")
  /\ Apply(Traverse(call.run.src, call.run.dest), curDW)
  /\ UNCHANGED <<stack, curDW, bottomDW, winds, handlers, conts, objs, env, fuel>>

ContinueUp ==
  /\ Calling("ContinueUp")
  /\ Apply(Traverse(Parent(call.run.src), call.run.dest), curDW)
  /\ UNCHANGED <<stack, curDW, bottomDW, winds, handlers, conts, objs, env, fuel>>

EnterWind ==
  LET dest == call.run.dest
  IN /\ Calling("EnterWind")
     /\ stack' = Push(stack, [fn |-> "SetDW", dest |-> dest], curDW)
     /\ Apply(winds[dest].before, curDW)
     /\ UNCHANGED <<curDW, bottomDW, winds, handlers, conts, objs, env, fuel>>

SetDW ==
  /\ Calling("SetDW")
  /\ curDW' = call.run.dest
  /\ Cont(stack)
  /\ UNCHANGED <<bottomDW, winds, handlers, conts, objs, env, fuel>>

-----------------------------------------------------------------------------
(* Escape procedures *)

\* Broken: the stack is restored without travelling.
EscapeWithoutTraversal ==
  /\ Calling("Escape")
  /\ Cont(conts[call.run.k].stack)
  /\ UNCHANGED <<curDW, bottomDW, winds, handlers, conts, objs, env, fuel>>

\* An escape procedure is called: travel to its winding, then restore.
CallEscape ==
  LET k == call.run.k
  IN /\ Calling("Escape")
     /\ stack' = Push(stack, [fn |-> "Restore", k |-> k], conts[k].dw)
     /\ Apply(Traverse(curDW, conts[k].dw), curDW)
     /\ UNCHANGED <<curDW, bottomDW, winds, handlers, conts, objs, env, fuel>>

Restore ==
  /\ Calling("Restore")
  /\ Cont(conts[call.run.k].stack)
  /\ UNCHANGED <<curDW, bottomDW, winds, handlers, conts, objs, env, fuel>>

-----------------------------------------------------------------------------
(* Exceptions *)

CallSetHandlers ==
  /\ Calling("SetHandlers")
  /\ handlers' = call.run.hs
  /\ Cont(stack)
  /\ UNCHANGED <<curDW, bottomDW, winds, conts, objs, env, fuel>>

\* A list that is not empty; what RunSync puts at the bottom is no pair.
IsPair(hs) == hs # <<>> /\ Head(hs) # Catch

\* Broken: an uncaught error just stops the loop.
RaiseUncaughtStops ==
  /\ Calling("Raise")
  /\ handlers = <<>>
  /\ stack' = <<>>
  /\ call' = Bottom
  /\ UNCHANGED <<curDW, bottomDW, winds, handlers, conts, objs, env, fuel>>

\* Nobody is left to handle it: drop the stack and leave every extent.
RaiseUncaught ==
  /\ Calling("Raise")
  /\ handlers = <<>>
  /\ stack' = <<>>
  /\ Apply(Traverse(curDW, bottomDW), curDW)
  /\ UNCHANGED <<curDW, bottomDW, winds, handlers, conts, objs, env, fuel>>

RaiseToHandler ==
  /\ Calling("Raise")
  /\ IsPair(handlers)
  /\ WithExceptionHandlers(stack, Tail(handlers),
                           HandlerThunk(Head(handlers), FALSE))
  /\ UNCHANGED <<curDW, bottomDW, winds, handlers, conts, objs, env, fuel>>

\* The handler of a raise must not return: what it returns is raised again.
CallHandlerThunk ==
  LET t == call.run
  IN /\ Calling("HandlerThunk")
     /\ stack' = IF t.continuable THEN stack
                 ELSE Push(stack, [fn |-> "RaiseAgain"], curDW)
     /\ Apply(t.h, curDW)
     /\ UNCHANGED <<curDW, bottomDW, winds, handlers, conts, objs, env, fuel>>

RaiseAgain ==
  /\ Calling("RaiseAgain")
  /\ Apply(Raise, curDW)
  /\ UNCHANGED <<stack, curDW, bottomDW, winds, handlers, conts, objs, env, fuel>>

\* RaiseContinuable with s as the stack.
RaiseContinuable(s) ==
  IF IsPair(handlers)
  THEN WithExceptionHandlers(s, Tail(handlers), HandlerThunk(Head(handlers), TRUE))
  ELSE stack' = s /\ Apply(Raise, curDW)

-----------------------------------------------------------------------------
(* Managed objects: objs[o] is the sentinel and the thunks of object o *)

\* ManagedObjectWind with s as the stack: an object is made, destroyed on
\* continuing, and inside an error handler its extent is entered.
ManagedObjectWind(s, before, after) ==
  LET o == Len(objs) + 1
  IN /\ objs' = Append(objs, [alive |-> TRUE, isError |-> FALSE,
                              before |-> before, after |-> after])
     /\ WithExceptionHandlers(Push(s, OfObject("Destroy", o), curDW),
                              <<OfObject("ErrorHandler", o)>> \o handlers,
                              OfObject("ErrorThunk", o))

ErrorThunk ==
  LET o == call.run.o
  IN /\ Calling("ErrorThunk")
     /\ DynamicWind(stack, OfObject("SafeBefore", o), User("thunk"),
                    OfObject("SafeAfter", o))
     /\ UNCHANGED <<curDW, bottomDW, winds, handlers, conts, objs, env, fuel>>

\* Broken: the extent of a destroyed object can be entered.
SafeBeforeUnchecked ==
  /\ Calling("SafeBefore")
  /\ Apply(objs[call.run.o].before, curDW)
  /\ UNCHANGED <<stack, curDW, bottomDW, winds, handlers, conts, objs, env, fuel>>

SafeBefore ==
  LET obj == objs[call.run.o]
  IN /\ Calling("SafeBefore")
     /\ Apply(IF obj.alive THEN obj.before ELSE Raise, curDW)
     /\ UNCHANGED <<stack, curDW, bottomDW, winds, handlers, conts, objs, env, fuel>>

SafeAfter ==
  LET o == call.run.o
  IN /\ Calling("SafeAfter")
     /\ stack' = IF objs[o].isError
                 THEN Push(stack, OfObject("Destroy", o), curDW) ELSE stack
     /\ Apply(objs[o].after, curDW)
     /\ UNCHANGED <<curDW, bottomDW, winds, handlers, conts, objs, env, fuel>>

\* Broken: the error handler does not mark the object.
ErrorHandlerUnmarked ==
  /\ Calling("ErrorHandler")
  /\ RaiseContinuable(Push(stack, OfObject("ClearMark", call.run.o), curDW))
  /\ UNCHANGED <<curDW, bottomDW, winds, handlers, conts, objs, env, fuel>>

\* Broken: the error handler destroys the object at once.
ErrorHandlerDestroys ==
  /\ Calling("ErrorHandler")
  /\ objs' = [objs EXCEPT ![call.run.o].alive = FALSE]
  /\ RaiseContinuable(Push(stack, OfObject("ClearMark", call.run.o), curDW))
  /\ UNCHANGED <<curDW, bottomDW, winds, handlers, conts, env, fuel>>

ErrorHandler ==
  LET o == call.run.o
  IN /\ Calling("ErrorHandler")
     /\ objs' = [objs EXCEPT ![o].isError = TRUE]
     /\ RaiseContinuable(Push(stack, OfObject("ClearMark", o), curDW))
     /\ UNCHANGED <<curDW, bottomDW, winds, handlers, conts, env, fuel>>

ClearMark ==
  /\ Calling("ClearMark")
  /\ objs' = [objs EXCEPT ![call.run.o].isError = FALSE]
  /\ Cont(stack)
  /\ UNCHANGED <<curDW, bottomDW, winds, handlers, conts, env, fuel>>

Destroy ==
  LET o == call.run.o
  IN /\ Calling("Destroy")
     /\ objs[o].alive
     /\ objs' = [objs EXCEPT ![o].alive = FALSE]
     /\ Cont(stack)
     /\ UNCHANGED <<curDW, bottomDW, winds, handlers, conts, env, fuel>>

DestroyAgain ==
  /\ Calling("Destroy")
  /\ ~objs[call.run.o].alive
  /\ Apply(Raise, curDW)
  /\ UNCHANGED <<stack, curDW, bottomDW, winds, handlers, conts, objs, env, fuel>>

CallSetEnv ==
  /\ Calling("SetEnv")
  /\ env' = call.run.e
  /\ Cont(stack)
  /\ UNCHANGED <<curDW, bottomDW, winds, handlers, conts, objs, fuel>>

-----------------------------------------------------------------------------
(* User code *)

\* The stack with the continuation of the running user code on it.
Here == Push(stack, User("main"), curDW)

Use(op) ==
  /\ Calling("User")
  /\ op \in Ops
  /\ fuel > 0
  /\ fuel' = fuel - 1
  /\ UNCHANGED <<curDW, bottomDW, winds, handlers, env>>

UserReturn ==
  /\ Calling("User")
  /\ Cont(stack)
  /\ UNCHANGED <<curDW, bottomDW, winds, handlers, conts, objs, env, fuel>>

UserWind ==
  /\ Use("wind")
  /\ DynamicWind(Here, User("before"), User("thunk"), User("after"))
  /\ UNCHANGED <<conts, objs>>

UserCallCC ==
  /\ Use("callcc")
  /\ conts' = Append(conts, [stack |-> Here, dw |-> curDW])
  /\ stack' = Here
  /\ Apply(User("thunk"), curDW)
  /\ UNCHANGED objs

UserThrow ==
  /\ Use("throw")
  /\ \E k \in DOMAIN conts : Apply(Escape(k), curDW)
  /\ UNCHANGED <<stack, conts, objs>>

UserRaise ==
  /\ Use("raise")
  /\ Apply(Raise, curDW)
  /\ UNCHANGED <<stack, conts, objs>>

UserRaiseContinuable ==
  /\ Use("raiseContinuable")
  /\ RaiseContinuable(Here)
  /\ UNCHANGED <<conts, objs>>

UserHandler ==
  /\ Use("handler")
  /\ WithExceptionHandlers(Here, <<User("handler")>> \o handlers, User("thunk"))
  /\ UNCHANGED <<conts, objs>>

\* Context::DynamicWind with an object and thunks of the caller.
UserManaged ==
  /\ Use("managed")
  /\ ManagedObjectWind(Here, User("before"), User("after"))
  /\ UNCHANGED conts

\* Broken: the default environment is restored after, not the previous one.
WithEnvResets ==
  /\ Use("withEnv")
  /\ ManagedObjectWind(Here, SetEnv(Len(objs) + 1), SetEnv(0))
  /\ UNCHANGED conts

\* WithEnv: the object is the environment, set within and restored after.
UserWithEnv ==
  /\ Use("withEnv")
  /\ ManagedObjectWind(Here, SetEnv(Len(objs) + 1), SetEnv(env))
  /\ UNCHANGED conts

-----------------------------------------------------------------------------
(* The run loop *)

Init ==
  /\ stack = <<>> /\ call = Bottom
  /\ curDW = 0 /\ bottomDW = 0 /\ winds = <<>>
  /\ handlers = <<>> /\ conts = <<>> /\ objs = <<>> /\ env = 0
  /\ fuel = MaxOps

\* The program around the runtime applies a procedure and calls Resume.
HostCall ==
  /\ Halted
  /\ fuel > 0
  /\ fuel' = fuel - 1
  /\ Apply(User("main"), curDW)
  /\ UNCHANGED <<stack, curDW, bottomDW, winds, handlers, conts, objs, env>>

WindStep == WindBody \/ WindExit \/ Forward
TraverseStep == \/ TraverseArrive \/ TraverseDown \/ TraverseUp
                \/ ContinueUp \/ EnterWind \/ SetDW
EscapeStep == CallEscape \/ Restore
RaiseStep == \/ CallSetHandlers \/ RaiseUncaught \/ RaiseToHandler
             \/ CallHandlerThunk \/ RaiseAgain
ObjectStep == \/ ErrorThunk \/ SafeBefore \/ SafeAfter \/ ErrorHandler
              \/ ClearMark \/ Destroy \/ DestroyAgain \/ CallSetEnv
UserStep == \/ UserReturn \/ UserWind \/ UserCallCC \/ UserThrow \/ UserRaise
            \/ UserRaiseContinuable \/ UserHandler \/ UserManaged \/ UserWithEnv

\* One turn of Resume.
Turn == \/ WindStep \/ TraverseStep \/ EscapeStep
        \/ RaiseStep \/ ObjectStep \/ UserStep

Next == Turn \/ HostCall

Spec == Init /\ [][Next]_vars

\* Resume loops until the pending call is Bottom, so a turn is never put off.
FairSpec == Spec /\ WF_vars(Turn)
=============================================================================
