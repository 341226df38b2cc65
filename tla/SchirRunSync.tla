---------------------------- MODULE SchirRunSync ----------------------------
(***************************************************************************)
(* Nested run loops.  Compiling a call of a Scheme macro needs its         *)
(* expansion before C++ can go on, so OpGen::CallSyntax calls              *)
(* Context::RunSync, which runs a second Resume loop on the C++ stack      *)
(* below the first.  The loops share the continuation stack, the windings  *)
(* and the handler list of SchirRuntime; the C++ frames of the callers are *)
(* the variable native.                                                    *)
(*                                                                         *)
(* Source: Context::RunSync in schir/lib/Context.cpp, OpGen::CallSyntax    *)
(* and OpGen::SetError in schir/lib/OpGen.cpp.                             *)
(***************************************************************************)
EXTENDS SchirRuntimeProps, SequencesExt

CONSTANT MaxNested   \* bound: nested RunSync calls

ASSUME NestedAssumption == MaxNested \in Nat

VARIABLES
  native,   \* locals of the active RunSync calls, the innermost last
  caught,   \* the error the last yield handed over: "none", one "caught" by
            \* CatchHandler, or one "passed" on by SetError
  passed    \* whether SetError has passed on an error yet (history)

syncVars == <<vars, native, caught, passed>>

\* What RunSync keeps in C++ locals.  OpGen is a member of the environment, so
\* env stands for it too.  dw and top are auxiliary: CurDW and Top at the call.
Local == [handlers |-> handlers, bottomDW |-> bottomDW, env |-> env,
          dw |-> curDW, top |-> Len(stack)]

\* Broken: BottomDW stays that of the outer loop.
RunSyncKeepsBottom ==
  /\ Calling("User")
  /\ "sync" \in Ops /\ fuel > 0 /\ fuel' = fuel - 1
  /\ Len(native) < MaxNested
  /\ native' = Append(native, Local)
  /\ handlers' = <<Catch>>
  /\ stack' = Push(stack, [fn |-> "Break"], curDW)
  /\ Apply(User("thunk"), curDW)
  /\ UNCHANGED <<curDW, bottomDW, winds, conts, objs, env, caught>>

\* C++ code called from the run loop expands a macro.
UserRunSync ==
  /\ Calling("User")
  /\ "sync" \in Ops /\ fuel > 0 /\ fuel' = fuel - 1
  /\ Len(native) < MaxNested
  /\ native' = Append(native, Local)
  /\ handlers' = <<Catch>>
  /\ bottomDW' = curDW
  /\ stack' = Push(stack, [fn |-> "Break"], curDW)
  /\ Apply(User("thunk"), curDW)
  /\ UNCHANGED <<curDW, winds, conts, objs, env, caught>>

\* The frame of PushBreak: the callee is done, stop the loop.
Break ==
  /\ Calling("Break")
  /\ call' = Bottom
  /\ caught' = "none"
  /\ UNCHANGED <<stack, curDW, bottomDW, winds, handlers, conts, objs, env,
                 fuel, native>>

\* CatchHandler: an error has unwound to bottomDW, stop the loop with it.
CallCatch ==
  /\ Calling("Catch")
  /\ call' = Bottom
  /\ caught' = "caught"
  /\ UNCHANGED <<stack, curDW, bottomDW, winds, handlers, conts, objs, env,
                 fuel, native>>

\* Only CatchHandler is left: leave the extents down to bottomDW first.
RaiseToBottom ==
  /\ Calling("Raise")
  /\ handlers # <<>> /\ ~IsPair(handlers)
  /\ stack' = Push(stack, Head(handlers), bottomDW)
  /\ Apply(Traverse(curDW, bottomDW), curDW)
  /\ UNCHANGED <<curDW, bottomDW, winds, handlers, conts, objs, env, fuel,
                 native, caught>>

\* Broken: the handlers stay those of the nested loop.
ReturnWithoutHandlers(next) ==
  /\ Halted
  /\ native # <<>>
  /\ native' = Front(native)
  /\ bottomDW' = Last(native).bottomDW
  /\ call' = next
  /\ UNCHANGED <<stack, curDW, winds, handlers, conts, objs, env, fuel>>

\* Broken: the bottom winding stays that of the nested loop.
ReturnWithoutBottom(next) ==
  /\ Halted
  /\ native # <<>>
  /\ native' = Front(native)
  /\ handlers' = Last(native).handlers
  /\ call' = next
  /\ UNCHANGED <<stack, curDW, bottomDW, winds, conts, objs, env, fuel>>

\* The loop of RunSync has ended: restore the handlers and the bottom winding.
ReturnFromSync(next) ==
  LET local == Last(native)
  IN /\ Halted
     /\ native # <<>>
     /\ native' = Front(native)
     /\ handlers' = local.handlers
     /\ bottomDW' = local.bottomDW
     /\ call' = next
     /\ UNCHANGED <<stack, curDW, winds, conts, objs, env, fuel>>

\* The expansion is there, the C++ caller goes on.
SyncResult ==
  /\ caught = "none"
  /\ ReturnFromSync(Closure(User("main"), curDW))
  /\ UNCHANGED caught

\* How many of the calls are made by the OpGen of environment e.
RunSyncDepth(e, calls) == Cardinality({j \in DOMAIN calls : calls[j].env = e})

\* SetError(e): an OpGen that is itself inside a RunSync yields the error to
\* that RunSync without unwinding, the outermost one raises it.
SyncPassError ==
  /\ caught # "none"
  /\ RunSyncDepth(Last(native).env, Front(native)) > 0
  /\ ReturnFromSync(Bottom)
  /\ caught' = "passed"

SyncRaiseError ==
  /\ caught # "none"
  /\ RunSyncDepth(Last(native).env, Front(native)) = 0
  /\ ReturnFromSync(Closure(Raise, curDW))
  /\ UNCHANGED caught

\* A builtin called by user code finds an error in what it compiles (such as
\* eval without an environment) and calls SetError of the current OpGen.
UserCompileError ==
  /\ Calling("User")
  /\ "compileError" \in Ops /\ fuel > 0 /\ fuel' = fuel - 1
  /\ IF RunSyncDepth(env, native) > 0
     THEN call' = Bottom /\ caught' = "passed"
     ELSE Apply(Raise, curDW) /\ UNCHANGED caught
  /\ UNCHANGED <<stack, curDW, bottomDW, winds, handlers, conts, objs, env, native>>

SyncInit == Init /\ native = <<>> /\ caught = "none" /\ passed = FALSE

\* A turn of whichever loop is innermost.
SyncTurn ==
  /\ \/ Turn /\ UNCHANGED <<native, caught>>
     \/ UserRunSync \/ UserCompileError \/ RaiseToBottom \/ Break
     \/ CallCatch \/ SyncResult \/ SyncPassError \/ SyncRaiseError
  /\ passed' = (passed \/ caught' = "passed")

SyncNext == \/ SyncTurn
            \/ native = <<>> /\ HostCall /\ UNCHANGED <<native, caught, passed>>

SyncSpec == SyncInit /\ [][SyncNext]_syncVars /\ WF_syncVars(SyncTurn)

-----------------------------------------------------------------------------
(* Properties *)

Returning == Halted /\ native # <<>>

\* A RunSync that was not escaped from returns in the extent it was called
\* in, with every extent its callee opened left, also when CatchHandler caught
\* an error; with a result, the stack of its caller is there as it was.
\* (SetError yields without unwinding, so an error it passes on leaves the
\* extents open until it is raised.)
SyncUnwound == Returning =>
  /\ caught # "passed" => curDW = Last(native).dw
  /\ caught = "none" => Len(stack) = Last(native).top

\* "Track depth of calls to RunSync to allow unwinding errors properly"
\* (OpGen.h): the handlers that stop a nested loop are gone when the outer loop
\* goes on, and inside one the handlers of the outer loop cannot be called.
\* (An error passed on is not unwound, so it is left out: the extents it leaves
\* open install CatchHandler in the outer loop when they are left there.)
SyncHandlers == ~passed =>
  /\ native = <<>> => Catch \notin ToSet(handlers)
  /\ native # <<>> /\ InUserCode => Last(handlers) = Catch

\* "OpGen should not unwind itself" (assertion in OpGen::CallSyntax).
OpGenKept == Returning => env = Last(native).env

\* Frames a failed callee left on the stack are never run: when the outer loop
\* ends everything is unwound as if there had been no nested loop.
SyncUnwoundAtEnd == native = <<>> /\ ~passed => UnwoundAtEnd

\* Nested loops end too, and so does the outermost one.
SyncTerminates == <>[](Halted /\ native = <<>>)
=============================================================================
