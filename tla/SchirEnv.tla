------------------------------ MODULE SchirEnv ------------------------------
(***************************************************************************)
(* What the Schir compiler knows about names: data, the chain of           *)
(* environment frames and the lookup of an identifier.                     *)
(*                                                                         *)
(* A datum is a record with a kind: a symbol, a number, a Boolean, the     *)
(* undefined object, a proper list, or a binding that stands for itself.   *)
(* The state of the compiler is a record g that the operators of this      *)
(* module and of SchirOpGen thread through; here they use                  *)
(*   g.frames  the EnvFrames, outermost first: every push goes to the most *)
(*             local frame, so the nest of frames is a sequence, and a     *)
(*             frame lists its formals and then its local defines          *)
(*   g.binds   all bindings: a name, and the arguments of the local define *)
(*             that made it (none for a formal)                            *)
(*   g.names   the names the Environment of the program maps to a global   *)
(*   g.known   what is known of a global at compile time                   *)
(***************************************************************************)
EXTENDS Integers, SequencesExt

Sym(n)     == [k |-> "sym", n |-> n]
Num(v)     == [k |-> "num", v |-> v]
Bool(b)    == [k |-> "bool", b |-> b]
Undef      == [k |-> "undef"]
List(l)    == [k |-> "list", l |-> l]
BindRef(b) == [k |-> "ref", b |-> b]

isIdentifier(e) == e.k = "sym"
IsPair(e)       == e.k = "list" /\ e.l # <<>>

NoArgs == <<>>

PushEnvFrame(g, vars) == [g EXCEPT !.frames = Append(@, vars)]

\* The frame at depth d and every frame nested in it go away.
PopEnvFrame(g, d) == [g EXCEPT !.frames = SubSeq(@, 1, d - 1)]

NewBindings(g, ids) == g.binds \o [i \in DOMAIN ids |-> [id |-> ids[i].n, args |-> NoArgs]]

\* A rest parameter is the identifier after the parameters of the list.
FormalIds(formals) ==
  CASE formals.k = "list" -> formals.l
    [] formals.k = "rest" -> Append(formals.l, formals.r)
    [] OTHER              -> <<formals>>
HasRestParam(formals) == formals.k # "list"

ValidFormals(formals) ==
  LET ids == FormalIds(formals)
  IN  \A i \in DOMAIN ids : isIdentifier(ids[i]) /\ \A j \in 1 .. i - 1 : ids[j] # ids[i]

PushLambdaFormals(g, formals) ==
  LET ids == FormalIds(formals)
  IN  PushEnvFrame([g EXCEPT !.binds = NewBindings(g, ids)],
                   [i \in DOMAIN ids |-> Len(g.binds) + i])

\* The binding of a local define goes to the most local frame.
PushLocalBinding(g, n, args) ==
  [g EXCEPT !.binds = Append(@, [id |-> n, args |-> args]),
            !.frames[Len(g.frames)] = Append(@, Len(g.binds) + 1)]

\* The local defines of the most local frame, oldest first.
LocalDefines(g) == SelectSeq(Last(g.frames), LAMBDA b : g.binds[b].args # NoArgs)

(***************************************************************************)
(* Lookup gives a binding, or the name of a global, or nothing.            *)
(***************************************************************************)
NoEntry      == [e |-> "none"]
BindEntry(b) == [e |-> "bind", b |-> b]
GlobEntry(n) == [e |-> "glob", n |-> n]

\* Broken: the outermost binding of the name
LookupEnvOutermost(g, n) ==
  LET vars == FlattenSeq(g.frames)
      at   == SelectInSeq(vars, LAMBDA b : g.binds[b].id = n)
  IN  IF at > 0 THEN BindEntry(vars[at])
      ELSE IF n \in g.names THEN GlobEntry(n) ELSE NoEntry

LookupEnv(g, n) ==
  LET vars == FlattenSeq(g.frames)
      at   == SelectLastInSeq(vars, LAMBDA b : g.binds[b].id = n)
  IN  IF at > 0 THEN BindEntry(vars[at])
      ELSE IF n \in g.names THEN GlobEntry(n) ELSE NoEntry

IsKeyword(g, entry) == entry.e = "glob" /\ entry.n \in DOMAIN g.known
                                        /\ g.known[entry.n].k = "keyword"
=============================================================================
