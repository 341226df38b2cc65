--------------------------- MODULE DynamicExtents ---------------------------
(***************************************************************************)
(* What dynamic-wind promises, without the machine that keeps the promise. *)
(*                                                                         *)
(* A dynamic extent is a node of a tree whose root 0 is the top level of   *)
(* the program.  Control is in one extent at a time.  It moves along one   *)
(* edge of the tree in a step: it opens a new extent under the one it is   *)
(* in, it enters a child it has been in before, or it leaves for the       *)
(* parent, and then the procedure called next is the exit thunk of the     *)
(* extent it left, called in the parent.  Control never jumps between      *)
(* extents that are not neighbours, so an escape procedure cannot skip a   *)
(* before or an after thunk on its way.                                    *)
(*                                                                         *)
(* SchirRuntime refines this module.                                       *)
(***************************************************************************)
VARIABLES
  tree,     \* extent -> its parent and its exit thunk
  here,     \* the extent control is in, 0 at the top level
  running   \* the procedure about to be called

vars == <<tree, here, running>>

Up(x) == IF x = 0 THEN 0 ELSE tree[x].parent

Init == DOMAIN tree = {} /\ here = 0

\* Open a new extent under the current one.
Open == \E x \in DOMAIN tree' :
  /\ x \notin DOMAIN tree
  /\ DOMAIN tree' = DOMAIN tree \cup {x}
  /\ \A y \in DOMAIN tree : tree'[y] = tree[y]
  /\ tree'[x].parent = here
  /\ here' = x

\* Come back to an extent whose parent control is in.
Enter == \E x \in DOMAIN tree :
  /\ Up(x) = here
  /\ here' = x
  /\ UNCHANGED tree

\* Leave for the parent and call the exit thunk there.
Leave ==
  /\ here \in DOMAIN tree
  /\ here' = Up(here)
  /\ running' = tree[here].after
  /\ UNCHANGED tree

\* Anything else happens inside the current extent.
Stay == UNCHANGED <<tree, here>>

Next == Open \/ Enter \/ Leave \/ Stay

Spec == Init /\ [][Next]_vars
=============================================================================
