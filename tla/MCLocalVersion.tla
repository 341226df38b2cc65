--------------------------- MODULE MCLocalVersion ---------------------------
(***************************************************************************)
(* LocalVersion with two clients and an entity of two fields.              *)
(***************************************************************************)
EXTENDS LocalVersion, TLC

CONSTANTS x, y

MCFields == {x, y}
MCInitial == [f \in MCFields |-> 0]
\* Deltas of one field and of both, and two different values for one field.
MCDeltas == {x :> 1, x :> 2, y :> 1, x :> 1 @@ y :> 2}
MCEntities == {[f \in MCFields |-> 1]}
=============================================================================
