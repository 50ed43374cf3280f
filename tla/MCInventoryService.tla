-------------------------- MODULE MCInventoryService ---------------------------
(* Small instances of InventoryService for TLC. *)
EXTENDS InventoryService, TLC

CONSTANTS i1, i2, i3, s1, s2

(* One server has an asset, the other has none yet; keys are left.         *)
OneKnown == (i1 :> s1) @@ (i2 :> NoRow) @@ (i3 :> NoRow)

(* The same with one server only and a key for its second asset.           *)
FirstKnown == (i1 :> s1) @@ (i2 :> NoRow)

RequestSymmetry == Permutations(Requests)
===============================================================================
