--------------------------- MODULE MCIncidentService ---------------------------
(* Small instances of IncidentService for TLC. *)
EXTENDS IncidentService, TLC

(* Requests are interchangeable: they differ only in what they are asked.  *)
RequestSymmetry == Permutations(Requests)
===============================================================================
