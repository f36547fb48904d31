------------------------- MODULE MCSituationReports -------------------------
(* Small instances of SituationReports for TLC. *)
EXTENDS SituationReports, TLC

RunSymmetry == Permutations(Runs)
=============================================================================
