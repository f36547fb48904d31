------------------------ MODULE MCPriceStoreRecovery ------------------------
(* Small instances of PriceStoreRecovery for TLC. *)
EXTENDS PriceStoreRecovery, TLC

BarSymmetry == Permutations(Legacy) \cup Permutations(Fresh)
=============================================================================
