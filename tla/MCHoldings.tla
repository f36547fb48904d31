----------------------------- MODULE MCHoldings -----------------------------
(* A small instance of Holdings for TLC. *)
EXTENDS Holdings

MCParts == <<"assets", "sectors and regions">>
=============================================================================
