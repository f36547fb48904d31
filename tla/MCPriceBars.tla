----------------------------- MODULE MCPriceBars -----------------------------
(* A small instance of PriceBars for TLC. *)
EXTENDS PriceBars

\* The exchange is open for the second half of a day.
OpenHours == {t \in 0..End : t % DayLen \in 6..11}
=============================================================================
