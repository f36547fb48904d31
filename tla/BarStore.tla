------------------------------ MODULE BarStore ------------------------------
(***************************************************************************)
(* What the price store promises its callers: bars are only ever added; a  *)
(* checkpoint makes every committed bar permanent; and the one loss that   *)
(* can happen is to fall back to the last checkpoint (CONFIG.md, "the      *)
(* store reopens at the last checkpoint").                                 *)
(***************************************************************************)
CONSTANT Bar

VARIABLES
  permanent,   \* the bars of the last checkpoint
  committed    \* the bars a reader of the store sees

vars == <<permanent, committed>>

Init == permanent = {} /\ committed = {}

Commit(S) == committed' = committed \cup S /\ UNCHANGED permanent

Checkpoint == permanent' = committed /\ UNCHANGED committed

\* A commit that makes the write-ahead log long enough is checkpointed at once.
CommitAndCheckpoint(S) ==
  /\ committed' = committed \cup S
  /\ permanent' = committed'

FallBack == committed' = permanent /\ UNCHANGED permanent

Next ==
  \/ \E S \in SUBSET Bar : Commit(S) \/ CommitAndCheckpoint(S)
  \/ Checkpoint
  \/ FallBack

Spec == Init /\ [][Next]_vars
=============================================================================
