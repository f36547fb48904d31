\* A crash in the migration.
SPECIFICATION Spec
CONSTANTS
  Legacy = {l1, l2}
  Fresh = {f1}
  Probe = Probe
  ChunkRows = 1
  MaxFaults = 1
SYMMETRY BarSymmetry
INVARIANTS EveryLegacyBarIsCopied
CHECK_DEADLOCK FALSE
