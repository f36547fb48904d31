\* Two legacy and one later bar, upserted one by one, three faults, and the fairness of the start.
SPECIFICATION FairSpec
CONSTANTS
  Legacy = {l1, l2}
  Fresh = {f1}
  Probe = Probe
  ChunkRows = 1
  MaxFaults = 3
INVARIANTS AckedLostOnlyByQuarantine ProbeRowOnlyIfCut LegacyMissingOnlyIfCut
PROPERTIES ImplementsBarStore ServesAgain
CHECK_DEADLOCK FALSE
