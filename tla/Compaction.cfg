\* One run at a time, fair; one failing merge or crash.
SPECIFICATION FairSpec
CONSTANTS
  None = None
  Sub = {a, b}
  Gap = 0
  Tier1Age = 0
  MaxFaults = 1
  Runner = {r1}
  Tier2Age = 0
  MaxSeq = 4
  MaxNow = 1
  Overlap = FALSE
INVARIANTS
  Inductive
  HistoryKept
  EditsCountedOnce
PROPERTIES
  ImplementsRowLog
  OldEditsArchived
