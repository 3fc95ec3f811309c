\* A document from before the queue; two faults with one worker, none with two.
SPECIFICATION MCSpec
CONSTANTS
  d1 = d1
  w1 = w1
  w2 = w2
  Doc = {d1}
  Worker = {w1, w2}
  Legacy = {d1}
  Batch = 1
  MaxSeq = 2
  MaxFaults = 2
INVARIANTS
  Inductive
  BehindIsQueued
PROPERTIES
  IndexKeepsUpdates
  EverythingIsIndexed
