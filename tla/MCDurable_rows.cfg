SPECIFICATION Spec
CONSTANTS
  f1 = f1
  f2 = f2
  Filters = {f1}
  MaxConns = 2
  MaxChanges = 2
  MaxFaults = 1
INVARIANTS  EntryTruthful ResumedDeliver
CHECK_DEADLOCK FALSE
