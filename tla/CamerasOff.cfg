SPECIFICATION Spec
CONSTANTS
  Hosts = {1, 2}
  Revs = {1, 2}
  Kinds = {1, 2}
  Ticks = {1}
  MaxRts = 2
  MaxEvents = 1
  MaxMsgs = 1
  MaxChanges = 3
  MaxFaults = 1
  MaxPending = 2
  BatchMax = 2
INVARIANT OffIsOff
CHECK_DEADLOCK FALSE
