SPECIFICATION FairSpec
CONSTANTS
  Channels = {c1}
  Connections = {k1}
  Ticks = {t1}
  Tests = {u1}
  MaxFailures = 3
  MaxFaults = 2
  None = None
INVARIANTS TypeOK AttachedIsUsable
PROPERTIES DueIsServed DeadGrantIsParked
