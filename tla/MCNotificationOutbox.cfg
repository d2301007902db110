\* Two overlapping in-app ticks and one e-mail tick, one crash or passing failure, two attempts.
SPECIFICATION FairSpec
CONSTANTS
  Events <- MCEvents
  Users = {"u1","u2"}
  Rows <- MCRows
  Broken = {1}
  Dispatchers = {"d1","d2"}
  Mailers = {"m1"}
  Audience <- MCAudience
  Publication = {2}
  MaxEvents = 2
  MaxAttempts = 2
  MaxFaults = 1
INVARIANTS TypeOK EmailsAccounted NobodyIsForgotten
PROPERTIES Promise SettledIsSilent
CHECK_DEADLOCK FALSE
