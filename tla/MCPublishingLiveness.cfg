CONSTANTS
  Rows = {c1}
  Posts = {m1}
  Stories = {}
  Users = {u1}
  Workers = {w1, w2}
  Scenario = "standard"
SPECIFICATION FairSpec
PROPERTY ScheduledIsReconciled
