CONSTANTS
  Rows = {c1, c2}
  Posts = {m1}
  Stories = {}
  Users = {u1}
  Workers = {}
  Scenario = "standard"
SPECIFICATION Spec
SYMMETRY MCSymmetry
PROPERTY OutcomeDerivesStatus
CHECK_DEADLOCK FALSE
