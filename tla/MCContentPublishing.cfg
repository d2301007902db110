CONSTANTS
  Rows = {c1}
  Posts = {m1, s1}
  Stories = {s1}
  Users = {u1}
  Workers = {w}
  Scenario = "standard"
SPECIFICATION Spec
SYMMETRY MCSymmetry
INVARIANTS
  TypeOK
  LiveBeforePublished
PROPERTIES
  ConfirmedOutcomeStays
  ImplementsPublicationEffect
