CONSTANTS
  Procs = {p1}
  Requests = {r1, r2, r3, r4}
  Designers = {d1}
  MaxVersions = 2
  ScenarioChoices = {"lightweight"}
  ModeChoices = {"simple", "internal_then_client"}
  ActorRoles <- MCActorRoles
SPECIFICATION Spec
SYMMETRY MCSymmetry
INVARIANTS
  OneCreativeReview
  TypeOK
  FinalPassedEveryGate
  NewestApprovedIsFinal
PROPERTIES
  TwoGatesNeedClient
  ImplementsDeliveryReview
