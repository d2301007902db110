CONSTANTS
  Procs = {p1}
  Requests = {r1, r2, r3}
  Designers = {d1}
  MaxVersions = 2
  ScenarioChoices = {"standard", "lightweight"}
  ModeChoices = {"simple", "internal_then_client"}
  ActorRoles <- MCActorRoles
SPECIFICATION Spec
SYMMETRY MCSymmetry
INVARIANTS
  ScenarioNeverTraps
