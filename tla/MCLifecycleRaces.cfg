\* Two server requests, and decisions, that all read before any commits; the scenario is
\* switched meanwhile.  Without a manager: with one the instance is five times as large.
CONSTANTS
  Procs = {p1, p2}
  Requests = {r1, r2}
  Designers = {d1}
  MaxVersions = 2
  ScenarioChoices = {"standard", "lightweight"}
  ModeChoices = {"simple"}
  ActorRoles <- MCNoManager
SPECIFICATION Spec
SYMMETRY MCSymmetry
INVARIANTS
  ApprovedVersionIsFinal
  RevisionKnowsItsGate
