\* Two callers share jobs while the account is disabled and enabled.
CONSTANTS
  Callers = {c1, c2}
  MaxCalls = 2
  Jobs = {j1, j2}
  MaxCred = 1
  MaxRev = 2
  Events = {"disable", "enable"}
  None = None
SPECIFICATION Spec
SYMMETRY Symmetry
INVARIANTS SingleFlight
PROPERTIES NoLateSave NoDoubleSpend
