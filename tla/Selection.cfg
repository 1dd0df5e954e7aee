\* Two requests; a duration holds 3 seconds, and 9 seconds wrap to 1.
CONSTANTS
  Ids = {1, 2}
  Models = {m1}
  None = None
  Requests = {r1, r2}
  Attempts = 2
  Second = 2
  MaxInt = 7
  Minute = 2
  Seconds = {1, 9, 16}
  LastSecond = 99
  Managed = {1}
  MaxNow = 3
SPECIFICATION Spec
INVARIANTS NoStarvation
PROPERTIES CooldownRespected
SYMMETRY Symmetry
