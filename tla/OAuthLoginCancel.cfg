\* Two calls of CancelLogin against two new sign-ins.
CONSTANTS
  MaxLogins = 2
  MaxRev = 0
  Cancelers = {c1, c2}
  Events = {}
  None = None
SPECIFICATION Spec
SYMMETRY Symmetry
INVARIANTS CodeSentOnce CancelIsFinal SuccessIsStored
