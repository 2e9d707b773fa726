SPECIFICATION Spec
CONSTANTS
  Requests = {r1, r2}
  Codes = {c1}
  Tokens = {t1}
  Secrets = {k1, k2, k3}
  Sessions = {s1, s2}
  States = {q1, q2}
  None = None
  Idle = 1
  Absolute = 2
  Retained = 0
  StateLife = 1
  Drift = 1
  MaxPending = 1
SYMMETRY Symmetry
INVARIANTS SpentOnce
PROPERTIES GateHolds
