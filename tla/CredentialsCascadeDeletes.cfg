SPECIFICATION Spec
CONSTANTS
  Creds = {k1}
  Bots = {b1}
  Admins = {a1, a2}
  Checks = {q1, q2}
  Expiries = {1, 2}
  TTL = 1
  MaxTime = 3
  Never = Never
  NoBot = NoBot
  NoRow = NoRow
  NoCred = NoCred
SYMMETRY Symmetry
INVARIANT CascadeDeletes
CHECK_DEADLOCK FALSE
