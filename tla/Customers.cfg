SPECIFICATION CustomerSpec
CONSTANTS
  v1 = v1
  p1 = p1
  Users = {u1}
  Nobody = Nobody
  Holds = {h1, h2}
  Rebound = {h2}
  Refs = {f1, f2}
  Requests = {q1, q2}
  MaxCents = 1
  MaxBalance = 2
  PackCents = 1
  PackCredits = 2
  Visits = {v1, v2}
  Phones = {p1, p2}
  NoPhone = NoPhone
  MaxTime = 2
  MaxWrong = 2
  MaxSends = 1
  MaxAttempts = 1
  MaxCodes = 2
INVARIANTS HoldsAccounted NeverOvercommitted MirrorAgrees PurchasePaidOnce VerifiedWasConfirmed RefreshedOnce
PROPERTY SettledIsFinal
SYMMETRY Symmetry
CHECK_DEADLOCK FALSE
