\* Two users, one hold that is never rebound: the promise to the product
\* flows and the settlement of abandoned holds.
SPECIFICATION FairSpec
CONSTANTS
  Users = {u1, u2}
  Nobody = Nobody
  Holds = {h1}
  Rebound = {}
  Refs = {f1}
  Requests = {q1, q2}
  MaxCents = 2
  MaxBalance = 2
  PackCents = 1
  PackCredits = 2
INVARIANT ChargedAsSpent
PROPERTIES HoldsSettle ImplementsContract
CHECK_DEADLOCK FALSE
