SPECIFICATION Spec
CONSTANTS
  u1 = u1
  s1 = s1
  s2 = s2
  messenger = messenger
  tunnel = tunnel
  Users = {u1}
  Entitlements = {messenger, tunnel}
  States <- MCStates
  MaxChanges = 2
  Requests = {r1, r2}
  Refreshers = {r2}
  Subs = {s1, s2}
  Owner <- MCOwner
  Grants <- MCGrants
  Told <- MCTold
  Hooks = {k1, k2}
  MaxFailures = 1
  Gateways <- MCGateways
INVARIANTS ProcessedIsApplied GrantsAreBacked
PROPERTIES EventsAreApplied
CHECK_DEADLOCK FALSE
