SPECIFICATION MCSpec
CONSTANTS
  u1 = u1
  esim = esim
  proxy = proxy
  vpn = vpn
  k1 = k1
  k2 = k2
  k3 = k3
  Users = {u1}
  Nobody = Nobody
  Esims = {esim}
  Proxies = {proxy}
  Vpns = {vpn}
  Owner <- OneOwner
  Keys = {k1, k2, k3}
  Key <- OwnKey
  Environments <- MCEnvironments
  Words = {"fail", "revoke", "ready"}
  Idents = {i1}
  NoIdent = NoIdent
  Handlers = {w1, w2}
  Charge = 2
  Price = 1
  WritesMayFail = TRUE
  MaxFunds = 2
  MaxOrders = 2
INVARIANTS ChargedOnlyAccepted AcceptedIsCharged RefundedInTurn RefundedIsPaidBack
SYMMETRY Symmetry
CHECK_DEADLOCK FALSE
