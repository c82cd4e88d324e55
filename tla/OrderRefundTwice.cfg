\* Two reports of one failure without an event id, handled at the same time.
SPECIFICATION Spec
CONSTANTS
  u1 = u1
  esim = esim
  proxy = proxy
  vpn = vpn
  k1 = k1
  k2 = k2
  k3 = k3
  Users = {u1}
  Nobody = Nobody
  Esims = {esim}
  Proxies = {}
  Vpns = {}
  Owner <- OneOwner
  Keys = {k1}
  Key <- OwnKey
  Environments <- Everything
  Words = {"fail"}
  Idents = {}
  NoIdent = NoIdent
  Handlers = {w1, w2}
  Charge = 2
  Price = 1
  WritesMayFail = FALSE
  MaxFunds = 2
  MaxOrders = 1
INVARIANT RefundedOnce
CHECK_DEADLOCK FALSE
