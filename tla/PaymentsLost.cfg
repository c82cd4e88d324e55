\* One NOWPayments payment, no failures.
SPECIFICATION Spec
CONSTANTS
  s1 = s1
  Sessions = {s1}
  Open = {"nowpayments"}
  Payments = {p1}
  For <- OneSession
  Handlers = {w1}
  MayFail = FALSE
INVARIANT AnsweredIsReconciled
CHECK_DEADLOCK FALSE
