\* One rental, renewed by its owner and by the job; one burner number asked
\* for twice; one verification order.
SPECIFICATION FairSpec
CONSTANTS
  n1 = n1
  n2 = n2
  r = r
  b1 = b1
  b2 = b2
  v = v
  k1 = k1
  k2 = k2
  Numbers = {n1, n2}
  NoNumber = NoNumber
  Requests = {r, b1, b2, v}
  Number <- NumberOf
  Kind <- KindOf
  Keys = {k1, k2}
  Key <- KeyOf
  Together <- Apart
  MaxFunds = 1
  MaxPeriods <- Periods
  WritesMayFail = TRUE
INVARIANTS AnsweredIsPaid UnpaidTimeIsMarked ChargedIsDelivered
PROPERTY SessionsEnd
CHECK_DEADLOCK FALSE
