SPECIFICATION MCSpec
CONSTANTS
  Blank = Blank
  q1 = q1
  c1 = c1
  c2 = c2
  Asks <- MCAsks
  Offers <- MCOffers
  Rounds = {q1}
  MaxRules = 2
  Checkouts = {c1, c2}
  Gateways = {"flutterwave", "nowpayments", "paddle"}
  Items <- MCItems
  Rates <- MCRates
  Ttl = 2
  Timeout = 1
  MaxTime = 4
INVARIANTS MostSpecificRule RenewalCoversShown RateIsRecent FullPaymentIsReconciled
SYMMETRY Symmetry
CHECK_DEADLOCK FALSE
