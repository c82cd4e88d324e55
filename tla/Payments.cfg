SPECIFICATION CheckoutSpec
CONSTANTS
  s1 = s1
  Sessions = {s1}
  Open = {"paystack", "flutterwave", "korapay", "paddle", "nowpayments"}
  Payments = {p1, p2}
  For <- OneSession
  Handlers = {w1, w2}
  MayFail = TRUE
  Requests = {q1, q2}
  Mixes <- MCMixes
  Windows <- MCWindows
  Max <- MCMax
  Life <- MCLife
  MaxFailures = 1
INVARIANTS CreditsArePaid CompletedIsDelivered GapIsReviewed
PROPERTIES PaidIsSettled TurnedAwayReturns
CHECK_DEADLOCK FALSE
