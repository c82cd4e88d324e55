\* One call, started twice, settled by four events, one of them
\* delivered to two webhook addresses.
SPECIFICATION MCSpec
CONSTANTS
  ringing = ringing
  completed = completed
  hangup = hangup
  unknown = unknown
  unanswered = unanswered
  Calls = {c1}
  Starters = {q1, q2}
  Events = {ringing, completed, hangup, unknown}
  Word <- Words
  Seconds <- Lengths
  NoSeconds = NoSeconds
  Country = "CA"
  Preferred = "twilio"
  Deliveries <- AtBoth
  Handlers = {w1, w2}
  FirstWords = {"queued", "something else"}
  Tasks = {o1}
  Rate = 1
  MaxCredits = 2
  MayFail = TRUE
INVARIANTS CreditsAccounted ChargedOnce ChargedOrReturned ShownIsCharged
PROPERTY EndedIsSettled
CHECK_DEADLOCK FALSE
