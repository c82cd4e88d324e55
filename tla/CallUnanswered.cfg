\* One call that rings and is not answered.
SPECIFICATION MCSpec
CONSTANTS
  ringing = ringing
  completed = completed
  hangup = hangup
  unknown = unknown
  unanswered = unanswered
  Calls = {c1}
  Starters = {q1}
  Events = {ringing, unanswered}
  Word <- Words
  Seconds <- Lengths
  NoSeconds = NoSeconds
  Country = "CA"
  Preferred = "twilio"
  Deliveries <- AtTwilio
  Handlers = {w1}
  FirstWords = {"queued", "something else"}
  Tasks = {}
  Rate = 1
  MaxCredits = 2
  MayFail = FALSE
INVARIANT UnansweredIsReleased
CHECK_DEADLOCK FALSE
