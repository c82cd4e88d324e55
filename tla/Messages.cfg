SPECIFICATION Spec
CONSTANTS
  h1 = h1
  h2 = h2
  u1 = u1
  x1 = x1
  x2 = x2
  Hooks = {h1, h2}
  Events <- MCEvents
  Subscribers <- MCSubscribers
  Runs = {x1, x2}
  MaxAttempts = 2
  WritesMayFail = TRUE
  Sends <- MCSends
  Country <- MCCountry
  Preferred <- MCPreferred
  Media <- MCMedia
  Answered <- MCAnswered
  Arrivals <- MCArrivals
  Text <- MCText
  Callback <- MCCallback
  Receipts <- MCReceipts
  About <- MCAbout
  Fate <- MCFate
  Users = {u1}
  Together <- MCTogether
INVARIANTS ReceivedOnce StatusIsTold OneAtATime SettledIsTrue
PROPERTIES QueuedIsSettled
CHECK_DEADLOCK FALSE
