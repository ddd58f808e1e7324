\* Two Exchange clients with two calls; three triggers.
SPECIFICATION MCSpec
CONSTANTS
  c1 = c1
  c2 = c2
  k1 = k1
  k2 = k2
  Clients <- TwoClients
  Calls <- TwoCalls
  Jars = {j1, j2, j3, j4, j5, j6}
  SessionSettings <- AllSessions
  None = None
  t1 = t1
  e1 = e1
  e2 = e2
  Tickers <- OneTicker
  Events <- TwoEvents
  Settings <- AllBriefs
  MaxTime = 7
INVARIANTS
  OneAtATime
  RetriesFresh
  OncePerStart
  NoEventMissed
PROPERTY CallsReturn
CHECK_DEADLOCK FALSE
