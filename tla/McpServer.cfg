\* Two clients and one handoff, limits of one and two consumes, three instants; two messages and
\* up to two passes and two actions.
SPECIFICATION MCSpec
CONSTANTS
  Clients = {c1, c2}
  Handoffs = {h1}
  MaxConsumes = 2
  MaxTime = 2
  None = None
  s1 = s1
  s2 = s2
  a1 = a1
  a2 = a2
  m1 = m1
  m2 = m2
  Syncers <- TwoSyncers
  Actors <- TwoActors
  Messages <- TwoMessages
  Settings <- AllMail
  MaxVersion = 2
  MaxItems = 3
INVARIANTS
  ConsumesBounded
  NoCrossBinding
  SyncCovers
  OneItemPerMessage
  
PROPERTY EndedForGood
CHECK_DEADLOCK FALSE
