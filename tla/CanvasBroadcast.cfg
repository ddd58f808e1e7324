CONSTANTS
  h1 = h1
  h2 = h2
  s1 = s1
  s2 = s2
  Handlers <- TwoHandlers
  Sessions <- TwoSessions
  MaxConns = 2
  MaxEvents = 3
  Settings <- AllSettings
  None = None
SPECIFICATION Spec
INVARIANTS
  ScreenAgrees
  NothingStranded
  DeliveredOnce
 
