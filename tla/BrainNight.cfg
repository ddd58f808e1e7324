\* The budget, the scout stage, the windows and the evidence log of nights.
SPECIFICATION MCSpec
CONSTANTS
  a = a
  b = b
  n1 = n1
  n2 = n2
  n3 = n3
  n4 = n4
  n5 = n5
  n6 = n6
  Processes <- TwoProcesses
  BudgetSettings <- AllSettings
  MaxCalls = 2
  NightTokens = 3
  WeekNights = 2
  Week = 2
  CallTokens = {1, 2}
  MaxInstant = 2
  MaxLedger = 6
  MaxPicks = 4
  None = None
  Notes <- SixNotes
  ScoutSettings <- AllScouts
  MaxScoutDay = 10
  Jobs <- OneJob
  WindowSettings <- AllWindows
  MaxTime = 5
  e1 = e1
  e2 = e2
  Entities <- TwoEntities
  Nights <- TwoProcesses
  Settings <- AllLogs
  MaxEntries = 2
  MaxDay = 2
  MaxRuns = 3
INVARIANTS
  OvershootBounded
  EvenSplit
  EveryNoteInTurn
  EvidenceOfReports
  DigestsTile
  
  
PROPERTIES
  ScoutedAfresh
  FreshKept
  RevertsRecorded
  RejectedStays
SYMMETRY AlikeEntities
CHECK_DEADLOCK FALSE
