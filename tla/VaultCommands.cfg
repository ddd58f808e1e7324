\* Commitments and two or three notes under four circumstances, two recordings under seven,
\* three notes that are moved under five.
SPECIFICATION MCSpec
CONSTANTS
  a1 = a1
  a2 = a2
  o1 = o1
  o2 = o2
  r1 = r1
  r2 = r2
  m1 = m1
  m2 = m2
  Agents <- TwoAgents
  Objects <- TwoObjects
  Settings <- AllSettings
  MaxNote = 3
  None = None
  Recordings <- TwoRecordings
  Names <- TwoNames
  MemoSettings <- AllMemos
  n1 = n1
  n2 = n2
  n3 = n3
  s1 = s1
  s2 = s2
  s3 = s3
  Linking <- ThreeNotes
  Depth = 2
  Segments <- ThreeSegments
  MoveSettings <- AllMoves
INVARIANTS
  AggregatesAreComponents
  MergesAreSafe
  
  NothingOverlooked
  LinksFollow
PROPERTIES
  RollbacksKeepOthers
  
CHECK_DEADLOCK FALSE
