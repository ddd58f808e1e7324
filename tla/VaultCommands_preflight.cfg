\* One tool at a time, and an owner who edits notes between the calls.
SPECIFICATION MCSpec
CONSTANTS
  a1 = a1
  a2 = a2
  o1 = o1
  o2 = o2
  r1 = r1
  r2 = r2
  m1 = m1
  m2 = m2
  Agents <- TwoAgents
  Objects <- TwoObjects
  Settings <- OnlyEditing
  MaxNote = 3
  None = None
  Recordings <- TwoRecordings
  Names <- TwoNames
  MemoSettings <- OnlyMemo
  n1 = n1
  n2 = n2
  n3 = n3
  s1 = s1
  s2 = s2
  s3 = s3
  Linking <- ThreeNotes
  Depth = 2
  Segments <- ThreeSegments
  MoveSettings <- OnlyUnlinked
PROPERTY EditsKept
CHECK_DEADLOCK FALSE
