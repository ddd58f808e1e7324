\* Two items share three artifacts, linked in two different seconds; two workspaces.
SPECIFICATION MCSpec
CONSTANTS
  c1 = c1
  c2 = c2
  w1 = w1
  w2 = w2
  i1 = i1
  i2 = i2
  Clients <- TwoClients
  Workspaces <- TwoWorkspaces
  Items <- TwoItems
  Settings <- AllSettings
  MaxArtifact = 3
  MaxTime = 1
  None = None
INVARIANTS
  PrimaryIsTheSource
  SphereFollowsWorkspace
  OneScope
