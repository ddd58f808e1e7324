\* Two clients, one item: what the interleaving of statements leaves of it.
CONSTANTS
  Clients = {c1, c2}
  MaxItems = 1
  Actors = {a1}
  Sources = {}
  CreateSources = {}
  MaxTime = 1
  Updates <- MCUpdates
  None = None
  Keep = Keep
SPECIFICATION Spec
INVARIANT ActorsReferenced
PROPERTY OnlyStaleCallsReopen
