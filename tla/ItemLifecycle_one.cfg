\* One client, two items, one source: the contract of the operations.
CONSTANTS
  Clients = {c1}
  MaxItems = 2
  Actors = {a1, a2}
  Sources = {s1}
  CreateSources = {}
  MaxTime = 1
  Updates <- MCUpdates
  None = None
  Keep = Keep
SPECIFICATION Spec
INVARIANT SourcesUnique
PROPERTY ImplementsWorkflow
