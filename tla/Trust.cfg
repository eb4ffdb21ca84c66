SPECIFICATION Spec
CONSTANTS
  Procs = {p1, p2}
  Evaluators = {p1}
  Names = {clotho}
  Caps <- SomeCaps
  Repos <- SomeRepos
  Scopes <- SomeScopes
  Configs <- SomeConfigs
  MaxEntries = 1
  MaxRequests = 1
  None = None
INVARIANTS TypeOK AllowedInScope RejectedFileChangesNothing
PROPERTIES RefusedStayRefused FirstVerdictStands
