SPECIFICATION FairSpec
CONSTANTS
  N = 3
  Handlers = {h1}
  NoHandler = null
  MaxDepth = 3
INVARIANTS
  CalledComplete
  NestsByPriority
  MaskRestored
PROPERTIES
  UrgentServed
