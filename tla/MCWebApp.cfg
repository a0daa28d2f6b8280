CONSTANTS
  Null = Null
  Pages <- MCPages
  Ids = {0, 1}
  Capacity = 2
  Texts <- MCTexts
  MaxChunks = 2
  MaxDials = 2
  MaxReloads = 1
SPECIFICATION Spec
CONSTRAINT TypedAlone
CHECK_DEADLOCK FALSE
INVARIANTS
  OneDatabase
  InputsComeBack
PROPERTIES
  ShellHears
  PendingIsConnected
