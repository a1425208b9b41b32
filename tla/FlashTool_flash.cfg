SPECIFICATION Spec
CONSTANTS
  Targets = 2
  MaxChunks = 2
  MaxOpens = 2
  MaxWrites = 2
  MaxErases = 2
INVARIANTS TypeOK SuccessIsVerified ChunksAreAsked
PROPERTIES OneWorker ControlsComeBack
CHECK_DEADLOCK FALSE
