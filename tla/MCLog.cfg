SPECIFICATION Spec
CONSTANTS
  bufferSize = 4
  MaxMessages = 12
  MaxSessions = 2
  NoMessage = NoMessage
  SignalMessage = SignalMessage
  Signals = TRUE
INVARIANTS
  TypeOK
  FileAndPending
  BufferShowsLatest
CHECK_DEADLOCK FALSE
PROPERTY SignalKeepsCompleted
