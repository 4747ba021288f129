SPECIFICATION FairSpec
CONSTANTS
  Base = 3
  WordBytes = 2
  LF = 0
  CR = 1
  LetterA = 2
  LetterR = 0
  Given = {"direct", "line", "telnet", "basic", "compressed"}
  Messages <- EdgeMessages
  MaxSends = 2
  MaxSwitches = 1
  HandlerMayThrow = TRUE
INVARIANTS
  ReadChain
  BytesConserved
PROPERTIES
  ImplementsInbox
  Delivered
  LossIsTold
CHECK_DEADLOCK FALSE
