SPECIFICATION Spec
CONSTANTS
  AddrMod = 1024
  SramBase = 256
  SramBytes = 192
  TestMargin = 64
  StackBytes = 16
  InfoMagic = 700
  Headers <- BaseHeaders
  Payload <- BasePayload
  Layouts <- Separate
  UartChars <- MCChars
  Scans <- MCScans
  MaxChars = 2
  MaxKeys = 1
PROPERTIES
  BaseImageIntact
CHECK_DEADLOCK FALSE
