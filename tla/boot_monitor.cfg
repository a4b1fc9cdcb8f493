SPECIFICATION Spec
CONSTANTS
  AddrMod = 1024
  SramBase = 256
  SramBytes = 192
  TestMargin = 64
  StackBytes = 16
  InfoMagic = 700
  Headers <- MCHeaders
  Payload <- MCPayload
  Layouts <- MCLayouts
  UartChars <- MCChars
  Scans <- MCScans
  MaxChars = 2
  MaxKeys = 1
INVARIANTS
  BootTypeOK
  LoaderInBounds
  LoadedIsVerified
  RamTestInBounds
  KeyTyped
  SelfTestsPass
PROPERTIES
  GoVerified
  KeyServed
CHECK_DEADLOCK FALSE
