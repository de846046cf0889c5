CONSTANTS
  Bit = {b}
  MEMBYTES = 4
  PAGE = 2
  SECTOR = 2
  NDUMMY = 4
  Sent <- MCSent
  MAXBYTES = 7
  ADDRESS_BITS = 8
  Image <- MCImage
  FlashAddr = {0, 8, 252}
  DeviceAddr = {256}
  MemoryAddr = {257}
  Junk = {0, 255}
  TwoTo <- MCTwoTo
  MAXRESETS = 1
  W = 3
  Pow2 <- MCPow2
  BASE = 2
  ByteXor <- MCXor
  ByteOr <- MCOr
  ByteAnd <- MCAnd
  Operand <- MCOperand
  CsrId = {"mstatus", "sstatus", "mepc", "medeleg"}
  Source = {{8, 11}}
  PC = {{2}}
  MAXINSTRUCTIONS = 3
  PortAddr = {0, 1, 2, 3, 4}
  OtherAddr = {0, 1}
  PartOf <- MCPartOf
  Mask = {{0}, {1}}
  CHAR_BITS = 3
  WORD = 12
  CLOCKS = 3
  Typed <- MCTyped
  CLIENTS = 2
  TYPED = 1
SPECIFICATION BenchSpec
INVARIANTS FlashInv ReadIdleAsserts ReadsContent FlashAnswer FlashAnswered DescriptorsSound FrameAsSpecified EchoInOrder DivisionExact AccessExact ScFindsLoaded CsrsInOrder ReadsInOrder LoadsOwnData StrobedOnce
PROPERTIES SleepEndsByRelease PageProgrammed ImplementsNor
VIEW Awake
