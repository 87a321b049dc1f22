SPECIFICATION TerminalSpec
CONSTANTS
  Writers = {w1, w2}
  None = none
  UART_TX_BUF_SIZE = 2
  Sizes = {3}
  RxDepth = 1
  MAXARGS = 3
  NBUF = 6
  Cells = {}
  NPROC = 8
  NOFILE = 7
  Lines <- MCLines
  Script <- MCScript
  Filters <- MCFilters
  Floods <- MCFloods
  MaxFails = 1
INVARIANTS TypeOK NoLostWakeup OutputNotStalled JobsExact
PROPERTIES RoomAgain PromptReturns
