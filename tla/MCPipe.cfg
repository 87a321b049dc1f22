SPECIFICATION Spec
CONSTANTS
  Procs = {p1, p2}
  First = p1
  NFILE = 2
  NOFILE = 2
  Pages = {q1}
  None = none
  PIPESIZE = 2
  WRAP = 4
  Bytes = {a, b}
  Sizes = {2}
SYMMETRY Symmetry
INVARIANTS FilesExact NoUseAfterFree NoLostWakeup
PROPERTY FifoOrder
CHECK_DEADLOCK FALSE
