SPECIFICATION Spec
CONSTANTS
  Procs = {p1, p2, p3}
  Blocks = {k1, k2, k3, k4}
  Blank = blank
  Vals = {blank, text}
  None = none
  Bufs = {b1, b2, b3}
  NUM = 7
  MaxPins = 1
  Dirty = {k1}
SYMMETRY Symmetry
INVARIANTS PoolsExact NoLostWakeup
PROPERTY CoherentCache
