SPECIFICATION InputSpec
CONSTANTS
  Readers = {r1, r2}
  None = none
  Plain = {a, b}
  INPUT_BUF_SIZE = 3
  WRAP = 6
  Sizes = {1, 4}
  Sleepers = {s1, s2}
  M = 8
  Delays <- MCDelays
  Latency = 2
  Nobody = Nobody
SYMMETRY Symmetry
INVARIANTS BufferSound NoLostWakeup
PROPERTIES LineDiscipline SleepsAsAsked
