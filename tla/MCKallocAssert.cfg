SPECIFICATION Spec
CONSTANTS
  Procs = {t1, t2}
  Pages = {p1, p2}
  NoPage = NoPage
  NoProc = NoProc
  RefMod = 4
  CountMod = 4
SYMMETRY Symmetry
CHECK_DEADLOCK FALSE
INVARIANTS KfreeNeverPanics
