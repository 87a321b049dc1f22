SPECIFICATION Spec
CONSTANTS
  N = 3
  CPUs = {c1, c2}
  None = None
  Killable = {2}
  Observers = {2}
SYMMETRY Symmetry
INVARIANTS TableSound NoLostWakeup
PROPERTIES SlotLifecycle
