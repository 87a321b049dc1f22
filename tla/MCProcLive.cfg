SPECIFICATION Spec
CONSTANTS
  N = 3
  CPUs = {c1}
  None = None
  Killable = {}
  Observers = {}
PROPERTIES ZombiesReaped
