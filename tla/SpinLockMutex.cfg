CONSTANTS
  Threads = {t1, t2}
  SafetyLimit = 1
  HistMod = 3
  MaxSections = 2
SPECIFICATION LockSpec
INVARIANTS MutualExclusion
