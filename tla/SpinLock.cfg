CONSTANTS
  Threads = {t1, t2, t3}
  SafetyLimit = 1
  HistMod = 3
  MaxSections = 4
SPECIFICATION StallingLockSpec
INVARIANTS LockTypeOK HolderBound HistExact
PROPERTIES SpinnersProgress
