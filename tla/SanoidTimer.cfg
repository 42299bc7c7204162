SPECIFICATION TimerFairSpec
INVARIANTS Recoverable QuietRun
PROPERTIES Restored
