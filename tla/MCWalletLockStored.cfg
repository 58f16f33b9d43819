SPECIFICATION TimerSpec
CONSTANTS
  Timer <- MCTimer
  MaxTimeout = 2
  NoTime = NoTime
INVARIANT StoredForTimeout
