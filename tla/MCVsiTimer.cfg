CONSTANTS
  t1 = t1
  t2 = t2
  a = a
  b = b
  c = c
  Timers = {a, b, c}
  Tasks = {t1, t2}
  Owner <- TwoAndOne
  MaxSimultaneousTimer = 3
  Values <- Once
  Periods <- Again
  Wrap = 16
  MaxQueued = 1
  MaxLate = 0
  RestartRace = FALSE
  None = None
SPECIFICATION TimerSpec
INVARIANTS TypeOK NextIsArmed HandlesAccounted
PROPERTIES TimersServed
