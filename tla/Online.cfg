\* Five seconds between pulses (models.py:102), delays of up to two.
CONSTANTS
  Interval = 5
  Slack = 2
  Cap = 12
SPECIFICATION Spec
INVARIANT AliveIsFresh
INVARIANT DeadIsStale
PROPERTY ComesOnline
