\* Two calls, every thread scheduled fairly, every failure but that of
\* Thread.start: SpawnMayFail is FALSE, for it would lose the lock (runtime.py:158).
CONSTANTS
  Requests = {r1, r2}
  NoPublisher = NoPublisher
  NativeEnabled = TRUE
  SpawnMayFail = FALSE
  HelpersMayFail = TRUE
SPECIFICATION Spec
PROPERTY EveryCallAnswered
PROPERTY StopCompletes
PROPERTY ImplementsContract
\* The process ends for good.
CHECK_DEADLOCK FALSE
