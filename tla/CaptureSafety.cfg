\* Three calls: one served, one refused, one after the release, with every
\* failure.
CONSTANTS
  Requests = {r1, r2, r3}
  NoPublisher = NoPublisher
  NativeEnabled = TRUE
  SpawnMayFail = TRUE
  HelpersMayFail = TRUE
SPECIFICATION SafeSpec
SYMMETRY Symmetry
INVARIANT LockHeldByItsJob
INVARIANT CountExact
INVARIANT NoPublisherLost
\* The process ends for good.
CHECK_DEADLOCK FALSE
