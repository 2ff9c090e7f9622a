\* Frames below, at and beyond the cap, with crashes, full disks and deletions.
CONSTANTS
  Captures = {c1, c2, c3, c4}
  MaxBytes = 2
  Sizes = {1, 2, 3}
  ClockSteps <- MCClockSteps
  OthersDelete = TRUE
SPECIFICATION Spec
INVARIANT CapRespected
INVARIANT SurvivorsAreNewest
INVARIANT KeepsWhatFits
PROPERTY PersistEnds
