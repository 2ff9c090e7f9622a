\* Two requests under fair scheduling, with a stop at any time.
CONSTANTS
  gain = gain
  iso = iso
  serial = serial
  ghost = ghost
  auto = auto
  s0 = s0
  s1 = s1
  Names <- MCNames
  Unknown <- ghost
  Descriptor <- MCDescriptor
  Initial <- MCInitial
  Handlers = {h1, h2}
  Payloads <- MCPayloads
SPECIFICATION Spec
INVARIANT StoreLegal
INVARIANT MirrorAgrees
PROPERTY EveryRequestAnswered
\* The server stays stopped.
CHECK_DEADLOCK FALSE
