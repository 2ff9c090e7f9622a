\* A request to set atomically that fails half-way.
CONSTANTS
  gain = gain
  iso = iso
  serial = serial
  ghost = ghost
  auto = auto
  s0 = s0
  s1 = s1
  Names <- MCNames
  Unknown <- ghost
  Descriptor <- MCDescriptor
  Initial <- MCInitial
  Handlers = {h1}
  Payloads <- MCPayloads
INIT Init
NEXT Next
INVARIANT AtomicAllOrNothing
CHECK_DEADLOCK FALSE
