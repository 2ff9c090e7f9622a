\* Two daemons, two clients and a relay in four fleets; everything may get lost.
CONSTANTS
  d1 = d1
  d2 = d2
  c1 = c1
  c2 = c2
  Daemons = {d1, d2}
  Clients = {c1, c2}
  Words <- MCWords
  Numbers <- MCNumbers
  Separators <- MCSeparators
  Fleets <- MCFleets
  Host <- MCHost
  UserOverride <- MCUserOverride
  Relay <- MCRelay
  Downloads <- MCDownloads
  Lower <- MCLower
SPECIFICATION Spec
INVARIANT TypeOK
INVARIANT VerdictSound
INVARIANT OneImageEach
INVARIANT LabelTruthful
INVARIANT SessionForced
INVARIANT NamesLegal
INVARIANT FleetToldApart
CHECK_DEADLOCK FALSE
PROPERTY FramesRelayed
