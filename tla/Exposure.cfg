\* Two requests to set parameters race with captures and restarts.
CONSTANTS
  Names <- MCNames
  Unknown = "ghost"
  Descriptor <- MCDescriptor
  Initial <- MCInitial
  Handlers = {h1, h2}
  Payloads <- MCPayloads
  Order <- MCOrder
  TextOf <- MCTextOf
  Unset = ""
  Choices <- MCChoices
SPECIFICATION SystemSpec
INVARIANTS
  SetsHonoured
  MetadataTruthful
SYMMETRY Symmetry
