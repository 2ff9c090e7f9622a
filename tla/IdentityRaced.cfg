\* A node is created while an endpoint of another one is being built.
CONSTANTS
  n1 = n1
  n2 = n2
  e1 = e1
  e2 = e2
  e3 = e3
  e4 = e4
  Sdk = Sdk
  Nodes = {n1, n2}
  Endpoints <- MCEndpoints
  Owner <- MCOwner
SPECIFICATION SafeSpec
INVARIANT NodesDistinct
CHECK_DEADLOCK FALSE
