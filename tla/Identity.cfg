\* Every interleaving of two nodes, three endpoints of theirs and a foreign one.
CONSTANTS
  n1 = n1
  n2 = n2
  e1 = e1
  e2 = e2
  e3 = e3
  e4 = e4
  Sdk = Sdk
  Nodes = {n1, n2}
  Endpoints <- MCEndpoints
  Owner <- MCOwner
SPECIFICATION Spec
INVARIANT EndpointsShareNodeId
INVARIANT AllocatorRestored
INVARIANT DistinctUnlessRaced
PROPERTY EveryBuildEnds
\* Everything is built some time.
CHECK_DEADLOCK FALSE
