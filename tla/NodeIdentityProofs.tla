------------------------- MODULE NodeIdentityProofs --------------------------
(***************************************************************************)
(* Proofs that pinning gives all endpoints of a Node its id and leaves no  *)
(* trace in the shared session, for any number of nodes, endpoints and     *)
(* foreign endpoints.  The invariant is proved in layers: who is inside    *)
(* the lock, what the allocator is meanwhile, then what was drawn from it. *)
(***************************************************************************)
EXTENDS NodeIdentity, TLAPS

Base == TypeOK /\ HolderInv /\ PinInv

LEMMA BaseInit == Init => Base
  <1> SUFFICES ASSUME Init PROVE Base
    OBVIOUS
  <1>1. TypeOK
    BY DEF Init, TypeOK, PCs, NoId, Own
  <1>2. HolderInv
    BY FreeAssumption DEF Init, HolderInv, NoId
  <1>3. PinInv
    BY DEF Init, PinInv, Pinning
  <1>4. QED
    BY <1>1, <1>2, <1>3 DEF Base

\* The thread inside the lock is the only one that touches the allocator.
LEMMA BaseStep == Base /\ [Next]_vars => Base'
  <1> SUFFICES ASSUME Base, [Next]_vars PROVE Base'
    OBVIOUS
  <1> USE FreeAssumption, OwnerAssumption
      DEF Base, TypeOK, HolderInv, PinInv, Pinning, PCs, NoId, Own
  <1>1. ASSUME NEW n \in Nodes, CreateNode(n) PROVE Base'
    <2>1. Drawn \in Nat \ {NoId}
      <3>1. CASE \E e \in Endpoints : Pinning(e)
        BY <3>1 DEF Drawn
      <3>2. CASE \A e \in Endpoints : ~Pinning(e)
        BY <3>2 DEF Drawn
      <3>3. QED
        BY <3>1, <3>2
    <2>2. next' \in Nat \ {NoId}
      BY <1>1 DEF CreateNode, Draw
    <2>3. \A m \in Nodes : nodeId[m] # NoId => nodeId'[m] = nodeId[m]
      BY <1>1, <2>1 DEF CreateNode
    <2>4. QED
      BY <1>1, <2>1, <2>2, <2>3 DEF CreateNode
  <1>2. ASSUME NEW e \in Endpoints, BuildForeign(e) PROVE Base'
    <2>1. Drawn \in Nat /\ next' \in Nat \ {NoId}
      BY <1>2 DEF BuildForeign, Drawn, Draw
    <2>2. QED
      BY <1>2, <2>1 DEF BuildForeign
  <1>3. ASSUME NEW e \in Endpoints, Acquire(e) PROVE Base'
    BY <1>3 DEF Acquire, Step
  <1>4. ASSUME NEW e \in Endpoints, Inside(e) PROVE Base'
    <2>1. CASE Pin(e)
      BY <2>1 DEF Pin, Step
    <2>2. CASE Build(e)
      <3>1. Drawn \in Nat /\ next' \in Nat \ {NoId}
        BY <2>2 DEF Build, Drawn, Draw
      <3>2. QED
        BY <2>2, <3>1 DEF Build, Step
    <2>3. CASE BuildFails(e)
      BY <2>3 DEF BuildFails, Step
    <2>4. CASE Restore(e)
      BY <2>4 DEF Restore, Step
    <2>5. CASE Release(e)
      BY <2>5 DEF Release, Step
    <2>6. QED
      BY <1>4, <2>1, <2>2, <2>3, <2>4, <2>5 DEF Inside
  <1>5. CASE UNCHANGED vars
    BY <1>5 DEF vars
  <1>6. QED
    BY <1>1, <1>2, <1>3, <1>4, <1>5 DEF Next

LEMMA BaseAlways == SafeSpec => []Base
  BY BaseInit, BaseStep, PTL DEF SafeSpec

\* Every variable keeps its type.
THEOREM TypeCorrect == SafeSpec => []TypeOK
  <1>1. Base => TypeOK
    BY DEF Base
  <1>2. QED
    BY <1>1, BaseAlways, PTL

\* The pin never outlives the endpoint it was set for, not even when the SDK's
\* constructor raises: whoever finds the lock free finds the SDK's allocator.
THEOREM AllocatorIsRestored == SafeSpec => []AllocatorRestored
  <1>1. Base => AllocatorRestored
    BY FreeAssumption DEF Base, HolderInv, PinInv, Pinning, AllocatorRestored
  <1>2. QED
    BY <1>1, BaseAlways, PTL

\* A node's id is drawn once.
LEMMA NodeIdKept ==
  ASSUME Base, [Next]_vars, NEW n \in Nodes, nodeId[n] # NoId
  PROVE  nodeId'[n] = nodeId[n]
  BY DEF Base, TypeOK, Next, CreateNode, BuildForeign, Acquire, Inside, Pin, Build,
         BuildFails, Restore, Release, Step, vars

\* An endpoint is declared with the id its node has, and both stay.
LEMMA ShareStep == Base /\ EndpointsShareNodeId /\ [Next]_vars => EndpointsShareNodeId'
  <1> SUFFICES ASSUME Base, EndpointsShareNodeId, [Next]_vars,
                      NEW e \in Endpoints, Owner[e] # Sdk, id'[e] # NoId
               PROVE  id'[e] = nodeId'[Owner[e]]
    BY DEF EndpointsShareNodeId
  <1>0. Owner[e] \in Nodes
    BY OwnerAssumption
  <1>1. CASE Build(e)
    BY <1>0, <1>1, FreeAssumption
       DEF Build, Step, Drawn, Base, TypeOK, HolderInv, PinInv, Pinning, Own, NoId
  <1>2. CASE ~Build(e)
    <2>1. id'[e] = id[e]
      BY <1>2 DEF Base, TypeOK, Next, CreateNode, BuildForeign, Acquire, Inside, Pin,
                  Build, BuildFails, Restore, Release, Step, vars
    <2>2. nodeId[Owner[e]] # NoId
      BY <2>1, <1>0 DEF EndpointsShareNodeId, NoId
    <2>3. QED
      BY <1>0, <2>1, <2>2, NodeIdKept DEF EndpointsShareNodeId
  <1>3. QED
    BY <1>1, <1>2

\* All endpoints created through a Node share the Node's graph identity,
\* whatever other nodes and foreign endpoints are built at the same time.
THEOREM EndpointsShare == SafeSpec => []EndpointsShareNodeId
  <1>1. Init => EndpointsShareNodeId
    BY DEF Init, EndpointsShareNodeId
  <1>2. QED
    BY <1>1, ShareStep, BaseAlways, PTL DEF SafeSpec

-----------------------------------------------------------------------------
(* Distinct identities.                                                    *)

\* Whoever draws from the SDK's counter gets a number nobody has.
LEMMA DistinctStep ==
  Base /\ DrawnInv /\ DistinctUnlessRaced /\ [Next]_vars
    => DrawnInv' /\ DistinctUnlessRaced'
  <1> SUFFICES ASSUME Base, DrawnInv, DistinctUnlessRaced, [Next]_vars
               PROVE  DrawnInv' /\ DistinctUnlessRaced'
    OBVIOUS
  <1> USE OwnerAssumption
      DEF Base, TypeOK, DrawnInv, DistinctUnlessRaced, Independent, Identity, NoId, Own
  <1>0. allocator < next
    BY FreeAssumption DEF PinInv, HolderInv, Pinning
  <1>1. ASSUME NEW n \in Nodes, CreateNode(n) PROVE DrawnInv' /\ DistinctUnlessRaced'
    <2>1. DrawnInv'
      BY <1>0, <1>1 DEF CreateNode, Drawn, Draw
    <2>2. DistinctUnlessRaced'
      <3>1. CASE allocator = Own
        BY <1>1, <3>1 DEF CreateNode, Drawn, Draw
      <3>2. CASE allocator # Own
        BY <1>1, <3>2 DEF CreateNode, Drawn, Draw
      <3>3. QED
        BY <3>1, <3>2
    <2>3. QED
      BY <2>1, <2>2
  <1>2. ASSUME NEW e \in Endpoints, BuildForeign(e)
        PROVE  DrawnInv' /\ DistinctUnlessRaced'
    <2>1. DrawnInv'
      BY <1>0, <1>2 DEF BuildForeign, Drawn, Draw
    <2>2. DistinctUnlessRaced'
      <3>1. CASE allocator = Own
        BY <1>2, <3>1 DEF BuildForeign, Drawn, Draw
      <3>2. CASE allocator # Own
        BY <1>2, <3>2 DEF BuildForeign, Drawn, Draw
      <3>3. QED
        BY <3>1, <3>2
    <2>3. QED
      BY <2>1, <2>2
  <1>3. ASSUME NEW e \in Endpoints, Build(e) PROVE DrawnInv' /\ DistinctUnlessRaced'
    <2>1. Owner[e] # Sdk
      BY <1>3 DEF Build, Step, HolderInv
    <2>2. next' \in Nat /\ next' >= next /\ Drawn < next'
      BY <1>0, <1>3 DEF Build, Drawn, Draw
    <2>3. DrawnInv'
      <3>1. \A n \in Nodes : nodeId'[n] < next'
        BY <1>3, <2>2 DEF Build
      <3>2. \A f \in Endpoints : id'[f] < next'
        BY <1>3, <2>2 DEF Build
      <3>3. QED
        BY <3>1, <3>2
    <2>4. \A x \in Independent : Identity(x)' = Identity(x)
      BY <1>3, <2>1 DEF Build
    <2>5. QED
      BY <1>3, <2>3, <2>4 DEF Build
  <1>4. CASE \/ UNCHANGED vars
             \/ \E e \in Endpoints :
                  Acquire(e) \/ Pin(e) \/ BuildFails(e) \/ Restore(e) \/ Release(e)
    BY <1>4 DEF vars, Acquire, Pin, BuildFails, Restore, Release
  <1>5. QED
    BY <1>1, <1>2, <1>3, <1>4 DEF Next, Inside

\* Two nodes, or a node and a foreign endpoint, have one identity only if one
\* of them was created while some endpoint was being built.
THEOREM DistinctUnlessCreatedInARace == SafeSpec => []DistinctUnlessRaced
  <1>1. Init => DrawnInv /\ DistinctUnlessRaced
    BY OwnerAssumption
       DEF Init, DrawnInv, DistinctUnlessRaced, Independent, Identity, NoId
  <1>2. QED
    BY <1>1, DistinctStep, BaseAlways, PTL DEF SafeSpec

\* The whole of what the other theorems rest on.
THEOREM InvariantHolds == SafeSpec => []IInv
  <1>1. Init => DrawnInv
    BY OwnerAssumption DEF Init, DrawnInv, NoId
  <1>2. Base /\ DrawnInv /\ EndpointsShareNodeId /\ AllocatorRestored
          /\ DistinctUnlessRaced => IInv
    BY DEF Base, IInv
  <1>3. Init => DistinctUnlessRaced
    BY OwnerAssumption DEF Init, DistinctUnlessRaced, Independent, Identity, NoId
  <1>4. QED
    BY <1>1, <1>2, <1>3, DistinctStep, BaseAlways, EndpointsShare, AllocatorIsRestored, PTL
       DEF SafeSpec
=============================================================================
