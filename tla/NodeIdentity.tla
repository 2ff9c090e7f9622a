---------------------------- MODULE NodeIdentity -----------------------------
(***************************************************************************)
(* Graph identities in pico-ros-py (picoros.py).  The SDK draws a fresh    *)
(* node id for every endpoint it declares; _pinned_node_id makes all the   *)
(* endpoints of a Node share the id the Node drew, by replacing the        *)
(* allocator of the shared ZenohSession while an endpoint is built.        *)
(*                                                                         *)
(* _IDENTITY_LOCK keeps two pinnings apart.  Neither Node.__init__ nor the *)
(* endpoints that others declare with the SDK itself take it: the Pi       *)
(* runtime's image and temperature publishers do so on the session the     *)
(* exposure node uses.                                                     *)
(***************************************************************************)
EXTENDS Naturals, FiniteSets

CONSTANTS
  Nodes,       \* the pico-ros-py nodes
  Endpoints,   \* the endpoints, each built by a thread of its own
  Owner,       \* Owner[e]: the Node that creates e, or Sdk
  Sdk          \* the owner of an endpoint built with the SDK itself

ASSUME OwnerAssumption ==
  /\ Sdk \notin Nodes
  /\ Nodes \cap Endpoints = {}
  /\ Owner \in [Endpoints -> Nodes \cup {Sdk}]

Own == 0       \* the allocator is the SDK's own counter
NoId == 0      \* no id drawn yet
Free == "free"

ASSUME FreeAssumption == Free \notin Endpoints

VARIABLES
  next,       \* the next id the SDK's counter gives
  allocator,  \* session.get_next_node_id: Own, or the id it is pinned to
  lock,       \* the endpoint whose thread holds _IDENTITY_LOCK, or Free
  nodeId,     \* nodeId[n]: _node_id of the Node n
  id,         \* id[e]: the node id the endpoint e was declared with
  pc,         \* pc[e]: where the thread that builds e is
  original,   \* original[e]: the allocator it found when it pinned
  raced       \* history: the nodes and endpoints that drew a pinned id unasked

vars == <<next, allocator, lock, nodeId, id, pc, original, raced>>

PCs == {"idle", "locked", "pinned", "built", "restored", "done"}

TypeOK ==
  /\ next \in Nat \ {NoId}
  /\ allocator \in Nat
  /\ lock \in Endpoints \cup {Free}
  /\ nodeId \in [Nodes -> Nat]
  /\ id \in [Endpoints -> Nat]
  /\ pc \in [Endpoints -> PCs]
  /\ original \in [Endpoints -> Nat]
  /\ raced \subseteq Nodes \cup Endpoints

Init ==
  /\ next = 1
  /\ allocator = Own
  /\ lock = Free
  /\ nodeId = [n \in Nodes |-> NoId]
  /\ id = [e \in Endpoints |-> NoId]
  /\ pc = [e \in Endpoints |-> "idle"]
  /\ original = [e \in Endpoints |-> Own]
  /\ raced = {}

\* What session.get_next_node_id() returns and does to the counter.
Drawn == IF allocator = Own THEN next ELSE allocator
Draw == next' = IF allocator = Own THEN next + 1 ELSE next

\* Mutant of CreateNode: the id is read off the counter, not drawn.
CreateNodePeeks(n) ==
  /\ nodeId[n] = NoId
  /\ nodeId' = [nodeId EXCEPT ![n] = Drawn]
  /\ raced' = IF allocator = Own THEN raced ELSE raced \cup {n}
  /\ UNCHANGED <<next, allocator, lock, id, pc, original>>

\* Node.__init__ draws the node's id without the lock.
CreateNode(n) ==
  /\ nodeId[n] = NoId
  /\ nodeId' = [nodeId EXCEPT ![n] = Drawn]
  /\ Draw
  /\ raced' = IF allocator = Own THEN raced ELSE raced \cup {n}
  /\ UNCHANGED <<allocator, lock, id, pc, original>>

\* An endpoint built with the SDK alone.
BuildForeign(e) ==
  /\ Owner[e] = Sdk
  /\ pc[e] = "idle"
  /\ id' = [id EXCEPT ![e] = Drawn]
  /\ Draw
  /\ pc' = [pc EXCEPT ![e] = "done"]
  /\ raced' = IF allocator = Own THEN raced ELSE raced \cup {e}
  /\ UNCHANGED <<allocator, lock, nodeId, original>>

Step(e, from, to) ==
  /\ pc[e] = from
  /\ pc' = [pc EXCEPT ![e] = to]

\* Mutant of Acquire: no lock.
AcquireNothing(e) ==
  /\ Owner[e] # Sdk /\ nodeId[Owner[e]] # NoId
  /\ Step(e, "idle", "locked")
  /\ lock' = e
  /\ UNCHANGED <<next, allocator, nodeId, id, original, raced>>

\* create_publisher and its three siblings: with _IDENTITY_LOCK ...
Acquire(e) ==
  /\ Owner[e] # Sdk /\ nodeId[Owner[e]] # NoId
  /\ lock = Free
  /\ Step(e, "idle", "locked")
  /\ lock' = e
  /\ UNCHANGED <<next, allocator, nodeId, id, original, raced>>

\* ... and _pinned_node_id, remember the allocator and replace it,
Pin(e) ==
  /\ Step(e, "locked", "pinned")
  /\ original' = [original EXCEPT ![e] = allocator]
  /\ allocator' = nodeId[Owner[e]]
  /\ UNCHANGED <<next, lock, nodeId, id, raced>>

\* build the SDK's endpoint, which draws an id ...
Build(e) ==
  /\ Step(e, "pinned", "built")
  /\ id' = [id EXCEPT ![e] = Drawn]
  /\ Draw
  /\ UNCHANGED <<allocator, lock, nodeId, original, raced>>

\* Mutant of BuildFails: the exception skips the unpinning and the release.
BuildFailsLocked(e) ==
  /\ Step(e, "pinned", "done")
  /\ UNCHANGED <<next, allocator, lock, nodeId, id, original, raced>>

\* ... or raises,
BuildFails(e) ==
  /\ Step(e, "pinned", "built")
  /\ UNCHANGED <<next, allocator, lock, nodeId, id, original, raced>>

\* Mutant of Restore: the wrong value is put back.
RestoreId(e) ==
  /\ Step(e, "built", "restored")
  /\ allocator' = id[e]
  /\ UNCHANGED <<next, lock, nodeId, id, original, raced>>

\* put the allocator back,
Restore(e) ==
  /\ Step(e, "built", "restored")
  /\ allocator' = original[e]
  /\ UNCHANGED <<next, lock, nodeId, id, original, raced>>

\* and release the lock.
Release(e) ==
  /\ Step(e, "restored", "done")
  /\ lock' = Free
  /\ UNCHANGED <<next, allocator, nodeId, id, original, raced>>

Inside(e) == Pin(e) \/ Build(e) \/ BuildFails(e) \/ Restore(e) \/ Release(e)

Next ==
  \/ \E n \in Nodes : CreateNode(n)
  \/ \E e \in Endpoints : BuildForeign(e) \/ Acquire(e) \/ Inside(e)

SafeSpec == Init /\ [][Next]_vars
\* The SDK's constructors return or raise, and a thread waiting for a lock that
\* stays free takes it.
Spec == SafeSpec /\ \A e \in Endpoints : WF_vars(Inside(e)) /\ WF_vars(Acquire(e))

-----------------------------------------------------------------------------
(* Invariants and properties.                                              *)

\* "All endpoints created through a Node share ... a single graph node
\* identity" (picoros.py:86), however many threads build endpoints of however
\* many nodes at once.
EndpointsShareNodeId ==
  \A e \in Endpoints :
    Owner[e] # Sdk /\ id[e] # NoId => id[e] = nodeId[Owner[e]]

\* The session's own allocator is back whenever nobody holds the lock, also
\* after a constructor has raised: a pin never outlives its endpoint.
AllocatorRestored == lock = Free => allocator = Own

\* What is drawn outside a pinning is nobody else's: ids collide only if a
\* Node or a foreign endpoint is created while some endpoint is being built.
Identity(x) == IF x \in Nodes THEN nodeId[x] ELSE id[x]
Independent == Nodes \cup {e \in Endpoints : Owner[e] = Sdk}
DistinctUnlessRaced ==
  \A x, y \in Independent \ raced :
    x # y /\ Identity(x) # NoId => Identity(x) # Identity(y)

Pinning(e) == pc[e] \in {"pinned", "built"}

\* The lock is held by the one endpoint being built, of a Node that has its id;
\* the allocator is pinned to that id while it is; all ids have been drawn.
HolderInv ==
  \A e \in Endpoints :
    /\ pc[e] \in {"locked", "pinned", "built", "restored"} <=> lock = e
    /\ lock = e => Owner[e] # Sdk /\ nodeId[Owner[e]] # NoId
    /\ id[e] # NoId => pc[e] \in {"built", "restored", "done"}
PinInv ==
  /\ \A e \in Endpoints : Pinning(e) => allocator = nodeId[Owner[e]] /\ original[e] = Own
  /\ (\A e \in Endpoints : ~Pinning(e)) => allocator = Own
DrawnInv ==
  /\ \A n \in Nodes : nodeId[n] < next
  /\ \A e \in Endpoints : id[e] < next

\* All of the above, inductive together.
IInv == /\ TypeOK /\ HolderInv /\ PinInv /\ DrawnInv
        /\ EndpointsShareNodeId /\ AllocatorRestored /\ DistinctUnlessRaced

\* Every endpoint somebody sets out to build gets built, or its failure comes
\* out; no failure keeps the others from the lock.
EveryBuildEnds ==
  \A e \in Endpoints : (Owner[e] # Sdk /\ nodeId[Owner[e]] # NoId) ~> pc[e] = "done"

\* "Serializes node identity pinning (see _pinned_node_id) across Node
\* creation" (picoros.py:19): two nodes never have one identity.
NodesDistinct ==
  \A m, n \in Nodes : m # n /\ nodeId[m] # NoId => nodeId[m] # nodeId[n]
=============================================================================
