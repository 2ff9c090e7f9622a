--------------------------- MODULE MCNodeIdentity ----------------------------
(* Two nodes, the first with two endpoints, and one endpoint of the SDK's.  *)
EXTENDS NodeIdentity, TLC

CONSTANTS n1, n2, e1, e2, e3, e4

MCOwner == e1 :> n1 @@ e2 :> n1 @@ e3 :> n2 @@ e4 :> Sdk
MCEndpoints == {e1, e2, e3, e4}
=============================================================================
