------------------------- MODULE MCPulseBroadcaster --------------------------
(* All three kinds of broadcaster. A client is built before stop and at most *)
(* one after it, so the state space is finite without a bound.               *)
EXTENDS PulseBroadcaster
=============================================================================
