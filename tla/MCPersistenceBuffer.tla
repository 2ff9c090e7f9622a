------------------------ MODULE MCPersistenceBuffer --------------------------
(* Frames below, at and beyond the cap, on a clock that goes on.           *)
EXTENDS PersistenceBuffer

MCClockSteps == {1}
=============================================================================
