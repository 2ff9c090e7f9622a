-------------------------- MODULE MCCaptureService ---------------------------
(* CaptureService on small sets of calls, which are interchangeable.       *)
EXTENDS CaptureService, TLC

Symmetry == Permutations(Requests)
=============================================================================
