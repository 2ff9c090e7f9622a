----------------------------- MODULE MCOnlinePulse ---------------------------
(* An interval of five seconds (models.py:102) and delays of up to two.      *)
EXTENDS OnlinePulse
=============================================================================
