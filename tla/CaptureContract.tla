--------------------------- MODULE CaptureContract ---------------------------
(***************************************************************************)
(* What the capture service of the Pi runtime promises, with no threads,   *)
(* locks or publishers in it.                                              *)
(*                                                                         *)
(* The camera takes one picture at a time.  A call that finds it busy is   *)
(* refused on the spot, a call that finds it free is worked on until the   *)
(* frame has been delivered or the attempt has failed, and each delivered  *)
(* frame is counted exactly once.  The camera may hang, since nothing in   *)
(* the runtime bounds the time it takes, and the process may go away.      *)
(***************************************************************************)
EXTENDS Naturals

CONSTANT Requests      \* the calls made on the service

VARIABLES
  up,                  \* the process is alive
  phase,               \* phase[r]: how far the call r has come
  frames               \* the number of frames delivered so far

vars == <<up, phase, frames>>

Phases == {"idle", "dropped", "refused", "working", "hung", "delivered",
           "done", "failed"}

TypeOK ==
  /\ up \in BOOLEAN
  /\ phase \in [Requests -> Phases]
  /\ frames \in Nat

\* The camera works for r.
Busy(r) == phase[r] \in {"working", "hung", "delivered"}

Init ==
  /\ up = TRUE
  /\ phase = [r \in Requests |-> "idle"]
  /\ frames = 0

Move(r, from, to) ==
  /\ up
  /\ phase[r] = from
  /\ phase' = [phase EXCEPT ![r] = to]
  /\ UNCHANGED up

\* The call fails before it reaches the camera.
Drop(r) == Move(r, "idle", "dropped") /\ UNCHANGED frames

Refuse(r) ==
  /\ \E q \in Requests : Busy(q)
  /\ Move(r, "idle", "refused")
  /\ UNCHANGED frames

Accept(r) ==
  /\ \A q \in Requests : ~Busy(q)
  /\ Move(r, "idle", "working")
  /\ UNCHANGED frames

Hang(r) == Move(r, "working", "hung") /\ UNCHANGED frames

Fail(r) == Move(r, "working", "failed") /\ UNCHANGED frames

Deliver(r) == Move(r, "working", "delivered") /\ frames' = frames + 1

Finish(r) == Move(r, "delivered", "done") /\ UNCHANGED frames

Exit ==
  /\ up
  /\ up' = FALSE
  /\ UNCHANGED <<phase, frames>>

Settle(r) == Hang(r) \/ Fail(r) \/ Deliver(r) \/ Finish(r)

Next ==
  \/ Exit
  \/ \E r \in Requests : Drop(r) \/ Refuse(r) \/ Accept(r) \/ Settle(r)

\* An accepted call makes progress; nobody has to call, or to stop.
Spec == Init /\ [][Next]_vars /\ \A r \in Requests : WF_vars(Settle(r))
=============================================================================
