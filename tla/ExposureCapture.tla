--------------------------- MODULE ExposureCapture ---------------------------
(***************************************************************************)
(* A capture with exposure settings: the parameter server of               *)
(* exposure_params.py (a ParameterServer), the capture job that reads the  *)
(* parameters (runtime.py), and the gphoto2 backend that turns them into   *)
(* --set-config arguments (capture_backends.py).  The capture lock lets    *)
(* one job run at a time (CaptureService proves it), so there is one.      *)
(*                                                                         *)
(* The job reads the parameters one by one while the server's threads set  *)
(* them, and the camera keeps what it was told: from one capture to the    *)
(* next, through failed captures, and through restarts of the process.     *)
(***************************************************************************)
EXTENDS ParameterServer

CONSTANTS
  Order,    \* _param_names, the parameters in the order of the configuration
  TextOf,   \* TextOf[v]: str(v).strip() of a parameter's value
  Unset,    \* the empty text, and None: leave the camera as it is
  Choices   \* Choices[n]: the texts the camera takes for n

ASSUME OrderAssumption ==
  /\ Order \in Seq(Names) /\ Len(Order) > 0
  /\ Names = {Order[i] : i \in DOMAIN Order}
  /\ \A i, j \in DOMAIN Order : Order[i] = Order[j] => i = j

ASSUME TextAssumption == Values \subseteq DOMAIN TextOf

ASSUME ChoicesAssumption == \A n \in Names : Unset \notin Choices[n] /\ Choices[n] # {}

NoFrame == [config |-> <<>>, exposure |-> <<>>]

VARIABLES
  published,  \* self._backend is set
  phase,      \* where the job is
  reader,     \* current() found a backend
  read,       \* how many parameters it has read
  exposure,   \* what it read: the keys and texts of the command line, in order
  applied,    \* how many of them gphoto2 has set
  camera,     \* camera[n]: the camera's setting of n
  frame,      \* the last frame: the settings it was shot with, its metadata
  before,     \* history: the camera's settings when the job began
  moments     \* history: the texts of the parameters, since the job began

jobVars == <<phase, reader, read, exposure, applied, camera, frame, before>>
captureVars == <<published, jobVars, moments>>
allVars == <<vars, captureVars>>

Texts == [n \in Names |-> TextOf[store[n]]]
Entries == [key : Names, text : {TextOf[v] : v \in DOMAIN TextOf}]

JobTypeOK ==
  /\ published \in BOOLEAN
  /\ phase \in {"idle", "reading", "configuring", "shot", "failed"}
  /\ reader \in BOOLEAN
  /\ read \in 0 .. Len(Order)
  /\ exposure \in Seq(Entries) /\ Len(exposure) <= read
  /\ applied \in 0 .. Len(exposure)
  /\ \A n \in Names : camera[n] \in Choices[n]
  /\ frame = NoFrame \/ \A n \in Names : frame.config[n] \in Choices[n]

JobInit ==
  /\ published = FALSE
  /\ phase = "idle"
  /\ reader = FALSE
  /\ read = 0
  /\ exposure = <<>>
  /\ applied = 0
  /\ frame = NoFrame
  /\ moments = {}

SystemInit ==
  /\ Init
  /\ JobInit
  /\ camera \in [Names -> UNION {Choices[n] : n \in Names}]
  /\ \A n \in Names : camera[n] \in Choices[n]
  /\ before = camera

-----------------------------------------------------------------------------
(* The parameter server.                                                   *)

\* start() has started the server; now its backend is published to current().
StartReturns ==
  /\ ~published
  /\ published' = TRUE
  /\ UNCHANGED <<vars, jobVars, moments>>

\* A step of the server, seen by the history while the job reads.
ParamsStep ==
  /\ Next
  /\ moments' = IF phase = "reading" THEN moments \cup {Texts'} ELSE moments
  /\ UNCHANGED <<published, jobVars>>

-----------------------------------------------------------------------------
(* The job: current().                                                     *)

\* The job is over and its locals with it.
Forget == read' = 0 /\ exposure' = <<>> /\ applied' = 0

\* Mutant of Begin: what the last job read is kept.
BeginCached ==
  /\ phase \in {"idle", "shot", "failed"}
  /\ reader' = published
  /\ phase' = IF published /\ frame = NoFrame THEN "reading" ELSE "configuring"
  /\ exposure' = frame.exposure
  /\ read' = Len(exposure') /\ applied' = 0 /\ frame' = NoFrame
  /\ before' = camera
  /\ moments' = {Texts}
  /\ UNCHANGED <<vars, published, camera>>

\* do_capture; without a backend current() returns no settings.
Begin ==
  /\ phase \in {"idle", "shot", "failed"}
  /\ reader' = published
  /\ phase' = IF published THEN "reading" ELSE "configuring"
  /\ Forget /\ frame' = NoFrame
  /\ before' = camera
  /\ moments' = {Texts}
  /\ UNCHANGED <<vars, published, camera>>

\* One turn of the loop over the names.
ReadParam ==
  /\ phase = "reading"
  /\ LET n == Order[read + 1]
     IN  exposure' = IF Texts[n] = Unset THEN exposure
                     ELSE Append(exposure, [key |-> n, text |-> Texts[n]])
  /\ read' = read + 1
  /\ phase' = IF read' = Len(Order) THEN "configuring" ELSE "reading"
  /\ UNCHANGED <<vars, published, reader, applied, camera, frame, before, moments>>

-----------------------------------------------------------------------------
(* The job: gphoto2 works through its command line from left to right.     *)

NextSetting == exposure[applied + 1]

\* Mutant of SetConfig: a value the camera refuses is passed over.
SetConfigSkips ==
  /\ phase = "configuring"
  /\ applied < Len(exposure)
  /\ applied' = applied + 1
  /\ camera' = IF NextSetting.text \in Choices[NextSetting.key]
                 THEN [camera EXCEPT ![NextSetting.key] = NextSetting.text] ELSE camera
  /\ UNCHANGED <<vars, published, phase, reader, read, exposure, frame, before, moments>>

SetConfig ==
  /\ phase = "configuring"
  /\ applied < Len(exposure)
  /\ NextSetting.text \in Choices[NextSetting.key]
  /\ camera' = [camera EXCEPT ![NextSetting.key] = NextSetting.text]
  /\ applied' = applied + 1
  /\ UNCHANGED <<vars, published, phase, reader, read, exposure, frame, before, moments>>

\* A value the camera does not know, a camera that is not there, no file
\* downloaded, a full buffer: the capture fails, and what was set stays set.
CaptureFails ==
  /\ phase = "configuring"
  /\ phase' = "failed"
  /\ Forget
  /\ before' = camera /\ moments' = {}
  /\ UNCHANGED <<vars, published, reader, camera, frame>>

\* --capture-image-and-download comes last; the metadata echoes what was set.
Shoot ==
  /\ phase = "configuring"
  /\ applied = Len(exposure)
  /\ frame' = [config |-> camera, exposure |-> exposure]
  /\ phase' = "shot"
  /\ Forget
  /\ UNCHANGED <<vars, published, reader, camera, before, moments>>

\* The process comes back with the configured parameters; the camera is as it was.
Restart ==
  /\ server' = "running" /\ store' = Initial /\ mirror' = Initial
  /\ op' = [h \in Handlers |-> NoOp] /\ pc' = [h \in Handlers |-> "idle"]
  /\ done' = [h \in Handlers |-> 0] /\ accepted' = [h \in Handlers |-> {}]
  /\ success' = [h \in Handlers |-> TRUE] /\ sent' = [h \in Handlers |-> FALSE]
  /\ contested' = {}
  /\ published' = FALSE /\ phase' = "idle" /\ reader' = FALSE
  /\ read' = 0 /\ exposure' = <<>> /\ applied' = 0 /\ frame' = NoFrame /\ moments' = {}
  /\ UNCHANGED <<camera, before>>

SystemNext ==
  \/ StartReturns \/ ParamsStep
  \/ Begin \/ ReadParam \/ SetConfig \/ CaptureFails \/ Shoot \/ Restart

SystemSpec == SystemInit /\ [][SystemNext]_allVars

-----------------------------------------------------------------------------
(* Properties.                                                             *)

\* The camera's setting of n after a capture with the texts m.
After(m, n) == IF m[n] = Unset THEN before[n] ELSE m[n]

\* "capture any time -- uses whatever the params are right now" (README.md:150):
\* each setting of the frame is one its parameter had while the job read the
\* parameters, or the camera's own if that was empty; a value that was there
\* when the job began and stayed is the one the frame was shot with.
SetsHonoured ==
  phase = "shot" /\ reader
    => \A n \in Names : \E m \in moments : frame.config[n] = After(m, n)

\* "echoes them back in the capture metadata under exposure" (README.md:140-141):
\* what the metadata says is what the camera was set to at the shot, whatever
\* failed captures and earlier processes left in the camera.
MetadataTruthful ==
  phase = "shot" =>
    \A i \in DOMAIN frame.exposure :
      frame.config[frame.exposure[i].key] = frame.exposure[i].text

\* What was read for the parameter n: its text, or nothing.
ReadAs(n, text) ==
  IF text = Unset THEN \A i \in DOMAIN exposure : exposure[i].key # n
  ELSE \E i \in DOMAIN exposure : exposure[i] = [key |-> n, text |-> text]

\* What has been read is what the parameters were at one of the moments each, and
\* each parameter is there once at most.
ReadTruly ==
  /\ phase = "reading" => read < Len(Order) /\ applied = 0 /\ reader /\ Texts \in moments
  /\ phase = "configuring" /\ reader => read = Len(Order)
  /\ \A i \in DOMAIN exposure : \E k \in 1 .. read : exposure[i].key = Order[k]
  /\ \A i, j \in DOMAIN exposure : exposure[i].key = exposure[j].key => i = j
  /\ \A k \in 1 .. read : \E m \in moments : ReadAs(Order[k], m[Order[k]])

\* The camera has the settings that gphoto2 has come to, and its own besides.
SetTruly ==
  phase \in {"reading", "configuring"} =>
    \A n \in Names :
      \/ camera[n] = before[n] /\ \A i \in 1 .. applied : exposure[i].key # n
      \/ \E i \in 1 .. applied : exposure[i] = [key |-> n, text |-> camera[n]]

\* The inductive strengthening of SetsHonoured and MetadataTruthful.
JobIInv == JobTypeOK /\ ReadTruly /\ SetTruly /\ SetsHonoured /\ MetadataTruthful
=============================================================================
