---------------------------- MODULE CaptureSystem ----------------------------
(***************************************************************************)
(* The daemons of a fleet, the clients that call them (capture_client.py), *)
(* and a relay of the ROS 2 gateway (gateway_node.py), end to end: a       *)
(* daemon boots from its file and its environment (Settings), a call that  *)
(* is accepted becomes a job, its frame goes out as a blob under the       *)
(* frames key and as a native image, and the relay republishes the blob.   *)
(*                                                                         *)
(* A daemon's capture service is CaptureService seen from outside: the     *)
(* steps of CaptureContract, which CaptureService is shown to implement.   *)
(* Calls, answers and frames may be lost or late, and any process may go   *)
(* away between two of its steps.                                          *)
(***************************************************************************)
EXTENDS Settings

CONSTANTS
  Daemons,
  Clients,
  Fleets,       \* the fleets considered, by a name: the daemons' files, whom clients ask
  Host,         \* Host[d]: the name of the host of d
  UserOverride, \* UserOverride[d]: ZENOH_CONFIG_OVERRIDE as the user left it
  Relay,        \* the relay's frames prefix, image topic and compressed topic
  Downloads,    \* what gphoto2 may leave in the directory: sets of suffixes
  Lower         \* Lower[s]: the suffix s in small letters

ASSUME FleetAssumption ==
  \A f \in DOMAIN Fleets :
    DOMAIN Fleets[f].files = Daemons /\ DOMAIN Fleets[f].asks = Clients
ASSUME DownloadsAssumption == \A s \in Downloads : IsFiniteSet(s)
\* Hosts have names, and what stands in a file for a name is a text.
ASSUME TextAssumption ==
  /\ \A d \in Daemons : Host[d] \in Texts
  /\ \A f \in DOMAIN Fleets, d \in Daemons :
       \A k \in {"camera_id", "camera_model", "device_id", "core_temp_publish.application"} :
         k \in DOMAIN Fleets[f].files[d] => Fleets[f].files[d][k] \in Texts
ASSUME OverrideAssumption ==
  UserOverride \in [Daemons -> Seq([path : STRING, value : STRING])]

VARIABLES
  fleet,    \* the fleet this is: its files, and the clients' parameter service_name
  env,      \* env[d]: ZENOH_CONFIG_OVERRIDE of the process
  proc,     \* proc[d]: how far the process is
  work,     \* work[d][c]: how far d is with c's call
  frame,    \* frame[d][c]: the frame of that call
  client,   \* client[c]: what the client knows
  told,     \* told[c]: the daemon whose answer it has
  sent,     \* the blobs on their way to the relay
  relay,    \* where the relay's main thread is
  handled,  \* the blob its callback works on
  shown     \* the images on the topics, a bag: how often each was published

jobVars == <<work, frame, sent>>
clientVars == <<client, told>>
relayVars == <<relay, handled>>
bootVars == <<fleet, env, proc>>
vars == <<bootVars, jobVars, clientVars, relayVars, shown>>

Nobody == "nobody"
NoFrame == [type |-> "none", encoding |-> "none"]
Blob(d, c) == [daemon |-> d, client |-> c]
NoBlob == Blob(Nobody, Nobody)
Others == "others"
ASSUME NobodyAssumption == Nobody \notin Daemons \cup Clients /\ Others \notin Daemons

\* What somebody else has put under the relay's prefix, without the metadata.
Stray == Blob(Others, Nobody)

File(d) == Fleets[fleet].files[d]
Configs ==
  [f \in DOMAIN Fleets |-> [d \in Daemons |-> FromFile(Fleets[f].files[d], Host[d])]]
Config(d) == Configs[fleet][d]

Accepted == {"working", "hung", "failed", "delivered", "done"}

TypeOK ==
  /\ fleet \in DOMAIN Fleets
  /\ proc \in [Daemons -> {"off", "booted", "up", "dead"}]
  /\ work \in [Daemons -> [Clients -> Accepted \cup {"idle", "refused"}]]
  /\ client \in [Clients -> {"waiting", "calling", "unavailable", "timedOut", "refused",
                             "told"}]
  /\ told \in [Clients -> Daemons \cup {Nobody}]
  /\ sent \subseteq {Blob(d, c) : d \in Daemons, c \in Clients} \cup {Stray}
  /\ relay \in {"up", "deaf", "closed"}

Init ==
  /\ fleet \in DOMAIN Fleets
  /\ env = UserOverride
  /\ proc = [d \in Daemons |-> "off"]
  /\ work = [d \in Daemons |-> [c \in Clients |-> "idle"]]
  /\ frame = [d \in Daemons |-> [c \in Clients |-> NoFrame]]
  /\ client = [c \in Clients |-> "waiting"]
  /\ told = [c \in Clients |-> Nobody]
  /\ sent = {Stray}
  /\ relay = "up"
  /\ handled = NoBlob
  /\ shown = <<>>

-----------------------------------------------------------------------------
(* A daemon's process.                                                     *)

\* cli.main; an embedder begins with run.
Boot(d) ==
  /\ proc[d] = "off"
  /\ env' = [env EXCEPT ![d] = ForceNativeClientMode(@)]
  /\ proc' = [proc EXCEPT ![d] = "booted"]
  /\ UNCHANGED <<fleet, jobVars, clientVars, relayVars, shown>>

\* build_backend knows three backends, one of which needs a command
\* (capture_backends.py:185).
HasBackend(d) ==
  \/ Config(d).backend \in {"mock", "gphoto2"}
  \/ Config(d).backend = "command" /\ Config(d).command # <<>>

\* PiDslrRuntime and its run, up to the service.
Run(d) ==
  /\ proc[d] \in {"off", "booted"}
  /\ IF HasBackend(d)
       THEN /\ env' = [env EXCEPT ![d] = ForceNativeClientMode(@)]
            /\ proc' = [proc EXCEPT ![d] = "up"]
       ELSE proc' = [proc EXCEPT ![d] = "dead"] /\ UNCHANGED env
  /\ UNCHANGED <<fleet, jobVars, clientVars, relayVars, shown>>

\* Mutant of Crash: its calls come to be in a phase of their own.
CrashForgets(d) ==
  /\ proc[d] = "up"
  /\ proc' = [proc EXCEPT ![d] = "dead"]
  /\ work' = [work EXCEPT ![d] = [c \in Clients |-> "lost"]]
  /\ UNCHANGED <<fleet, env, frame, sent, clientVars, relayVars, shown>>

Crash(d) ==
  /\ proc[d] = "up"
  /\ proc' = [proc EXCEPT ![d] = "dead"]
  /\ UNCHANGED <<fleet, env, jobVars, clientVars, relayVars, shown>>

-----------------------------------------------------------------------------
(* A client: CaptureClient.call.                                           *)

Serves(d, c) == proc[d] = "up" /\ Config(d).service = Fleets[fleet].asks[c]

Learn(c, from, to, d) ==
  /\ client[c] = from
  /\ client' = [client EXCEPT ![c] = to]
  /\ told' = [told EXCEPT ![c] = d]
  /\ UNCHANGED <<bootVars, jobVars, relayVars, shown>>

\* wait_for_service, then call_async.
Call(c) == (\E d \in Daemons : Serves(d, c)) /\ Learn(c, "waiting", "calling", Nobody)

\* Mutant of WaitTimesOut: the call is made all the same.
WaitTimesOutLate(c) == Learn(c, "calling", "unavailable", Nobody)

WaitTimesOut(c) == Learn(c, "waiting", "unavailable", Nobody)

CallTimesOut(c) == Learn(c, "calling", "timedOut", Nobody)

\* The first answer settles the future, whatever has come of the job since.
TakeAnswer(c) ==
  \E d \in Daemons :
    \/ work[d][c] = "refused" /\ Learn(c, "calling", "refused", d)
    \/ work[d][c] \in Accepted /\ Learn(c, "calling", "told", d)

-----------------------------------------------------------------------------
(* The capture service of a daemon, and its job.                           *)

Turn(d, c, from, to) ==
  /\ proc[d] = "up"
  /\ work[d][c] = from
  /\ work' = [work EXCEPT ![d][c] = to]
  /\ UNCHANGED <<bootVars, clientVars, relayVars>>

\* A call that was made reaches the daemons that serve it, sooner or later.
Reached(d, c) == Serves(d, c) /\ client[c] \notin {"waiting", "unavailable"}
Busy(d) == \E c \in Clients : work[d][c] \in {"working", "hung", "delivered"}

Accept(d, c) ==
  /\ Reached(d, c) /\ ~Busy(d)
  /\ Turn(d, c, "idle", "working")
  /\ UNCHANGED <<frame, sent, shown>>

Refuse(d, c) ==
  /\ Reached(d, c) /\ Busy(d)
  /\ Turn(d, c, "idle", "refused")
  /\ UNCHANGED <<frame, sent, shown>>

\* The capture raises, or the put does; the camera does not come back.
Fail(d, c) == Turn(d, c, "working", "failed") /\ UNCHANGED <<frame, sent, shown>>
Hang(d, c) == Turn(d, c, "working", "hung") /\ UNCHANGED <<frame, sent, shown>>

Displayable == {"jpg", "png", "webp"}
Kind(suffix) == IF Lower[suffix] = "jpeg" THEN "jpg" ELSE Lower[suffix]

Preferred ==
  [jpg |-> 0, jpeg |-> 0, png |-> 1, webp |-> 2, cr3 |-> 10, cr2 |-> 10, raw |-> 10]
Encodings ==
  [jpg |-> "image/jpeg", jpeg |-> "image/jpeg", png |-> "image/png", webp |-> "image/webp"]

\* Mutant of Rank: suffixes in capital letters are not known.
RankExact(suffix) == IF suffix \in DOMAIN Preferred THEN Preferred[suffix] ELSE 20

\* _sort_key_for_download: the files that can be shown before those that cannot.
Rank(suffix) ==
  IF Lower[suffix] \in DOMAIN Preferred THEN Preferred[Lower[suffix]] ELSE 20

EncodingForSuffix(suffix, fallback) ==
  IF Lower[suffix] \in DOMAIN Encodings THEN Encodings[Lower[suffix]] ELSE fallback

\* The first of the downloaded files; the mock draws a PNG, a command anything.
Downloaded ==
  UNION {{s \in files : \A u \in files : Rank(s) <= Rank(u)} : files \in Downloads}
Shot(d) ==
  LET cfg == Config(d)
      drawn == IF cfg.backend = "mock" THEN {"png"} ELSE {"jpg", "other"}
  IN  IF cfg.backend = "gphoto2"
        THEN {[type |-> Kind(s), encoding |-> EncodingForSuffix(s, cfg.encoding)] :
                s \in Downloaded}
        ELSE {[type |-> t, encoding |-> cfg.encoding] : t \in drawn}

\* The frame is on the session, with its id and its key in the attachment.
Deliver(d, c) ==
  /\ Turn(d, c, "working", "delivered")
  /\ \E f \in Shot(d) : frame' = [frame EXCEPT ![d][c] = f]
  /\ sent' = sent \cup {Blob(d, c)}
  /\ UNCHANGED shown

Image(topic, blob, form) == [topic |-> topic, blob |-> blob, form |-> form]

\* What has been published when this image has been, too.
With(image) ==
  [i \in DOMAIN shown \cup {image} |->
     (IF i \in DOMAIN shown THEN shown[i] ELSE 0) + (IF i = image THEN 1 ELSE 0)]

\* The native image, unless it is not wanted, cannot be decoded or cannot be sent.
Finish(d, c) ==
  /\ Turn(d, c, "delivered", "done")
  /\ \/ UNCHANGED shown
     \/ /\ Config(d).native /\ frame[d][c].type \in Displayable
        /\ shown' = With(Image(Config(d).image, Blob(d, c), "native"))
  /\ UNCHANGED <<frame, sent>>

Job(d, c) == Fail(d, c) \/ Hang(d, c) \/ Deliver(d, c) \/ Finish(d, c)

-----------------------------------------------------------------------------
(* The relay.                                                              *)

\* Under which key a blob was put: the subscriber matches the relay's prefix.
Prefix(b) == IF b = Stray THEN Relay.frames ELSE Config(b.daemon).frames
Arrives(b) == b \in sent /\ relay = "up" /\ handled = NoBlob /\ Prefix(b) = Relay.frames

\* Mutant of OnFrame: a frame that comes while the relay is still busy is lost.
OnFrameForgets(b) ==
  /\ b \in sent /\ relay = "up" /\ Prefix(b) = Relay.frames
  /\ sent' = sent \ {b}
  /\ IF b = Stray \/ handled # NoBlob THEN UNCHANGED <<handled, shown>>
     ELSE /\ handled' = b
          /\ shown' = With(Image(Relay.compressed, b, "compressed"))
  /\ UNCHANGED <<bootVars, work, frame, clientVars, relay>>

\* Mutant of OnFrame: a second subscription to the prefix has the frame come again.
OnFrameTwice(b) ==
  /\ Arrives(b)
  /\ UNCHANGED sent
  /\ IF b = Stray THEN UNCHANGED <<handled, shown>>
     ELSE /\ handled' = b
          /\ shown' = With(Image(Relay.compressed, b, "compressed"))
  /\ UNCHANGED <<bootVars, work, frame, clientVars, relay>>

\* _on_frame, up to the compressed image: a frame without an id is dropped.
OnFrame(b) ==
  /\ Arrives(b)
  /\ sent' = sent \ {b}
  /\ IF b = Stray THEN UNCHANGED <<handled, shown>>
     ELSE /\ handled' = b
          /\ shown' = With(Image(Relay.compressed, b, "compressed"))
  /\ UNCHANGED <<bootVars, work, frame, clientVars, relay>>

\* The rest of _publish_frame; the publisher of a destroyed node raises.
PublishRaw ==
  /\ handled # NoBlob
  /\ handled' = NoBlob
  /\ shown' = IF relay # "closed" /\ frame[handled.daemon][handled.client].type \in Displayable
                THEN With(Image(Relay.image, handled, "raw")) ELSE shown
  /\ UNCHANGED <<bootVars, jobVars, clientVars, relay>>

\* destroy_node: the subscriber goes first, then the session and the publishers.
Destroy ==
  /\ relay # "closed"
  /\ relay' = IF relay = "up" THEN "deaf" ELSE "closed"
  /\ UNCHANGED <<bootVars, jobVars, clientVars, handled, shown>>

-----------------------------------------------------------------------------

ClientStep(c) == Call(c) \/ WaitTimesOut(c) \/ CallTimesOut(c) \/ TakeAnswer(c)
Blobs == {Blob(d, c) : d \in Daemons, c \in Clients} \cup {Stray}
RelayStep == PublishRaw \/ \E b \in Blobs : OnFrame(b)

Next ==
  \/ \E d \in Daemons : Boot(d) \/ Run(d) \/ Crash(d)
  \/ \E c \in Clients : ClientStep(c)
  \/ \E d \in Daemons, c \in Clients : Accept(d, c) \/ Refuse(d, c) \/ Job(d, c)
  \/ RelayStep \/ Destroy

\* The session runs the relay's callback. Nothing is assumed of clients and daemons:
\* what is said of calls and frames that get lost on their way is said by SafeSpec.
SafeSpec == Init /\ [][Next]_vars
Spec == SafeSpec /\ WF_vars(RelayStep)

-----------------------------------------------------------------------------
(* Properties.                                                             *)

\* The two keep to their own services: no name but a default, and other cameras.
ByDefault(d, keys) == DOMAIN File(d) \cap keys = {}
NameKeys == {"capture_service_name", "frame_key_prefix", "ros2_publish.topic"}
Apart(d, e) ==
  /\ Config(d).camera_id # Config(e).camera_id
  /\ ByDefault(d, NameKeys) /\ ByDefault(e, NameKeys)

\* What a client may conclude (capture_client.py:22-49). Refused or unavailable:
\* no frame of this call, now or later, from a daemon that shares no names with
\* another. Accepted: the daemon that answered works on this call, and
\* it has a frame to show for it unless it has failed, hung or died. A call that
\* timed out may have been served all the same.
VerdictSound ==
  \A c \in Clients :
    /\ client[c] = "unavailable" => \A d \in Daemons : work[d][c] = "idle"
    /\ client[c] = "told" => work[told[c]][c] \in Accepted
    /\ client[c] = "refused" =>
         /\ work[told[c]][c] = "refused"
         /\ \A d \in Daemons \ {told[c]} : Apart(d, told[c]) => work[d][c] = "idle"

\* Topics of the relay's own.  Without them a frame is on one topic in two forms:
\* config/canon_eos_6d.params.yaml gives the relay the topic that the daemon takes by
\* default.
OwnTopics ==
  /\ Relay.image # Relay.compressed
  /\ \A d \in Daemons : Config(d).image \notin {Relay.image, Relay.compressed}

\* Only frames of captures are shown, and no frame is published twice on a topic in one
\* of its forms (native, compressed, raw), though it leaves the daemon twice and the
\* relay takes it up and works on it in steps (runtime.py:157-171;
\* gateway_node.py:69-130).  A topic of its own shows one camera, among daemons that keep
\* to their defaults.
OneImageEach ==
  \A i \in DOMAIN shown :
    /\ i.blob \notin {Stray, NoBlob}
    /\ shown[i] = 1
    /\ \A j \in DOMAIN shown : i.topic = j.topic /\ OwnTopics =>
         ~Apart(i.blob.daemon, j.blob.daemon)

\* What a gphoto2 frame says it is, it is, if the camera gave any file that can
\* be shown; RAW beside JPEG does not hide it (capture_backends.py:261-266, 289-310).
LabelTruthful ==
  \A d \in Daemons, c \in Clients :
    Config(d).backend = "gphoto2" /\ frame[d][c] # NoFrame
      /\ (\A files \in Downloads : \E s \in files : Kind(s) \in Displayable)
    => <<frame[d][c].type, frame[d][c].encoding>> \in
         {<<"jpg", "image/jpeg">>, <<"png", "image/png">>, <<"webp", "image/webp">>}

\* A running daemon's native sessions are client sessions without scouting, by
\* whichever way it was started and however often the variable was rewritten; what
\* else the user has set there stays in force, and none of its own paths is set twice
\* (zenoh_native_session.py:51-79; runtime.py:55-57).
SessionForced ==
  \A d \in Daemons : proc[d] = "up" =>
    LET session == SessionConfig(env[d])
        user == SessionConfig(Present(UserOverride[d]))
    IN  /\ DOMAIN session = DOMAIN user \cup OwnedPaths
        /\ session["mode"] = "client"
        /\ session["scouting/gossip/enabled"] = "false"
        /\ session["scouting/multicast/enabled"] = "false"
        /\ \A p \in DOMAIN user \ OwnedPaths : session[p] = user[p]
        /\ \A s \in ToSet(env[d]) : s.path \in OwnedPaths =>
             Cardinality({i \in DOMAIN env[d] : env[d][i].path = s.path}) = 1

\* What ROS 2 takes for a segment of a name: letters, digits and underscores, no digit
\* first and no underscores side by side.
Clean(text) == text # <<>> /\ ToSet(text) \subseteq Words \cup {"_"}
Doubled(text) == \E i \in DOMAIN text : i > 1 /\ text[i - 1] = "_" /\ text[i] = "_"
Legal(text) == Clean(text) /\ text[1] \notin Numbers /\ ~Doubled(text)

\* A text whose first word does not begin with a digit; one in which each underscore
\* stands between words.
LettersFirst(text) ==
  \A i \in DOMAIN text : text[i] \in Numbers => \E j \in 1 .. i - 1 : text[j] \in Words \ Numbers
UnderscoresApart(text) ==
  \A i \in DOMAIN text : i > 1 /\ "_" \in {text[i - 1], text[i]} =>
    {text[i - 1], text[i]} \cap Words # {}

\* What becomes a segment of the temperature's topic.
Labels(d) ==
  <<Given(File(d), "core_temp_publish.application", <<"pgwaam">>), Config(d).device_id>>

\* How far slugify_camera_name and ros2_safe_name (models.py:11-25) make segments that
\* ROS 2 takes.  Whatever the model, the host and the application, nothing is left but
\* letters, digits and underscores, and at least one of them; the id that a model
\* becomes never has two underscores side by side.  A digit that comes first stays
\* (a model "6D"), and so do, in the temperature's topic, underscores that meet
\* another separator ("id2_-rpi4" becomes "id2__rpi4"); but for these the segment
\* is legal.  A camera_id of the file is taken as it is, and may spoil the names.
NamesLegal ==
  \A d \in Daemons :
    /\ "camera_id" \notin DOMAIN File(d) =>
         /\ Clean(Config(d).camera_id) /\ ~Doubled(Config(d).camera_id)
         /\ LettersFirst(CameraModel(File(d))) => Legal(Config(d).camera_id)
    /\ "core_temp_publish.topic" \notin DOMAIN File(d) =>
         \A k \in {1, 2} :
           /\ Clean(Config(d).coreTemp[k])
           /\ LettersFirst(Labels(d)[k]) /\ UnderscoresApart(Labels(d)[k]) =>
                Legal(Config(d).coreTemp[k])

IdentityKeys == {"heartbeat.zenoh_key", "heartbeat.liveliness_key", "heartbeat.mqtt.topic",
                 "heartbeat.mqtt.client_id", "pgwaam.topic", "pgwaam.client_id"}

\* The host's name says which device it is.
NamedByHost(d) == ByDefault(d, {"device_id"}) /\ ShortName(Host[d]) # <<>>

\* Who is taken for whom, where the file gives no such names.  The heartbeat, its
\* liveliness token and its client id of the broker are the camera's: two daemons share
\* them, and throw each other out, just if they have the same camera_id
\* (models.py:285-297).  The pgwaam pulse and its client id are the device's, by default
\* the host's short name: two daemons on one host share them even with two cameras, and
\* on two hosts they do not even with the same camera (models.py:28-41, 310-316).
\* Services, frames and images are apart if the camera_ids differ (models.py:196-201).
FleetToldApart ==
  \A d, e \in Daemons :
    LET D == Config(d)
        E == Config(e)
    IN  /\ ByDefault(d, IdentityKeys) /\ ByDefault(e, IdentityKeys) =>
             /\ D.heartbeat = E.heartbeat <=> D.camera_id = E.camera_id
             /\ D.alive = E.alive <=> D.camera_id = E.camera_id
             /\ D.heartbeatMqtt = E.heartbeatMqtt <=> D.camera_id = E.camera_id
             /\ D.heartbeatId = E.heartbeatId <=> D.camera_id = E.camera_id
             /\ D.online = E.online <=> D.device_id = E.device_id
             /\ D.onlineId = E.onlineId <=> D.device_id = E.device_id
        /\ NamedByHost(d) /\ NamedByHost(e) =>
             (D.device_id = E.device_id <=> ShortName(Host[d]) = ShortName(Host[e]))
        /\ Apart(d, e) =>
             {D.service, D.frames, D.image} \cap {E.service, E.frames, E.image} = {}

\* A frame that was put under the relay's prefix is republished, and as a raw image too
\* if it can be shown, unless the relay is being taken down.
FramesRelayed ==
  \A d \in Daemons, c \in Clients :
    work[d][c] = "delivered" /\ Config(d).frames = Relay.frames
    ~> \/ relay # "up"
       \/ /\ Image(Relay.compressed, Blob(d, c), "compressed") \in DOMAIN shown
          /\ frame[d][c].type \in Displayable =>
               Image(Relay.image, Blob(d, c), "raw") \in DOMAIN shown
=============================================================================
