------------------------------ MODULE Settings -------------------------------
(***************************************************************************)
(* What a daemon makes of its configuration file (models.py) and of the    *)
(* environment variable that overrides the SDK's session configuration     *)
(* (zenoh_native_session.py): pure functions.                              *)
(*                                                                         *)
(* A text is a sequence of tokens: words of letters and digits, and        *)
(* separators, of which "_" is one.  A topic, a key or a service name is   *)
(* the sequence of the texts between its slashes.  A file maps the keys    *)
(* it has, qualified by their sections, to texts, names and flags.         *)
(***************************************************************************)
EXTENDS Integers, SequencesExt, FiniteSets

CONSTANTS
  Words,        \* the tokens made of letters and digits
  Numbers,      \* the words that begin with a digit
  Separators    \* the others

Tokens == Words \cup Separators
ASSUME TokenAssumption ==
  /\ Numbers \subseteq Words
  /\ {"dslr", "device", "pgwaam"} \subseteq Words \ Numbers
  /\ "_" \in Separators \ Words

Texts == Seq(Tokens)

\* What remains of s at the positions S, in its order.
Nth(S, k) == CHOOSE i \in S : Cardinality({j \in S : j <= i}) = k
Kept(s, S) == [k \in 1 .. Cardinality(S) |-> s[Nth(S, k)]]

-----------------------------------------------------------------------------
(* Names.                                                                  *)

\* A run of tokens that are not kept becomes one underscore.
Squeeze(t, keep) ==
  LET runs == Kept(t, {i \in DOMAIN t : t[i] \in keep \/ i = 1 \/ t[i - 1] \in keep})
  IN  [k \in DOMAIN runs |-> IF runs[k] \in keep THEN runs[k] ELSE "_"]

Strip(t) ==
  LET inner == {i \in DOMAIN t : t[i] # "_"}
  IN  IF inner = {} THEN <<>> ELSE SubSeq(t, Min(inner), Max(inner))

OrElse(t, other) == IF t = <<>> THEN other ELSE t

Slug(t) == OrElse(Strip(Squeeze(t, Words)), <<"dslr">>)

\* Mutant of Ros2SafeName: a host's name is legal as it is.
Ros2SafeNameAny(t) == OrElse(t, <<"device">>)

Ros2SafeName(t) == OrElse(Strip(Squeeze(t, Words \cup {"_"})), <<"device">>)

\* The host's name up to its first dot.
ShortName(host) ==
  LET dots == {i \in DOMAIN host : host[i] = "."}
  IN  IF dots = {} THEN host ELSE SubSeq(host, 1, Min(dots) - 1)

DefaultDeviceId(host, camera) == OrElse(ShortName(host), OrElse(camera, <<"device">>))

-----------------------------------------------------------------------------
(* The configuration file.                                                 *)

\* payload.get(k, d), which takes an empty text for what it is.
Given(file, k, d) == IF k \in DOMAIN file THEN file[k] ELSE d
\* payload.get(k) or d, which does not.
GivenOr(file, k, d) == IF k \in DOMAIN file /\ file[k] # <<>> THEN file[k] ELSE d

Dslr(camera, what) == <<<<"dslr">>, camera, <<what>>>>
ClientId(application, id, what) == <<application, "-">> \o id \o <<"-", what>>

\* The shop's router, unless the file names another.
Router(file) == Given(file, "ros2_publish.router_ip", <<"shop">>)

\* Mutant of DeviceId: the device goes by its camera.
DeviceIdOfCamera(file, host, camera) == GivenOr(file, "device_id", camera)

DeviceId(file, host, camera) == GivenOr(file, "device_id", DefaultDeviceId(host, camera))

\* Mutant of ImageTopic: the same for every camera.
ImageTopicShared(file, camera) ==
  GivenOr(file, "ros2_publish.topic", <<<<"dslr">>, <<"image_raw">>>>)

ImageTopic(file, camera) ==
  GivenOr(file, "ros2_publish.topic", Dslr(camera, "image_raw"))

CameraModel(file) == Given(file, "camera_model", Given(file, "camera_id", <<"dslr">>))

\* PiRuntimeSettings.from_file: a camera_id is taken as it is, a model is not.
FromFile(file, host) ==
  LET camera == Given(file, "camera_id", Slug(CameraModel(file)))
      device == DeviceId(file, host, camera)
      application == Given(file, "core_temp_publish.application", <<"pgwaam">>)
  IN  [camera_id     |-> camera,
       device_id     |-> device,
       backend       |-> file["capture_backend.type"],
       command       |-> Given(file, "capture_backend.command", <<>>),
       encoding      |-> Given(file, "capture_backend.encoding", "image/jpeg"),
       service       |-> Given(file, "capture_service_name", Dslr(camera, "capture")),
       frames        |-> Given(file, "frame_key_prefix", Dslr(camera, "frames")),
       heartbeat     |-> GivenOr(file, "heartbeat.zenoh_key", Dslr(camera, "heartbeat")),
       alive         |-> GivenOr(file, "heartbeat.liveliness_key", Dslr(camera, "alive")),
       heartbeatMqtt |-> GivenOr(file, "heartbeat.mqtt.topic", Dslr(camera, "heartbeat")),
       heartbeatId   |-> GivenOr(file, "heartbeat.mqtt.client_id",
                                 ClientId("dslr", camera, "heartbeat")),
       online        |-> GivenOr(file, "pgwaam.topic", <<<<"pgwaam">>, device, <<"online">>>>),
       onlineId      |-> GivenOr(file, "pgwaam.client_id",
                                 ClientId("pgwaam", device, "online")),
       native        |-> Given(file, "ros2_publish.enabled", FALSE),
       image         |-> ImageTopic(file, camera),
       node          |-> GivenOr(file, "exposure.node_name", <<"dslr", "_">> \o camera),
       exposureVia   |-> Given(file, "exposure.router_ip", Router(file)),
       coreTemp      |-> GivenOr(file, "core_temp_publish.topic",
                                 <<Ros2SafeName(application), Ros2SafeName(device),
                                   <<"online">>, <<"core_temp">>>>)]

-----------------------------------------------------------------------------
(* ZENOH_CONFIG_OVERRIDE: segments of a path and a value; the SDK applies  *)
(* them in their order, so that a later one wins.                          *)

Blank == [path |-> "", value |-> ""]
OwnedSegments ==
  <<[path |-> "mode", value |-> "client"],
    [path |-> "scouting/gossip/enabled", value |-> "false"],
    [path |-> "scouting/multicast/enabled", value |-> "false"]>>
OwnedPaths == {OwnedSegments[i].path : i \in DOMAIN OwnedSegments}

\* The segments that say something.
Present(override) == Kept(override, {i \in DOMAIN override : override[i] # Blank})

\* Mutant of ForceNativeClientMode: the user's segments come last and win.
ForceFirst(override) == OwnedSegments \o Present(override)

ForceNativeClientMode(override) ==
  LET users == {i \in DOMAIN override : /\ override[i] # Blank
                                       /\ override[i].path \notin OwnedPaths}
  IN  Kept(override, users) \o OwnedSegments

\* The session configuration that an override leads to.
SessionConfig(override) ==
  [p \in {override[i].path : i \in DOMAIN override} |->
     override[Max({i \in DOMAIN override : override[i].path = p})].value]
=============================================================================
