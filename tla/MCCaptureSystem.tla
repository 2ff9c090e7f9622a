--------------------------- MODULE MCCaptureSystem ---------------------------
(* Two daemons and two clients; a relay of the first camera's frames.        *)
EXTENDS CaptureSystem, TLC

CONSTANTS d1, d2, c1, c2

MCWords == {"dslr", "device", "pgwaam", "Canon", "EOS", "6D", "cam0", "id2", "rpi4", "shop"}
MCNumbers == {"6D"}
MCSeparators == {"_", "-", ".", " ", "(", ")"}

\* "(Canon) EOS-6D", with two separators side by side and one at an end.
Canon == <<"(", "Canon", ")", " ", "EOS", "-", "6D">>
CanonId == <<"Canon", "_", "EOS", "_", "6D">>

MCHost == d1 :> <<"id2", "-", "rpi4", ".", "shop">> @@ d2 :> <<"id2", "_", "rpi4">>

Set(path, value) == [path |-> path, value |-> value]
MCUserOverride ==
  d1 :> <<Set("connect/timeout", "1"), Set("mode", "peer"), Blank, Set("connect/timeout", "2")>>
  @@ d2 :> <<>>

ByModel == "capture_backend.type" :> "gphoto2" @@ "camera_model" :> Canon
           @@ "ros2_publish.enabled" :> TRUE
ById == "capture_backend.type" :> "mock" @@ "camera_id" :> <<"cam0">>
        @@ "device_id" :> <<>> @@ "ros2_publish.enabled" :> TRUE
        @@ "capture_backend.encoding" :> "image/png"
Mock == "capture_backend.type" :> "mock" @@ "camera_model" :> Canon
\* Its images go to the topic of the relay's.
Relayed == Mock @@ "ros2_publish.enabled" :> TRUE
           @@ "ros2_publish.topic" :> Dslr(CanonId, "relayed")
Unnamed == "capture_backend.type" :> "command" @@ "capture_backend.command" :> <<"device">>
\* A model and a device whose names stay illegal, and no command.
Odd == "capture_backend.type" :> "command" @@ "camera_model" :> <<"6D", " ", "EOS">>
       @@ "device_id" :> <<"id2", "_", "-", "rpi4">>
Unknown == "capture_backend.type" :> "usb" @@ "camera_id" :> <<"cam0">>

Service(camera) == Dslr(camera, "capture")
All(service) == [c \in Clients |-> service]

\* Two cameras, both called; one camera called twice, beside an unknown backend; the
\* same file on two hosts; two backends that are commands, one without its command.
MCFleets ==
  [cameras |-> [files |-> d1 :> ByModel @@ d2 :> ById,
                asks  |-> c1 :> Service(CanonId) @@ c2 :> Service(<<"cam0">>)],
   busy    |-> [files |-> d1 :> Mock @@ d2 :> Unknown, asks |-> All(Service(CanonId))],
   twins   |-> [files |-> d1 :> Relayed @@ d2 :> Relayed,
                asks  |-> c1 :> Service(CanonId) @@ c2 :> Service(<<"cam0">>)],
   unnamed |-> [files |-> d1 :> Unnamed @@ d2 :> Odd,
                asks  |-> c1 :> Service(<<"dslr">>) @@ c2 :> Service(<<"cam0">>)]]

MCRelay == [frames     |-> Dslr(CanonId, "frames"),
            image      |-> Dslr(CanonId, "relayed"),
            compressed |-> Dslr(CanonId, "image_compressed")]

MCDownloads == {{"JPG", "cr3"}, {"webp"}}
MCLower == [s \in {"JPG", "cr3", "webp"} |-> IF s = "JPG" THEN "jpg" ELSE s]
=============================================================================
