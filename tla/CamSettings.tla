----------------------------- MODULE CamSettings -----------------------------
(***************************************************************************)
(* The settings of the USB camera converter, from the web's POST to what   *)
(* the streamer sends (converter/config.go, serve.go, main.go and the      *)
(* choice of formats and branches in run_pipeline.go and pipeline.go): two *)
(* requests side by side, a unit that restarts the streamer, and a camera  *)
(* that is exchanged.                                                      *)
(***************************************************************************)
EXTENDS Integers, FiniteSets

CONSTANTS
    CamConfigs,   (* what may be posted: records of enabled, out, size (width
                     and height), format, ndi, mode, url (is one given)     *)
    Cameras,      (* what may be plugged in: sets of pixel formats          *)
    Posters,      (* requests at a time                                     *)
    SystemctlFails

ASSUME CamAssumption ==
    /\ Cameras \subseteq SUBSET {"NV12", "MJPG", "YUYV", "UYVY", "H264"}
    /\ SystemctlFails \in BOOLEAN
    /\ \A c \in CamConfigs : c.size \in Int \X Int

VARIABLES
    settings,  (* config.json                                               *)
    camera,    (* the formats of the camera, or {} without one              *)
    streamer,  (* what the unit's process came to: a plan, or why there is
                  none                                                      *)
    unitOn,    (* systemd keeps the unit up                                 *)
    post       (* every request: where it is and what it posted             *)

camVars == <<settings, camera, streamer, unitOn, post>>

-----------------------------------------------------------------------------
(* What is accepted (Validate).                                             *)

ParsesFormat(f) == f \in {"auto", "uyvy", "yuyv", "nv12", "mjpeg"}

EncoderFits(size) == size[1] <= 1920 /\ size[2] <= 1088

(* Mutant of ValidSettings: the decoder's route does not ask for NDI|HX.            *)
ValidSettingsLoose(c) ==
    /\ c.out # {} /\ c.out \subseteq {"ndi", "srt", "hdmi"}
    /\ c.size[1] % 2 = 0 /\ c.size[2] % 2 = 0
    /\ c.out \cap {"srt", "hdmi"} # {} => EncoderFits(c.size)
    /\ "srt" \in c.out => c.url
    /\ ParsesFormat(c.format)

ValidSettings(c) ==
    /\ c.out # {} /\ c.out \subseteq {"ndi", "srt", "hdmi"}
    /\ c.size[1] > 0 /\ c.size[2] > 0
    /\ c.size[1] % 2 = 0 /\ c.size[2] % 2 = 0
    /\ c.out \cap {"srt", "hdmi"} # {} => EncoderFits(c.size)
    /\ "srt" \in c.out => c.url
    /\ ParsesFormat(c.format)
    /\ c.ndi \in {"", "uyvy", "nv12", "h264"}
    /\ c.mode \in {"", "direct", "decoder"}
    /\ "hdmi" \in c.out /\ c.mode = "decoder" => "ndi" \in c.out /\ c.ndi = "h264"

-----------------------------------------------------------------------------
(* What the streamer makes of it (main, run, runPipeline).                  *)

HdmiMode(c)      == IF c.mode = "" THEN "direct" ELSE c.mode
NdiFormat(c) == IF c.ndi = "" THEN "uyvy" ELSE c.ndi

(* The first of a list of formats that the camera has.                      *)
Preferred(wanted, has) ==
    LET i == {n \in DOMAIN wanted : wanted[n] \in has} IN
    IF i = {} THEN "none" ELSE wanted[CHOOSE n \in i : \A k \in i : n <= k]

Asked(f) == CASE f = "uyvy" -> "UYVY" [] f = "yuyv" -> "YUYV"
              [] f = "nv12" -> "NV12" [] f = "mjpeg" -> "MJPG" [] OTHER -> "none"

PipelineFormat(c, cam) ==
    IF c.format = "auto" THEN Preferred(<<"NV12", "MJPG", "YUYV", "UYVY">>, cam) ELSE Asked(c.format)

CaptureFormat(cam) == Preferred(<<"UYVY", "YUYV", "NV12", "MJPG">>, cam)

(* The camera's own path is for NDI alone, unless it has nothing but MJPEG. *)
SourceIsMjpeg(c, cam) ==
    IF c.format # "auto" THEN c.format = "mjpeg"
    ELSE cam # {} /\ cam \cap {"UYVY", "YUYV", "NV12"} = {}

ByPipeline(c, cam) == c.out \cap {"srt", "hdmi"} # {} \/ SourceIsMjpeg(c, cam)

Hx(c)         == "ndi" \in c.out /\ NdiFormat(c) = "h264"
DirectHdmi(c) == "hdmi" \in c.out /\ HdmiMode(c) # "decoder"
WantRaw(c)    == ("ndi" \in c.out /\ ~Hx(c)) \/ DirectHdmi(c)
WantEncode(c) == "srt" \in c.out \/ Hx(c)

(* An encoder pads what is not a multiple of 16 rows, so that is cut off.   *)
CropBottom(c) == IF WantEncode(c) THEN c.size[2] % 16 ELSE 0

Why(reason) == [why |-> reason]

(* A plan: what goes out, how NDI goes out, whether the decoder is pointed
   at it, and the height of the frames.                                     *)
Sends(raw, encoded, pointed, height) ==
    [why |-> "sends", raw |-> raw, encoded |-> encoded, pointed |-> pointed, height |-> height]

(* What the camera does not have fails GStreamer's negotiation.             *)
Pipeline(c, cam) ==
    IF cam = {} THEN Why("no camera")
    ELSE IF PipelineFormat(c, cam) \notin cam \/ ~EncoderFits(c.size) THEN Why("fatal")
    ELSE Sends((IF WantRaw(c) /\ ~Hx(c) THEN c.out \cap {"ndi"} ELSE {})
                   \cup IF DirectHdmi(c) THEN {"hdmi"} ELSE {},
               (c.out \cap {"srt"}) \cup IF Hx(c) THEN {"ndi"} ELSE {},
               "hdmi" \in c.out /\ HdmiMode(c) = "decoder",
               c.size[2] - CropBottom(c))

(* A driver that is asked for what it has not takes the nearest it has.     *)
Capture(c, cam) ==
    IF cam = {} THEN Why("no camera")
    ELSE IF CaptureFormat(cam) = "none" THEN Why("fatal")
    ELSE Sends({"ndi"}, {}, FALSE, c.size[2])

Started(c, cam) ==
    CASE ~c.enabled -> Why("disabled")
      [] c.enabled /\ ~ValidSettings(c) -> Why("fatal")
      [] c.enabled /\ ValidSettings(c) /\ ByPipeline(c, cam) -> Pipeline(c, cam)
      [] c.enabled /\ ValidSettings(c) /\ ~ByPipeline(c, cam) -> Capture(c, cam)

-----------------------------------------------------------------------------
FirstRun == [enabled |-> FALSE, out |-> {"ndi"}, size |-> <<1280, 720>>, format |-> "auto",
             ndi |-> "", mode |-> "direct", url |-> FALSE]

NoPost == [at |-> "idle", settings |-> FirstRun]

CamInit ==
    /\ settings = FirstRun /\ camera \in Cameras \cup {{}}
    /\ streamer = Why("disabled") /\ unitOn = TRUE
    /\ post = [p \in Posters |-> NoPost]

PostTo(p, at) == post' = [post EXCEPT ![p].at = at]

(* An invalid one is refused; after an answer that the settings were not
   saved, or saved and not applied, the owner may post again.               *)
PostSettings(p, c) ==
    /\ post[p].at \in {"idle", "failed"} /\ ValidSettings(c)
    /\ post' = [post EXCEPT ![p] = [at |-> "valid", settings |-> c]]
    /\ UNCHANGED <<settings, camera, streamer, unitOn>>

Save(p) ==
    /\ post[p].at = "valid"
    /\ \/ settings' = post[p].settings /\ PostTo(p, "saved")
       \/ UNCHANGED settings /\ PostTo(p, "failed")
    /\ UNCHANGED <<camera, streamer, unitOn>>

(* Mutant of Verb: the unit is started, which leaves one that runs alone.   *)
VerbStart(c) == IF c.enabled THEN "start" ELSE "stop"
(* The unit is restarted, or stopped if the converter is switched off.      *)
Verb(c)      == IF c.enabled THEN "restart" ELSE "stop"

ApplySettings(p) ==
    /\ post[p].at = "saved"
    /\ \/ /\ Verb(post[p].settings) = "restart"
          /\ unitOn' = TRUE /\ streamer' = Started(settings, camera) /\ PostTo(p, "idle")
       \/ /\ Verb(post[p].settings) = "start"
          /\ unitOn' = TRUE /\ PostTo(p, "idle")
          /\ streamer' = IF unitOn THEN streamer ELSE Started(settings, camera)
       \/ /\ Verb(post[p].settings) = "stop"
          /\ unitOn' = FALSE /\ streamer' = Why("stopped") /\ PostTo(p, "idle")
       \/ /\ SystemctlFails /\ PostTo(p, "failed")
          /\ UNCHANGED <<unitOn, streamer>>
    /\ UNCHANGED <<settings, camera>>

(* A streamer that ended is started again after ten seconds, and what it
   finds out then depends on what is saved and plugged in by then.          *)
UnitRestarts ==
    /\ unitOn /\ streamer.why # "sends"
    /\ streamer' = Started(settings, camera)
    /\ UNCHANGED <<settings, camera, unitOn, post>>

Exchange(cam) ==
    /\ cam # camera /\ camera' = cam
    /\ streamer' = IF streamer.why = "sends" THEN Why("fatal") ELSE streamer
    /\ UNCHANGED <<settings, unitOn, post>>

CamNext ==
    \/ \E p \in Posters : \/ (\E c \in CamConfigs : PostSettings(p, c))
                          \/ Save(p) \/ ApplySettings(p)
    \/ UnitRestarts
    \/ \E cam \in Cameras \cup {{}} : Exchange(cam)

-----------------------------------------------------------------------------
(* Frames go out as the last accepted settings say once every request is
   answered as applied: the streamer never runs on settings that were
   replaced, and does not come back after it was switched off, however
   cameras and requests come in between (serve.go: apply restarts the unit so
   that the new settings take effect, or stops it when the converter has been
   switched off).                                                           *)
Applied == \A p \in Posters : post[p].at = "idle"

FollowsConf ==
    Applied => /\ streamer.why = "sends" => settings.enabled /\ streamer = Started(settings, camera)
               /\ settings.enabled => unitOn

(* What Validate accepts the streamer does with any camera that has a format
   for it: every output that was asked for is sent, HX as HX, in whole
   macroblocks where it is encoded.  Left out is NDI alone: an MJPEG camera
   beyond 1920x1088 is accepted and refused, and HX from a camera that is
   captured directly is not HX.                                             *)
Alone(c) == c.out = {"ndi"}

SendsAll(c, plan) ==
    /\ "srt" \in c.out => "srt" \in plan.encoded
    /\ "hdmi" \in c.out => "hdmi" \in plan.raw \/ (plan.pointed /\ "ndi" \in plan.encoded)
    /\ "ndi" \in c.out => "ndi" \in IF Hx(c) THEN plan.encoded ELSE plan.raw
    /\ plan.encoded # {} => plan.height % 16 = 0

AcceptedIsSent ==
    Applied /\ settings.enabled /\ ~Alone(settings) =>
        /\ streamer.why = "sends" => SendsAll(settings, streamer)
        /\ PipelineFormat(settings, camera) \in camera => Started(settings, camera).why = "sends"

(* NDI|HX is sent as HX by itself, too (config.go: h264 sends NDI|HX using
   the hardware encoder instead of compressing on the CPU).                 *)
HxIsSent == Applied /\ streamer.why = "sends" /\ Hx(settings) => "ndi" \in streamer.encoded
=============================================================================
