------------------------------ MODULE BoxParts -------------------------------
(***************************************************************************)
(* The rest of the kit, small parts that share no state: the USB camera's  *)
(* settings and its streamer, the pages everybody patches, the gateway's   *)
(* paths, the gate before the daemons' APIs, the sums of the Output tab    *)
(* and the KVM agent.  A behaviour is one of a single part: the others     *)
(* stay as they begin.                                                     *)
(***************************************************************************)
EXTENDS Camera, Pages, GatewayPaths, Gate, Formats, Kvm

VARIABLE part

-----------------------------------------------------------------------------
(* Small inputs.                                                            *)

(* Settings that differ in what Validate and the choice of a path ask about. *)
MConfigs ==
    [enabled : {TRUE}, out : SUBSET {"ndi", "srt", "hdmi"}, size : {<<1920, 1080>>, <<3840, 2160>>},
     format : {"auto"}, ndi : {"", "h264"}, mode : {"direct", "decoder"}, url : {TRUE}]
    \cup [enabled : BOOLEAN, out : {{"ndi"}, {"srt"}}, size : {<<1280, 720>>}, format : {"mjpeg"},
          ndi : {"nv12"}, mode : {""}, url : BOOLEAN]
    \cup [enabled : {TRUE}, out : {{"srt"}}, size : {<<1280, 0>>, <<641, 480>>}, format : {"auto"},
          ndi : {""}, mode : {""}, url : {TRUE}]
MCameras == {{"YUYV"}, {"NV12", "MJPG"}, {"MJPG"}}

(* A run of the pipeline for every set of things it takes from the box.     *)
Run(out, ndi, display) ==
    [enabled |-> TRUE, out |-> out, size |-> <<1920, 1080>>, format |-> "auto", ndi |-> ndi,
     mode |-> display, url |-> TRUE]
MRuns == {Run({"ndi", "hdmi"}, "h264", "decoder"), Run({"hdmi"}, "", "direct"),
          Run({"ndi", "srt", "hdmi"}, "nv12", ""), Run({"ndi", "srt"}, "h264", "")}

MSizes == {<<322, 768>>, <<504, 200>>, <<1366, 768>>, <<1920, 1080>>, <<4096, 2160>>,
           <<318, 200>>, <<1366, 769>>}
MTimings == {[clock |-> c, w |-> 1920, hs |-> 2008, he |-> 2052, ht |-> t,
              h |-> 1080, vs |-> 1084, ve |-> 1089, vt |-> 1125] :
                c \in {148500, 148000}, t \in {2200, 2050}}
Rects == {[x |-> x, y |-> 250, w |-> w, h |-> h] : x \in {0, 333}, w \in {100, 667}, h \in {5, 750}}
             \cup {[x |-> 0, y |-> 0, w |-> 1000, h |-> 1000]}
MAreas == [src : Rects, dst : Rects, keeps : BOOLEAN]
MPictures == {<<1920, 1080>>, <<1366, 768>>, <<40, 40>>}
MScreens == {<<1920, 1080>>, <<3840, 1081>>}

-----------------------------------------------------------------------------
Parts == {"settings", "camera", "pages", "paths", "gate", "formats", "kvm"}

(* What the part's start leaves open is open in that part alone.            *)
BoxInit ==
    /\ part \in Parts
    /\ CamInit /\ (part = "settings" \/ camera = {})
    /\ CameraInit /\ (part = "camera" \/ setup = Run({"hdmi"}, "", "direct"))
    /\ PagesInit /\ PathsInit
    /\ GateInit /\ (part = "gate" \/ (daemon = [name |-> "omt", allows |-> FALSE] /\ password))
    /\ FormatsInit
    /\ KvmInit /\ (part = "kvm" \/ (plugged = {} /\ onScreen = Off))

Keeps(p) ==
    /\ part = p /\ UNCHANGED part
    /\ p # "settings" => UNCHANGED camVars
    /\ p # "camera" => UNCHANGED cameraVars
    /\ p # "pages" => UNCHANGED pageVars
    /\ p # "paths" => UNCHANGED pathVars
    /\ p # "gate" => UNCHANGED gateVars
    /\ p # "formats" => UNCHANGED formatAnswer
    /\ p # "kvm" => UNCHANGED kvmVars

BoxNext ==
    \/ Keeps("settings") /\ CamNext
    \/ Keeps("camera") /\ CameraNext
    \/ Keeps("pages") /\ PagesNext
    \/ Keeps("paths") /\ PathsNext
    \/ Keeps("gate") /\ GateNext
    \/ Keeps("formats") /\ FormatsNext
    \/ Keeps("kvm") /\ KvmNext

boxVars == <<part, camVars, cameraVars, pageVars, pathVars, gateVars, formatAnswer, kvmVars>>

(* What the camera and the agent call fair, while it is their turn.         *)
BoxFair ==
    /\ WF_boxVars(Keeps("camera") /\ RunSteps)
    /\ WF_boxVars(Keeps("camera") /\ PumpFrames)
    /\ WF_boxVars(Keeps("camera") /\ Deliver)
    /\ WF_boxVars(Keeps("kvm") /\ StartAgent)
    /\ WF_boxVars(Keeps("kvm") /\ Look)
    /\ WF_boxVars(Keeps("kvm") /\ (Create \/ CreateFails))
    /\ WF_boxVars(Keeps("kvm") /\ PumpReceiver)
    /\ SF_boxVars(Keeps("kvm") /\ Create)

BoxSpec == BoxInit /\ [][BoxNext]_boxVars /\ BoxFair

(* The gateway's paths by themselves, from the start.                       *)
PathsSpec == BoxInit /\ part = "paths" /\ [][Keeps("paths") /\ PathsNext]_boxVars

-----------------------------------------------------------------------------
(* What the owner saves is what is sent: no streamer runs on settings that
   were replaced or comes back after it was switched off, and what was
   accepted goes out on every output that was asked for.                    *)
SavedIsSent == FollowsConf /\ AcceptedIsSent

(* What a run of the camera takes goes back on every way out, the display
   to PPApp and the decoder to what its owner chose, and a run that is over
   or told to stop takes one.                                               *)
TakenGoesBack ==
    [](DisplayHandedBack /\ SelectionComesBack) /\ NotWhileScannedOut /\ LeavesWhenOver

(* What is typed goes to the source that was on the screen when the agent
   last looked, and while some device and one source stay it ends up on it. *)
TypedGoesToScreen == part = "kvm" => []TypesWhereItLooked /\ FollowsScreen

(* A format or a plane that the API gives is one the hardware takes.        *)
FormatsAreTaken == FittedIsAccepted /\ PlaneIsInside
=============================================================================
