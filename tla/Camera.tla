-------------------------------- MODULE Camera -------------------------------
(***************************************************************************)
(* The streamer of the USB camera converter (converter/run_pipeline.go,    *)
(* pipeline.go, display.go, decoder.go) under its systemd unit: what a run   *)
(* takes from the box - the display, the decoder's selection - and gives   *)
(* back on every way out.  run is one goroutine with its deferred calls,   *)
(* beside it the pump of raw frames and the goroutine that waits for a     *)
(* signal.                                                                 *)
(***************************************************************************)
EXTENDS CamSettings, Sequences

CONSTANTS
    CamRuns,    (* settings that Validate accepts and that need the pipeline *)
    CamFaults,  (* what may fail: "stop", "mark", "launch", "sink", "dial",
                   "library", "point", "back", "crash", "stall"              *)
    Chooses     (* the owner may choose another source while we run          *)

ASSUME CameraAssumption ==
    /\ \A c \in CamRuns : ValidSettings(c)
    /\ Chooses \in BOOLEAN

VARIABLES
    setup,      (* the settings of this run                                 *)
    main,       (* where run is                                             *)
    defers,     (* its deferred calls, the last one first                   *)
    gst,        (* the capture pipeline: none, runs or dead                 *)
    scanout,    (* the display sink: none, runs, stalled or dead            *)
    pump,       (* the goroutine of raw frames: none, loads, reads, done    *)
    term,       (* SIGTERM: none, sent or caught                            *)
    listens,    (* signal.Notify was called                                 *)
    wanted,     (* systemd is to keep the unit up                           *)
    ppapp,      (* BirdDogRunner is up                                      *)
    marker,     (* /run/bdcam-took-display                                  *)
    shown,   (* what the decoder is pointed at                           *)
    previous,   (* what pointDecoderAt remembers                            *)
    chosen,     (* history: what the owner last chose                       *)
    spoilt      (* history: what was lost, until the owner puts it right    *)

runVars == <<setup, main, defers, gst, scanout, pump, term, listens>>
takes == <<ppapp, marker, shown, previous>>
cameraVars == <<runVars, wanted, takes, chosen, spoilt>>

CameraInit ==
    /\ setup \in CamRuns /\ main = "off" /\ defers = <<>>
    /\ gst = "none" /\ scanout = "none" /\ pump = "none"
    /\ term = "none" /\ listens = FALSE /\ wanted = TRUE
    /\ ppapp = TRUE /\ marker = FALSE
    /\ shown = "owner" /\ previous = "" /\ chosen = "owner" /\ spoilt = {}

Alive == main \notin {"off", "post"}

(* One step of run: on to a point, with one more call deferred or none.     *)
Go(at)        == main' = at /\ UNCHANGED defers
GoDefer(at, d) == main' = at /\ defers' = <<d>> \o defers

Deferred == {defers[i] : i \in DOMAIN defers}

Spoil(what) == spoilt' = spoilt \cup {what}

-----------------------------------------------------------------------------
StartRun ==
    /\ main = "off" /\ wanted
    /\ setup' \in CamRuns /\ Go("take")
    /\ term' = "none" /\ listens' = FALSE
    /\ UNCHANGED <<gst, scanout, pump, wanted, takes, chosen, spoilt>>

(* The display is taken only from a PPApp that has it, and only then is
   there something to put back.                                             *)
Take ==
    /\ main = "take"
    /\ \/ /\ ~DirectHdmi(setup) \/ ~ppapp \/ "stop" \in CamFaults
          /\ Go("launch") /\ UNCHANGED ppapp
       \/ DirectHdmi(setup) /\ ppapp /\ Go("mark") /\ ppapp' = FALSE
    /\ UNCHANGED <<setup, gst, scanout, pump, term, listens, wanted, marker, shown, previous, chosen, spoilt>>

Mark ==
    /\ main = "mark" /\ GoDefer("launch", "display")
    /\ \/ marker' = TRUE
       \/ "mark" \in CamFaults /\ UNCHANGED marker
    /\ UNCHANGED <<setup, gst, scanout, pump, term, listens, wanted, ppapp, shown, previous, chosen, spoilt>>

Launch ==
    /\ main = "launch"
    /\ \/ "launch" \in CamFaults /\ Go("undo") /\ UNCHANGED gst
       \/ GoDefer("listen", "pipe") /\ gst' = "runs"
    /\ UNCHANGED <<setup, scanout, pump, term, listens, wanted, takes, chosen, spoilt>>

Listen ==
    /\ main = "listen" /\ listens' = TRUE
    /\ Go(IF WantRaw(setup) THEN "sink" ELSE "dial")
    /\ UNCHANGED <<setup, gst, scanout, pump, term, wanted, takes, chosen, spoilt>>

(* The display sink, if there is one, and then the pump beside us.          *)
Sink ==
    /\ main = "sink"
    /\ \/ /\ DirectHdmi(setup) /\ "sink" \in CamFaults
          /\ Go("undo") /\ UNCHANGED <<scanout, pump>>
       \/ LET at == IF WantEncode(setup) THEN "dial" ELSE "drain" IN
          /\ pump' = "loads"
          /\ IF DirectHdmi(setup) THEN GoDefer(at, "sink") /\ scanout' = "runs"
                                  ELSE Go(at) /\ UNCHANGED scanout
    /\ UNCHANGED <<setup, gst, term, listens, wanted, takes, chosen, spoilt>>

Dial ==
    /\ main = "dial"
    /\ \/ "srt" \in setup.out /\ "dial" \in CamFaults /\ Go("undo")
       \/ "srt" \in setup.out /\ GoDefer("library", "srt")
       \/ "srt" \notin setup.out /\ Go("library")
    /\ UNCHANGED <<setup, gst, scanout, pump, term, listens, wanted, takes, chosen, spoilt>>

Library ==
    /\ main = "library"
    /\ \/ Hx(setup) /\ "library" \in CamFaults /\ Go("undo")
       \/ Hx(setup) /\ GoDefer("point", "ndi")
       \/ ~Hx(setup) /\ Go("scan")
    /\ UNCHANGED <<setup, gst, scanout, pump, term, listens, wanted, takes, chosen, spoilt>>

(* Mutant of Point: the selection is read when it has been replaced.        *)
PointFirst ==
    /\ main = "point"
    /\ \/ /\ ~("hdmi" \in setup.out /\ HdmiMode(setup) = "decoder") \/ "point" \in CamFaults
          /\ Go("scan") /\ UNCHANGED <<shown, previous>>
       \/ /\ "hdmi" \in setup.out /\ HdmiMode(setup) = "decoder"
          /\ shown' = "camera" /\ previous' = "camera" /\ GoDefer("scan", "point")
    /\ UNCHANGED <<setup, gst, scanout, pump, term, listens, wanted, ppapp, marker, chosen, spoilt>>

(* The selection is read before it is replaced.  A refusal is taken for one
   that changed nothing, though the decoder may have been pointed at us.    *)
Point ==
    /\ main = "point"
    /\ \/ /\ ~("hdmi" \in setup.out /\ HdmiMode(setup) = "decoder") \/ "point" \in CamFaults
          /\ Go("scan") /\ UNCHANGED <<shown, previous, spoilt>>
       \/ /\ "hdmi" \in setup.out /\ HdmiMode(setup) = "decoder"
          /\ shown' = "camera" /\ previous' = shown /\ GoDefer("scan", "point")
          /\ UNCHANGED spoilt
       \/ /\ "hdmi" \in setup.out /\ HdmiMode(setup) = "decoder" /\ "point" \in CamFaults
          /\ shown' = "camera" /\ Spoil("selection") /\ Go("scan") /\ UNCHANGED previous
    /\ UNCHANGED <<setup, gst, scanout, pump, term, listens, wanted, ppapp, marker, chosen>>

(* It ends with the pipeline's output or with the SRT connection.           *)
Scan ==
    /\ main = "scan" /\ (gst # "runs" \/ "srt" \in setup.out) /\ Go("undo")
    /\ UNCHANGED <<setup, gst, scanout, pump, term, listens, wanted, takes, chosen, spoilt>>

(* Without an encoder: the pump is waited for, and then the pipeline.       *)
Drain ==
    /\ \/ main = "drain" /\ pump = "done" /\ Go("reap")
       \/ main = "reap" /\ gst # "runs" /\ Go("undo")
    /\ UNCHANGED <<setup, gst, scanout, pump, term, listens, wanted, takes, chosen, spoilt>>

-----------------------------------------------------------------------------
(* The deferred calls.                                                      *)

RestoreDisplay ==
    /\ marker' = FALSE
    /\ \/ ppapp' = TRUE /\ spoilt' = spoilt \ {"display"}
       \/ "back" \in CamFaults /\ UNCHANGED ppapp /\ Spoil("display")

RestoreDecoder ==
    \/ previous \in {"", "camera"} /\ UNCHANGED <<shown, spoilt>>
    \/ previous \notin {"", "camera"} /\ shown' = previous /\ UNCHANGED spoilt
    \/ previous \notin {"", "camera"} /\ "back" \in CamFaults /\ UNCHANGED shown /\ Spoil("selection")

Undoes(d, rest) ==
    /\ main = "undo" /\ defers # <<>> /\ defers' = rest /\ UNCHANGED main
    /\ IF d = "display" THEN RestoreDisplay /\ UNCHANGED <<shown, previous>>
       ELSE IF d = "point" THEN RestoreDecoder /\ UNCHANGED <<ppapp, marker, previous>>
       ELSE UNCHANGED <<takes, spoilt>>
    /\ gst' = IF d = "pipe" THEN "none" ELSE gst
    /\ scanout' = IF d = "sink" THEN "none" ELSE scanout
    /\ UNCHANGED <<setup, pump, term, listens, wanted, chosen>>

(* Mutant of Undo: the calls run in the order they were deferred in.        *)
UndoFirst == defers # <<>> /\ Undoes(defers[Len(defers)], SubSeq(defers, 1, Len(defers) - 1))
Undo      == defers # <<>> /\ Undoes(Head(defers), Tail(defers))

Dies == main' = "post" /\ defers' = <<>> /\ gst' = "none" /\ scanout' = "none" /\ pump' = "none"

Exit ==
    /\ main = "undo" /\ defers = <<>> /\ Dies
    /\ UNCHANGED <<setup, term, listens, wanted, takes, chosen, spoilt>>

(* The unit's ExecStopPost: the display goes back if it was taken.          *)
StopPost ==
    /\ main = "post" /\ Go("off")
    /\ \/ marker /\ RestoreDisplay
       \/ ~marker /\ UNCHANGED <<ppapp, marker, spoilt>>
    /\ UNCHANGED <<setup, gst, scanout, pump, term, listens, wanted, shown, previous, chosen>>

-----------------------------------------------------------------------------
(* The pump: it loads the library for NDI, and reads until the pipe closes;
   a sink that takes nothing more is let go of, one that stalls holds it up. *)
PumpFrames ==
    /\ \/ pump = "loads" /\ pump' = "reads"
       \/ pump = "loads" /\ "ndi" \in setup.out /\ ~Hx(setup) /\ "library" \in CamFaults /\ pump' = "done"
       \/ pump = "reads" /\ gst # "runs" /\ scanout # "stalled" /\ pump' = "done"
    /\ UNCHANGED <<setup, main, defers, gst, scanout, term, listens, wanted, takes, chosen, spoilt>>

(* The goroutine that waits for the signal kills the pipeline; before it is
   there the signal ends the process, with nothing undone.                  *)
LostOnKill == (IF main = "mark" \/ (~marker /\ "display" \in Deferred) THEN {"display"} ELSE {})
            \cup (IF shown = "camera" THEN {"selection"} ELSE {})

(* Mutant of Caught: it only says so.                                       *)
CaughtLogged == listens /\ term' = "caught" /\ UNCHANGED <<main, defers, gst, scanout, pump, spoilt>>

Caught ==
    /\ listens /\ term' = "caught" /\ gst' = IF gst = "runs" THEN "dead" ELSE gst
    /\ UNCHANGED <<main, defers, scanout, pump, spoilt>>

Deliver ==
    /\ Alive /\ term = "sent"
    /\ \/ Caught
       \/ ~listens /\ Dies /\ term' = "none" /\ spoilt' = spoilt \cup LostOnKill
    /\ UNCHANGED <<setup, listens, wanted, takes, chosen>>

(* A crash, or systemd's SIGKILL for a run that does not end.               *)
Crash ==
    /\ Alive /\ ("crash" \in CamFaults \/ term # "none")
    /\ Dies /\ term' = "none" /\ spoilt' = spoilt \cup LostOnKill
    /\ UNCHANGED <<setup, listens, wanted, takes, chosen>>

-----------------------------------------------------------------------------
(* The world around it.                                                     *)

Systemctl ==
    \/ /\ wanted /\ wanted' = FALSE /\ term' = IF Alive THEN "sent" ELSE term
       /\ UNCHANGED <<setup, main, defers, gst, scanout, pump, listens, takes, chosen, spoilt>>
    \/ /\ ~wanted /\ main = "off" /\ wanted' = TRUE
       /\ UNCHANGED <<runVars, takes, chosen, spoilt>>

ChildDies ==
    /\ \/ gst = "runs" /\ gst' = "dead" /\ UNCHANGED scanout
       \/ scanout = "runs" /\ UNCHANGED gst
          /\ scanout' \in {"dead"} \cup IF "stall" \in CamFaults THEN {"stalled"} ELSE {}
    /\ UNCHANGED <<setup, main, defers, pump, term, listens, wanted, takes, chosen, spoilt>>

(* The owner starts PPApp again, or the box, where it was left dark.        *)
StartPPApp ==
    /\ main = "off" /\ ~ppapp /\ ppapp' = TRUE /\ spoilt' = spoilt \ {"display"}
    /\ UNCHANGED <<runVars, wanted, marker, shown, previous, chosen>>

Choose ==
    /\ Chooses \/ shown # "camera"
    /\ chosen' \in {"owner", "other"} \ {chosen} /\ shown' = chosen' /\ spoilt' = spoilt \ {"selection"}
    /\ UNCHANGED <<runVars, wanted, ppapp, marker, previous>>

CameraNext ==
    \/ StartRun \/ Take \/ Mark \/ Launch \/ Listen \/ Sink \/ Dial \/ Library \/ Point \/ Scan \/ Drain
    \/ Undo \/ Exit \/ StopPost \/ PumpFrames \/ Deliver \/ Crash
    \/ Systemctl \/ ChildDies \/ StartPPApp \/ Choose

RunSteps == StartRun \/ Take \/ Mark \/ Launch \/ Listen \/ Sink \/ Dial \/ Library \/ Point \/ Scan
                \/ Drain \/ Undo \/ Exit \/ StopPost

(* Goroutines are scheduled, a signal arrives; that systemd kills what does
   not end in 90 s is not counted on.                                       *)
CameraFair == WF_cameraVars(RunSteps) /\ WF_cameraVars(PumpFrames) /\ WF_cameraVars(Deliver)

CameraSpec == CameraInit /\ [][CameraNext]_cameraVars /\ CameraFair

-----------------------------------------------------------------------------
(* The display is PPApp's again once the streamer is gone, however it went
   (the deferred restore, or ExecStopPost after a kill).  Excepted is what
   was lost on the way: a start that failed, and a kill before the marker.  *)
DisplayHandedBack == main = "off" => ppapp \/ "display" \in spoilt

(* It does not go back while our own sink still scans out on it.            *)
NotWhileScannedOut == [][~ppapp /\ ppapp' => scanout = "none"]_cameraVars

(* The decoder is pointed at what its owner last chose again once the
   streamer is gone, unless it was killed or the box refused; not even then
   is it pointed at anything the owner never chose but our own camera.      *)
SelectionComesBack ==
    /\ main = "off" => shown = chosen \/ "selection" \in spoilt
    /\ shown \in {chosen, "camera"}

(* A run that is told to stop, or whose pipeline is gone, ends by itself.   *)
LeavesWhenOver == (Alive /\ (term = "sent" \/ gst = "dead")) ~> ~Alive

(* The display comes back even if we are killed outright (run_pipeline.go:
   the restore cannot run if the process is killed outright, so the unit also
   restarts BirdDogRunner in ExecStopPost).                                 *)
KillGivesBack == main = "off" => ppapp
=============================================================================
