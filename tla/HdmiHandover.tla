---------------------------- MODULE HdmiHandover -----------------------------
(***************************************************************************)
(* Who has HDMI.  BirdDogRunner and its PPApp, which is DRM master while   *)
(* it runs, and the modules that stop it to draw and start it again: bdomt *)
(* (omt/display.go), bdplay (player/display.go) and bdcam (takeDisplay in  *)
(* converter/run_pipeline.go), with the markers in /run and the            *)
(* ExecStopPost of their units.  The modules do not talk to each other.    *)
(*                                                                         *)
(* A module's mutex serialises its own handovers, so each module is one    *)
(* actor.  What it draws with dies with it: systemd kills the whole unit.  *)
(***************************************************************************)
CONSTANTS Modules,      (* of "omt", "player" and "cam"                     *)
          MayDie,       (* those that may be killed outright                *)
          MayFail,      (* of "mark", "stop" and "start", what may fail     *)
          Straggles,    (* those whose systemctl stop PPApp may outlive, for
                           10 s or longer                                   *)
          Aborts,       (* PPApp may abort                                  *)
          OwnerStartsToo (* the owner, or the stock page, may start the
                            runner while a module has HDMI                  *)

ASSUME HandoverAssumption ==
    /\ Modules \subseteq {"omt", "player", "cam"} /\ MayDie \subseteq Modules
    /\ MayFail \subseteq {"mark", "stop", "start"} /\ Straggles \subseteq Modules
    /\ Aborts \in BOOLEAN /\ OwnerStartsToo \in BOOLEAN

VARIABLES
    unit,       (* BirdDogRunner: "active", "down", waiting to be restarted
                   by systemd ("activating"), or "failed" by its start limit *)
    ppapp,      (* PPApp runs                                               *)
    meant,      (* the owner stopped BirdDogRunner, and nobody has since    *)
    denied,     (* history: a start of the stopped BirdDogRunner failed, and
                   it has neither run nor been stopped since                *)
    pc,         (* where each module's handover is                          *)
    wasActive,  (* what it will restore                                     *)
    markers,    (* the modules whose marker is in /run                      *)
    alive

box  == <<unit, ppapp, meant, denied>>
vars == <<box, pc, wasActive, markers, alive>>

Places == {"idle", "mark", "stop", "wait", "held", "start", "confirm"}

TypeOK ==
    /\ unit \in {"active", "down", "activating", "failed"}
    /\ ppapp \in BOOLEAN /\ meant \in BOOLEAN /\ denied \in BOOLEAN
    /\ pc \in [Modules -> Places]
    /\ wasActive \in [Modules -> BOOLEAN]
    /\ markers \subseteq Modules /\ alive \subseteq Modules

Init ==
    /\ unit = "active" /\ ppapp = TRUE /\ meant = FALSE /\ denied = FALSE
    /\ pc = [m \in Modules |-> "idle"]
    /\ wasActive = [m \in Modules |-> FALSE]
    /\ markers = {} /\ alive = Modules

-----------------------------------------------------------------------------
At(m, place)   == m \in alive /\ pc[m] = place
GoTo(m, place) == pc' = [pc EXCEPT ![m] = place]

(* Mutant of AfterCheck: nobody marks before it stops.                      *)
NoMark(m) ==
    IF unit = "active" THEN "stop" ELSE (IF m = "cam" THEN "held" ELSE "wait")

(* serviceActive, and then: bdomt marks before it stops, the others stop    *)
(* first.  With BirdDogRunner not active nothing is stopped; bdomt and      *)
(* bdplay still wait for PPApp, bdcam just takes the display.               *)
AfterCheck(m) ==
    IF unit = "active" THEN (IF m = "omt" THEN "mark" ELSE "stop")
                       ELSE (IF m = "cam" THEN "held" ELSE "wait")

Acquire(m) ==
    /\ At(m, "idle")
    /\ wasActive' = [wasActive EXCEPT ![m] = (unit = "active")]
    /\ GoTo(m, AfterCheck(m))
    /\ UNCHANGED <<box, markers, alive>>

(* Only bdomt looks for somebody else's pipeline, and between two items     *)
(* there is none: Acquire is possible then too.                             *)
Refused ==
    /\ "omt" \in Modules /\ At("omt", "idle")
    /\ unit # "active" /\ \E m \in Modules \ {"omt"} : pc[m] = "held"
    /\ wasActive' = [wasActive EXCEPT !["omt"] = FALSE]
    /\ UNCHANGED <<box, pc, markers, alive>>

Mark(m) ==
    /\ At(m, "mark")
    /\ \/ markers' = markers \cup {m}
       \/ "mark" \in MayFail /\ UNCHANGED markers
    /\ GoTo(m, IF m = "omt" THEN "stop" ELSE "held")
    /\ UNCHANGED <<box, wasActive, alive>>

(* Mutant of Stop: systemctl stop --no-block, which does not wait for it.   *)
StopNoBlock(m) ==
    /\ At(m, "stop")
    /\ unit' = "deactivating"
    /\ GoTo(m, IF m = "cam" THEN "mark" ELSE "wait")
    /\ UNCHANGED <<ppapp, meant, denied, wasActive, markers, alive>>

(* systemctl stop; PPApp is gone with it, or straggles.                     *)
Stop(m) ==
    /\ At(m, "stop")
    /\ unit' = "down" /\ denied' = FALSE
    /\ \/ ppapp' = FALSE
       \/ m \in Straggles /\ UNCHANGED ppapp
    /\ GoTo(m, IF m = "cam" THEN "mark" ELSE "wait")
    /\ UNCHANGED <<meant, wasActive, markers, alive>>

(* bdomt takes its marker back, bdcam goes on without the display.          *)
StopFails(m) ==
    /\ At(m, "stop") /\ "stop" \in MayFail
    /\ wasActive' = [wasActive EXCEPT ![m] = FALSE]
    /\ markers' = markers \ {m}
    /\ GoTo(m, IF m = "cam" THEN "held" ELSE "idle")
    /\ UNCHANGED <<box, alive>>

PPAppGone(m) ==
    /\ At(m, "wait") /\ ~ppapp /\ GoTo(m, "held")
    /\ UNCHANGED <<box, wasActive, markers, alive>>

(* Mutant of TimedOut: bdomt returns its error and restores nothing.        *)
JustFails(m) ==
    /\ At(m, "wait") /\ ppapp /\ GoTo(m, "idle")
    /\ UNCHANGED <<box, wasActive, markers, alive>>

(* PPApp still runs after 10 s.  bdomt sets held and so restores; bdplay    *)
(* has not set it, and its restore returns at once.                         *)
TimedOut(m) ==
    /\ At(m, "wait") /\ ppapp
    /\ GoTo(m, IF m = "omt" /\ wasActive[m] THEN "start" ELSE "idle")
    /\ UNCHANGED <<box, wasActive, markers, alive>>

(* Mutant of Release: the decoder is started whatever it was before.        *)
ReleaseAlways(m) ==
    /\ At(m, "held") /\ GoTo(m, "start")
    /\ UNCHANGED <<box, wasActive, markers, alive>>

(* Release and Unhold of the last pin; the converter's way out.             *)
Release(m) ==
    /\ At(m, "held")
    /\ GoTo(m, IF wasActive[m] THEN "start" ELSE "idle")
    /\ UNCHANGED <<box, wasActive, markers, alive>>

(* systemctl start of a unit found in this state: it runs, or the start     *)
(* fails, at its start limit or otherwise.  That is logged and no more.     *)
StartRunner(found) ==
    \/ found # "failed" /\ unit' = "active" /\ meant' = FALSE /\ denied' = FALSE
    \/ /\ found = "failed" \/ "start" \in MayFail
       /\ unit' = found /\ denied' = (denied \/ found = "down")
       /\ UNCHANGED meant

(* reset-failed and start; bdcam does not reset.  bdomt and bdplay then     *)
(* look whether PPApp is back, for up to 15 s if the start did not fail.    *)
(* Only after that is the marker removed, started or not.                   *)
Restore(m) ==
    /\ At(m, "start")
    /\ StartRunner(IF unit = "failed" /\ m # "cam" THEN "down" ELSE unit)
    /\ GoTo(m, "confirm")
    /\ UNCHANGED <<ppapp, wasActive, markers, alive>>

Confirm(m) ==
    /\ At(m, "confirm")
    /\ markers' = markers \ {m} /\ GoTo(m, "idle")
    /\ UNCHANGED <<box, wasActive, alive>>

-----------------------------------------------------------------------------
(* systemd and PPApp.                                                       *)
PPAppStarts ==
    /\ unit = "active" /\ ~ppapp /\ ppapp' = TRUE
    /\ UNCHANGED <<unit, meant, denied, pc, wasActive, markers, alive>>

StragglerExits ==
    /\ unit = "down" /\ ppapp /\ ppapp' = FALSE
    /\ UNCHANGED <<unit, meant, denied, pc, wasActive, markers, alive>>

PPAppAborts ==
    /\ Aborts /\ unit = "active" /\ ppapp
    /\ ppapp' = FALSE /\ unit' \in {"activating", "failed"}
    /\ UNCHANGED <<meant, denied, pc, wasActive, markers, alive>>

RunnerRestarts ==
    /\ unit = "activating" /\ unit' = "active"
    /\ UNCHANGED <<ppapp, meant, denied, pc, wasActive, markers, alive>>

(* The owner stops BirdDogRunner on purpose, when no module is about to     *)
(* start it, and starts it again.                                           *)
OwnerStops ==
    /\ unit = "active" /\ alive = Modules
    /\ \A m \in Modules : pc[m] = "idle" \/ (pc[m] = "held" /\ ~wasActive[m])
    /\ unit' = "down" /\ ppapp' = FALSE /\ meant' = TRUE
    /\ UNCHANGED <<denied, pc, wasActive, markers, alive>>

OwnerStarts ==
    /\ unit = "down"
    /\ OwnerStartsToo \/ \A m \in Modules : pc[m] = "idle"
    /\ unit' = "active" /\ meant' = FALSE /\ denied' = FALSE
    /\ UNCHANGED <<ppapp, pc, wasActive, markers, alive>>

Killed(m) ==
    /\ m \in MayDie \cap alive
    /\ alive' = alive \ {m}
    /\ GoTo(m, "idle") /\ wasActive' = [wasActive EXCEPT ![m] = FALSE]
    /\ UNCHANGED <<box, markers>>

(* ExecStopPost, which removes the marker and starts without a reset, and   *)
(* the unit's restart.  bdplay has neither marker nor ExecStopPost.         *)
ComesBack(m) ==
    /\ m \in Modules \ alive
    /\ alive' = alive \cup {m} /\ markers' = markers \ {m}
    /\ IF m \in markers THEN StartRunner(unit) ELSE UNCHANGED <<unit, meant, denied>>
    /\ UNCHANGED <<ppapp, pc, wasActive>>

Handover(m) ==
    \/ Mark(m) \/ Stop(m) \/ StopFails(m) \/ PPAppGone(m) \/ TimedOut(m)
    \/ Restore(m) \/ Confirm(m) \/ ComesBack(m)

Next ==
    \/ \E m \in Modules : Acquire(m) \/ Handover(m) \/ Release(m) \/ Killed(m)
    \/ Refused \/ PPAppStarts \/ StragglerExits \/ PPAppAborts \/ RunnerRestarts
    \/ OwnerStops \/ OwnerStarts

Spec == Init /\ [][Next]_vars

(* A handover that has started goes on, and systemd restarts what it should. *)
FairSpec == Spec /\ \A m \in Modules : WF_vars(Handover(m))

-----------------------------------------------------------------------------
(* BirdDogRunner is stopped and the owner did not ask for that.             *)
Dark == unit = "down" /\ ~meant

(* m has stopped it and will start it again, or systemd will for m.         *)
Owes(m) ==
    \/ m \in alive /\ wasActive[m] /\ pc[m] \in {"wait", "held", "start"}
    \/ m = "cam" /\ m \in alive /\ wasActive[m] /\ pc[m] = "mark"
    \/ m \notin alive /\ m \in markers

(* The start of a decoder that a module stopped is never forgotten: however *)
(* calls, failed stops, kills and handovers of the others interleave,       *)
(* someone will still ask for it.  Asking is all the code does: a start     *)
(* that fails is not tried again, and its marker goes with it               *)
(* (omt/display.go:116, player/display.go:146, run_pipeline.go:475).  From  *)
(* then on HDMI is dark and nobody's, until the owner starts it.            *)
DarkHasOwner == Dark => denied \/ \E m \in Modules : Owes(m)

(* HDMI does not stay dark, unless a module shows something or the start of *)
(* the decoder failed.                                                      *)
DarkEnds == Dark ~> (~Dark \/ denied \/ \E m \in Modules : pc[m] = "held")

(* "Always giving it back" (omt/display.go:3), which a failed start breaks. *)
DarkIsNeverNobodys == Dark => \E m \in Modules : Owes(m)

(* What the owner stopped stays stopped, however often HDMI is taken and    *)
(* given back meanwhile, until the owner starts it.                         *)
StaysStopped == [][meant => unit' = "down" \/ OwnerStarts]_vars

(* A module that holds HDMI has it: PPApp does not run.                     *)
HeldIsFree == \A m \in Modules : pc[m] = "held" => ~ppapp

-----------------------------------------------------------------------------
(* What a module does at each place is decided by what it found: only one   *)
(* that found BirdDogRunner active stops or starts it or has a marker, and  *)
(* while the owner wants it stopped none of them is on the way to a start.  *)
StoppedInv ==
    /\ TypeOK
    /\ "player" \notin markers
    /\ \A m \in Modules :
        /\ m \notin alive => pc[m] = "idle"
        /\ pc[m] = "wait" => m # "cam"
        /\ pc[m] = "mark" => m # "player"
        /\ pc[m] \in {"mark", "stop", "start", "confirm"} => wasActive[m]
        /\ m \in markers \cap alive => wasActive[m] /\ pc[m] # "idle"
    /\ denied => unit = "down" /\ ~meant
    /\ meant =>
        /\ unit = "down" /\ markers = {}
        /\ \A m \in Modules :
            pc[m] = "idle" \/ (pc[m] \in {"wait", "held"} /\ ~wasActive[m])

(* What DarkHasOwner rests on: only bdomt is killed outright, and PPApp     *)
(* outlives only its stop; /run can be written.  A start may fail.          *)
Sound == /\ MayDie \subseteq {"omt"} /\ Straggles \subseteq {"omt"}
         /\ "mark" \notin MayFail

(* bdomt's marker is there from before its stop until after its start, and  *)
(* a PPApp that outlives its unit is one bdomt will answer for, or has.     *)
DarkInv ==
    /\ \A m \in Modules \cap alive :
        m = "omt" /\ wasActive[m] /\ pc[m] \in {"stop", "wait", "held", "start"}
        => m \in markers
    /\ Dark /\ ppapp => denied \/ ("omt" \in Modules /\ Owes("omt"))
    /\ DarkHasOwner
=============================================================================
