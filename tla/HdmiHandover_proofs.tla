------------------------ MODULE HdmiHandover_proofs -------------------------
(***************************************************************************)
(* Proofs about HdmiHandover, for any set of the modules.                  *)
(***************************************************************************)
EXTENDS HdmiHandover, TLAPS

USE HandoverAssumption

(* The steps of one module, and those of the rest of the box.               *)
ModuleStep(m) == Acquire(m) \/ Handover(m) \/ Release(m) \/ Killed(m)
BoxStep ==
    \/ Refused \/ PPAppStarts \/ StragglerExits \/ PPAppAborts \/ RunnerRestarts
    \/ OwnerStops \/ OwnerStarts

(* After boot BirdDogRunner runs and nobody has touched it.                 *)
LEMMA InitStopped == ASSUME Init PROVE StoppedInv
BY DEF Init, StoppedInv, TypeOK, Places

(* A step of a module, killed or not, keeps the types.                      *)
LEMMA ModuleTypes ==
    ASSUME TypeOK, NEW m \in Modules, ModuleStep(m) PROVE TypeOK'
<1> USE DEF TypeOK, At, GoTo
<1>1. CASE Acquire(m) BY <1>1 DEF Acquire, AfterCheck, Places, box
<1>2. CASE Mark(m) BY <1>2 DEF Mark, Places, box
<1>3. CASE Stop(m) BY <1>3 DEF Stop, Places
<1>4. CASE StopFails(m) BY <1>4 DEF StopFails, Places, box
<1>5. CASE PPAppGone(m) BY <1>5 DEF PPAppGone, Places, box
<1>6. CASE TimedOut(m) BY <1>6 DEF TimedOut, Places, box
<1>7. CASE Restore(m) BY <1>7 DEF Restore, StartRunner, Places
<1>8. CASE Confirm(m) BY <1>8 DEF Confirm, Places, box
<1>9. CASE ComesBack(m) BY <1>9 DEF ComesBack, StartRunner
<1>10. CASE Release(m) BY <1>10 DEF Release, Places, box
<1>11. CASE Killed(m) BY <1>11 DEF Killed, Places, box
<1> QED BY <1>1, <1>2, <1>3, <1>4, <1>5, <1>6, <1>7, <1>8, <1>9, <1>10, <1>11
        DEF ModuleStep, Handover

(* A step of a module keeps what each place says about what was found, and  *)
(* does not start what the owner stopped.                                   *)
LEMMA ModuleStops ==
    ASSUME StoppedInv, NEW m \in Modules, ModuleStep(m) PROVE StoppedInv'
<1>0. TypeOK' BY ModuleTypes DEF StoppedInv
<1> USE <1>0 DEF StoppedInv, TypeOK, At, GoTo
<1>1. CASE Acquire(m)
  <2>1. /\ UNCHANGED <<unit, ppapp, meant, denied, markers, alive>>
        /\ m \in alive /\ pc[m] = "idle"
        /\ pc' = [pc EXCEPT ![m] = AfterCheck(m)]
        /\ wasActive' = [wasActive EXCEPT ![m] = (unit = "active")]
    BY <1>1 DEF Acquire, box
  <2>2. CASE unit = "active"
    <3>1. wasActive' = [wasActive EXCEPT ![m] = TRUE] BY <2>1, <2>2
    <3>2. ~meant BY <2>2
    <3> QED BY <2>1, <2>2, <3>1, <3>2 DEF AfterCheck
  <2>3. CASE unit # "active"
    <3>1. wasActive' = [wasActive EXCEPT ![m] = FALSE] BY <2>1, <2>3
    <3> QED BY <2>1, <2>3, <3>1 DEF AfterCheck
  <2> QED BY <2>2, <2>3
<1>2. CASE Mark(m) BY <1>2 DEF Mark, box
<1>3. CASE Stop(m) BY <1>3 DEF Stop
<1>4. CASE StopFails(m) BY <1>4 DEF StopFails, box
<1>5. CASE PPAppGone(m) BY <1>5 DEF PPAppGone, box
<1>6. CASE TimedOut(m) BY <1>6 DEF TimedOut, box
<1>7. CASE Restore(m) BY <1>7 DEF Restore, StartRunner
<1>8. CASE Confirm(m) BY <1>8 DEF Confirm, box
<1>9. CASE ComesBack(m) BY <1>9 DEF ComesBack, StartRunner
<1>10. CASE Release(m) BY <1>10 DEF Release, box
<1>11. CASE Killed(m) BY <1>11 DEF Killed, box
<1> QED BY <1>1, <1>2, <1>3, <1>4, <1>5, <1>6, <1>7, <1>8, <1>9, <1>10, <1>11
        DEF ModuleStep, Handover

(* So do PPApp, systemd, the owner and a refused Acquire.                   *)
LEMMA BoxStops == ASSUME StoppedInv, BoxStep PROVE StoppedInv'
<1> USE DEF StoppedInv, TypeOK, At
<1>1. CASE Refused BY <1>1 DEF Refused, box
<1>2. CASE PPAppStarts BY <1>2 DEF PPAppStarts
<1>3. CASE StragglerExits BY <1>3 DEF StragglerExits
<1>4. CASE PPAppAborts BY <1>4 DEF PPAppAborts
<1>5. CASE RunnerRestarts BY <1>5 DEF RunnerRestarts
<1>6. CASE OwnerStops BY <1>6 DEF OwnerStops
<1>7. CASE OwnerStarts BY <1>7 DEF OwnerStarts
<1> QED BY <1>1, <1>2, <1>3, <1>4, <1>5, <1>6, <1>7 DEF BoxStep

(* Whatever fails, is killed, or straggles: what a module does at a place   *)
(* follows from what it found there, the lemma behind both results below.   *)
THEOREM StoppedInvariant == Spec => []StoppedInv
<1>1. Init => StoppedInv BY InitStopped
<1>2. StoppedInv /\ [Next]_vars => StoppedInv'
  <2> SUFFICES ASSUME StoppedInv, [Next]_vars PROVE StoppedInv' OBVIOUS
  <2>1. CASE Next
    BY <2>1, ModuleStops, BoxStops DEF Next, ModuleStep, BoxStep
  <2>2. CASE UNCHANGED vars BY <2>2 DEF vars, box, StoppedInv, TypeOK
  <2> QED BY <2>1, <2>2
<1> QED BY <1>1, <1>2, PTL DEF Spec

(* No step but the owner's own makes BirdDogRunner run while the owner has  *)
(* it stopped: omt/display.go:107, player/display.go:129 and the markers.   *)
THEOREM OwnersStopStays == Spec => StaysStopped
<1>1. StoppedInv /\ [Next]_vars => [meant => unit' = "down" \/ OwnerStarts]_vars
  <2> SUFFICES ASSUME StoppedInv, Next, meant PROVE unit' = "down" \/ OwnerStarts
    BY DEF vars
  <2>1. unit = "down" /\ markers = {} BY DEF StoppedInv
  <2>2. ASSUME NEW m \in Modules, ModuleStep(m) PROVE unit' = "down"
    <3>1. ~Restore(m) BY DEF StoppedInv, Restore, At
    <3>2. CASE Stop(m) BY <3>2 DEF Stop
    <3>3. CASE UNCHANGED unit BY <2>1, <3>3
    <3> QED BY <2>1, <2>2, <3>1, <3>2, <3>3
         DEF ModuleStep, Handover, box, Acquire, Mark, StopFails, PPAppGone, TimedOut,
             Confirm, ComesBack, Release, Killed
  <2>3. ASSUME BoxStep PROVE unit' = "down" \/ OwnerStarts
    BY <2>1, <2>3 DEF BoxStep, box, Refused, PPAppStarts, StragglerExits, PPAppAborts,
       RunnerRestarts, OwnerStops
  <2> QED BY <2>2, <2>3 DEF Next, ModuleStep, BoxStep
<1> QED BY <1>1, StoppedInvariant, PTL DEF Spec, StaysStopped

-----------------------------------------------------------------------------
(* Who owes a start still owes it after a step that touches neither the     *)
(* module's place nor what it will restore, its marker or its life.         *)
LEMMA StillOwes ==
    ASSUME NEW n \in Modules, Owes(n),
           pc'[n] = pc[n], wasActive'[n] = wasActive[n],
           n \in alive' <=> n \in alive, n \in markers' <=> n \in markers
    PROVE  Owes(n)'
BY DEF Owes

(* One module's step does not touch another's place, nor what it restores.  *)
LEMMA OthersOwe ==
    ASSUME StoppedInv, NEW m \in Modules, ModuleStep(m),
           NEW n \in Modules \ {m}, Owes(n)
    PROVE  Owes(n)'
<1>1. pc'[n] = pc[n] /\ wasActive'[n] = wasActive[n]
  <2> USE DEF StoppedInv, TypeOK, GoTo
  <2>1. CASE Acquire(m) BY <2>1 DEF Acquire
  <2>2. CASE Handover(m)
    BY <2>2 DEF Handover, Mark, Stop, StopFails, PPAppGone, TimedOut, Restore, Confirm, ComesBack
  <2>3. CASE Release(m) \/ Killed(m) BY <2>3 DEF Release, Killed
  <2> QED BY <2>1, <2>2, <2>3 DEF ModuleStep
<1>2. (n \in alive' <=> n \in alive) /\ (n \in markers' <=> n \in markers)
  BY DEF ModuleStep, Handover, Acquire, Mark, Stop, StopFails, PPAppGone, TimedOut, Restore,
     Confirm, ComesBack, Release, Killed
<1> QED BY <1>1, <1>2, StillOwes

(* bdomt writes its marker before it stops the decoder and removes it after *)
(* it has started it (omt/display.go:67, 111).                              *)
LEMMA KeepsMarker ==
    ASSUME Sound, StoppedInv, DarkInv, NEW m \in Modules, ModuleStep(m)
    PROVE  "omt" \in Modules \cap alive' /\ wasActive'["omt"]
           /\ pc'["omt"] \in {"stop", "wait", "held", "start"} => "omt" \in markers'
<1> SUFFICES ASSUME "omt" \in Modules, "omt" \in alive', wasActive'["omt"],
                    pc'["omt"] \in {"stop", "wait", "held", "start"}
             PROVE  "omt" \in markers'
  OBVIOUS
<1> USE DEF StoppedInv, TypeOK, At, GoTo
<1>1. "omt" \in alive /\ wasActive["omt"] /\ pc["omt"] \in {"stop", "wait", "held", "start"}
      => "omt" \in markers
  BY DEF DarkInv
<1>2. CASE m # "omt"
  BY <1>1, <1>2 DEF ModuleStep, Handover, Acquire, Mark, Stop, StopFails, PPAppGone, TimedOut,
     Restore, Confirm, ComesBack, Release, Killed
<1>3. CASE m = "omt"
  <2>1. CASE Acquire(m)
    <3>1. wasActive'[m] = (unit = "active") /\ pc'[m] = AfterCheck(m) BY <2>1 DEF Acquire
    <3> QED BY <1>3, <3>1 DEF AfterCheck
  <2>2. CASE Mark(m) BY <1>3, <2>2 DEF Mark, Sound
  <2>3. CASE Stop(m) \/ PPAppGone(m) \/ TimedOut(m) \/ Release(m)
    BY <1>1, <1>3, <2>3 DEF Stop, PPAppGone, TimedOut, Release
  <2>4. CASE StopFails(m) \/ Restore(m) \/ Confirm(m) \/ ComesBack(m) \/ Killed(m)
    BY <1>3, <2>4 DEF StopFails, Restore, Confirm, ComesBack, Killed
  <2> QED BY <2>1, <2>2, <2>3, <2>4 DEF ModuleStep, Handover
<1> QED BY <1>2, <1>3

(* A module that owes a start still does after a step of its own that does  *)
(* not start the decoder, unless the start fails; only bdplay may give up,  *)
(* on a PPApp that lives.                                                   *)
LEMMA OwnDebt ==
    ASSUME Sound, StoppedInv, DarkInv, NEW m \in Modules, ModuleStep(m), ~Stop(m),
           Owes(m), Dark, Dark'
    PROVE  Owes(m)' \/ denied' \/ (m # "omt" /\ ppapp)
<1> USE DEF StoppedInv, TypeOK, At, GoTo
<1>1. ~Acquire(m) /\ ~StopFails(m) /\ ~Confirm(m)
  BY DEF Owes, Acquire, StopFails, Confirm
<1>2. CASE Restore(m) \/ ComesBack(m)
  BY <1>2 DEF Owes, Dark, Restore, ComesBack, StartRunner
<1>3. CASE Mark(m)
  <2>1. m = "cam" /\ m \in alive' /\ wasActive'[m] /\ pc'[m] = "held"
    BY <1>3 DEF Mark, Owes
  <2> QED BY <2>1 DEF Owes
<1>4. CASE PPAppGone(m) \/ Release(m)
  <2>1. m \in alive' /\ wasActive'[m] /\ pc'[m] \in {"held", "start"}
    BY <1>4 DEF PPAppGone, Release, Owes
  <2> QED BY <2>1 DEF Owes
<1>5. CASE TimedOut(m)
  <2>1. m \in alive' /\ wasActive'[m] /\ ppapp BY <1>5 DEF TimedOut, Owes
  <2>2. m = "omt" => pc'[m] = "start" BY <1>5 DEF TimedOut, Owes
  <2> QED BY <2>1, <2>2 DEF Owes
<1>6. CASE Killed(m)
  <2>1. m = "omt" /\ m \notin alive' /\ markers' = markers BY <1>6 DEF Killed, Sound
  <2>2. m \in alive BY <1>6 DEF Killed
  <2>3. m \in markers BY <2>1, <2>2 DEF Owes, DarkInv
  <2> QED BY <2>1, <2>3 DEF Owes
<1> QED BY <1>1, <1>2, <1>3, <1>4, <1>5, <1>6 DEF ModuleStep, Handover

(* A step of a module never leaves a stopped decoder without someone who    *)
(* will start it.                                                           *)
LEMMA ModuleOwes ==
    ASSUME Sound, StoppedInv, DarkInv, NEW m \in Modules, ModuleStep(m)
    PROVE  DarkInv'
<1>1. CASE Stop(m)
  <2>1. /\ m \in alive' /\ wasActive'[m]
        /\ pc'[m] = IF m = "cam" THEN "mark" ELSE "wait"
    BY <1>1 DEF Stop, At, GoTo, StoppedInv, TypeOK
  <2>2. Owes(m)' BY <2>1 DEF Owes
  <2>3. Dark' /\ ppapp' => denied' \/ ("omt" \in Modules /\ Owes("omt")')
    <3>1. CASE ppapp' = FALSE BY <3>1
    <3>2. CASE m \in Straggles BY <2>2, <3>2 DEF Sound
    <3> QED BY <1>1, <3>1, <3>2 DEF Stop
  <2> QED BY <2>2, <2>3, KeepsMarker DEF DarkInv, DarkHasOwner
<1>2. CASE ~Stop(m)
  <2>1. ppapp' = ppapp /\ (Dark' => denied' \/ (Dark /\ ~denied))
    <3>1. CASE Restore(m) \/ ComesBack(m)
      BY <3>1 DEF Dark, Restore, ComesBack, StartRunner, StoppedInv, At
    <3>2. CASE UNCHANGED box BY <3>2 DEF box, Dark
    <3> QED BY <1>2, <3>1, <3>2 DEF ModuleStep, Handover, Acquire, Mark, StopFails,
         PPAppGone, TimedOut, Confirm, Release, Killed
  <2>2. ASSUME Dark', ~denied', NEW n \in Modules, Owes(n)
        PROVE  Owes(n)' \/ (n # "omt" /\ ppapp)
    BY <1>2, <2>1, <2>2, OwnDebt, OthersOwe
  <2>3. Dark' /\ ppapp' => denied' \/ ("omt" \in Modules /\ Owes("omt")')
    BY <2>1, <2>2 DEF DarkInv
  <2>4. Dark' => denied' \/ \E n \in Modules : Owes(n)'
    BY <2>1, <2>2, <2>3 DEF DarkInv, DarkHasOwner
  <2> QED BY <2>3, <2>4, KeepsMarker DEF DarkInv, DarkHasOwner
<1> QED BY <1>1, <1>2

(* Nor does anything else that happens on the box.                          *)
LEMMA BoxOwes == ASSUME StoppedInv, DarkInv, BoxStep PROVE DarkInv'
<1> USE DEF StoppedInv, TypeOK, At
<1>1. /\ markers' = markers /\ alive' = alive /\ pc' = pc
      /\ \A m \in Modules : m \in alive /\ pc[m] # "idle" => wasActive'[m] = wasActive[m]
  BY DEF BoxStep, Refused, PPAppStarts, StragglerExits, PPAppAborts, RunnerRestarts,
     OwnerStops, OwnerStarts
<1>2. ASSUME NEW n \in Modules, Owes(n) PROVE Owes(n)'
  BY <1>1, <1>2 DEF Owes
<1>3. (Dark' => Dark) /\ (Dark' /\ denied => denied') /\ (Dark' /\ ppapp' => ppapp)
  BY DEF BoxStep, Dark, box, Refused, PPAppStarts, StragglerExits, PPAppAborts,
     RunnerRestarts, OwnerStops, OwnerStarts
<1>4. \A m \in Modules \cap alive' :
        m = "omt" /\ wasActive'[m] /\ pc'[m] \in {"stop", "wait", "held", "start"}
        => m \in markers'
  BY <1>1 DEF DarkInv
<1>5. Dark' /\ ppapp' => denied' \/ ("omt" \in Modules /\ Owes("omt")')
  BY <1>2, <1>3 DEF DarkInv
<1>6. Dark' => denied' \/ \E m \in Modules : Owes(m)'
  BY <1>2, <1>3 DEF DarkInv, DarkHasOwner
<1> QED BY <1>4, <1>5, <1>6 DEF DarkInv, DarkHasOwner

(* With /run writable and only bdomt killed or outlived by PPApp, a decoder *)
(* that a module stopped always has someone who will ask systemd to start   *)
(* it (omt/display.go:19-22), however the handovers interleave, or systemd  *)
(* was asked and the start failed: that any start may fail is not excluded. *)
THEOREM DarkIsOwned == Sound => (Spec => []DarkHasOwner)
<1> SUFFICES ASSUME Sound PROVE Spec => []DarkHasOwner OBVIOUS
<1>1. Init => DarkInv BY DEF Init, DarkInv, DarkHasOwner, Dark
<1>2. StoppedInv /\ DarkInv /\ [Next]_vars => DarkInv'
  <2> SUFFICES ASSUME StoppedInv, DarkInv, [Next]_vars PROVE DarkInv' OBVIOUS
  <2>1. CASE Next BY <2>1, ModuleOwes, BoxOwes DEF Next, ModuleStep, BoxStep
  <2>2. CASE UNCHANGED vars BY <2>2 DEF vars, box, DarkInv, DarkHasOwner, Dark, Owes
  <2> QED BY <2>1, <2>2
<1>3. DarkInv => DarkHasOwner BY DEF DarkInv
<1> QED BY <1>1, <1>2, <1>3, StoppedInvariant, PTL DEF Spec
=============================================================================
