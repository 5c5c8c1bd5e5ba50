---------------------------- MODULE OutputRunner ----------------------------
(***************************************************************************)
(* bdout's runner (output/runner.go): trying an HDMI format, keeping it,   *)
(* and going back when nobody keeps it; with the decoder it restarts       *)
(* (output/decoder.go), the shim inside PPApp that hands out the format    *)
(* (output/shim/shim.c), crashes of bdout and power cuts.                  *)
(*                                                                         *)
(* Actors: API callers; the revert timer of each trial; the restart that   *)
(* Boot starts; PPApp, kept up by systemd while BirdDogRunner is active;   *)
(* and the other modules, which stop BirdDogRunner to take HDMI.  The      *)
(* mutex mu is released only around the decoder's restart, so a section    *)
(* under mu is one step, or two where a crash between its two files counts.*)
(* A format stands for the timing it forces; Source forces none.           *)
(***************************************************************************)
EXTENDS Naturals, FiniteSets

CONSTANTS Callers,      (* API goroutines                                   *)
          Formats, Source,
          None,         (* no trial, nobody, nothing asked yet              *)
          BootTask,     (* the goroutine Boot starts                        *)
          MaxTrials,    (* trials of one life of bdout, a bound             *)
          MayFail,      (* of "config" and "shim", the files whose writing may fail *)
          LateStart     (* PPApp may come up just after bdout gave up on it *)

Gens   == 1..MaxTrials  (* trials are told apart by gen; each has a timer   *)
Actors == Callers \cup Gens \cup {BootTask}

ASSUME RunnerAssumption ==
    /\ Source \in Formats /\ None \notin Formats
    /\ MaxTrials \in Nat
    /\ BootTask \notin Callers \cup Gens /\ Callers \cap Gens = {}
    /\ None \notin Actors
    /\ MayFail \subseteq {"config", "shim"} /\ LateStart \in BOOLEAN

VARIABLES
    life,       (* bdout: "off" after a power cut, "down", "pre", "up"       *)
    cfg,        (* config.json: the kept format and whether an AOI is on     *)
    shim,       (* shim.conf: the format forced and the AOI                  *)
    trial, gen, busy,           (* the fields of Runner                      *)
    mu,         (* who is between two file writes under mu                   *)
    armed,      (* the trials whose timer runs                               *)
    pc,         (* where an actor is                                         *)
    my,         (* the trial a caller started or reverts, 0 for none         *)
    failed,     (* its decoder restart returned an error                     *)
    runner,     (* BirdDogRunner is active                                   *)
    ppapp,      (* PPApp runs                                                *)
    handed      (* the format the shim handed PPApp, None before it asked    *)

disk   == <<cfg, shim>>
fields == <<trial, gen, busy, armed>>
actors == <<mu, pc, my, failed>>
world  == <<runner, ppapp, handed>>
vars   == <<life, disk, fields, actors, world>>

Places == {"out", "write", "aoi", "revert", "restart", "await", "tell", "settle"}
Config == [format : Formats, aoi : BOOLEAN]

FieldType ==
    /\ trial \in Formats \cup {None}
    /\ gen \in 0..MaxTrials
    /\ busy \in BOOLEAN
    /\ armed \subseteq Gens

ActorType ==
    /\ mu \in Actors \cup {None}
    /\ pc \in [Actors -> Places]
    /\ my \in [Actors -> 0..MaxTrials]
    /\ failed \in [Actors -> BOOLEAN]

WorldType ==
    /\ life \in {"off", "down", "pre", "up"}
    /\ runner \in BOOLEAN /\ ppapp \in BOOLEAN
    /\ handed \in Formats \cup {None}

TypeOK == cfg \in Config /\ shim \in Config /\ FieldType /\ ActorType /\ WorldType

(* A fresh box: the defaults are in both files, and everything is off.      *)
Init ==
    /\ life = "off"
    /\ cfg = [format |-> Source, aoi |-> FALSE] /\ shim = cfg
    /\ trial = None /\ gen = 0 /\ busy = FALSE /\ armed = {}
    /\ mu = None
    /\ pc = [a \in Actors |-> "out"]
    /\ my = [a \in Actors |-> 0]
    /\ failed = [a \in Actors |-> FALSE]
    /\ runner = FALSE /\ ppapp = FALSE /\ handed = None

-----------------------------------------------------------------------------
GoTo(a, place) == pc' = [pc EXCEPT ![a] = place]

(* A caller's next call can start, and a section under mu can run.          *)
Free(a) == life = "up" /\ a \in Callers /\ pc[a] = "out" /\ mu = None

Active == IF trial # None THEN trial ELSE cfg.format

(* The runner's fields once stopTrialLocked has run.                        *)
StopTrial == trial' = None /\ armed' = armed \ {gen}

(* writeShim, and WriteConf, which writes what config.json says.            *)
WriteShim(f) == shim' = [format |-> f, aoi |-> cfg.aoi]
WriteFails   == "shim" \in MayFail /\ UNCHANGED shim
WriteConf    == WriteShim(cfg.format) \/ WriteFails
Changed      == shim'.format # shim.format

(* busy, then Decoder.Restart with mu released; or the section's end.       *)
RestartIf(need, a) ==
    IF need /\ runner THEN busy' = TRUE /\ GoTo(a, "restart")
                      ELSE UNCHANGED busy /\ GoTo(a, "out")

-----------------------------------------------------------------------------
(* TryFormat of the source's own format, or of the kept one: no trial.      *)
(* config.json first; if that cannot be saved the trial is over all the     *)
(* same.  Then, still under mu, shim.conf and the restart.                  *)
TryKept(a, f) ==
    /\ Free(a) /\ ~busy /\ f \in {Source, cfg.format}
    /\ StopTrial
    /\ \/ cfg' = [cfg EXCEPT !.format = f] /\ mu' = a /\ GoTo(a, "write")
       \/ "config" \in MayFail /\ UNCHANGED <<cfg, mu, pc>>
    /\ UNCHANGED <<life, shim, gen, busy, my, failed, world>>

WriteKept(a) ==
    /\ life = "up" /\ pc[a] = "write"
    /\ WriteConf /\ RestartIf(Changed, a)
    /\ mu' = None /\ my' = [my EXCEPT ![a] = 0]
    /\ UNCHANGED <<life, cfg, trial, gen, armed, failed, world>>

(* Mutant of Try: the format is saved at once.                              *)
TrySaved(a, f) ==
    /\ Free(a) /\ ~busy /\ f \notin {Source, cfg.format} /\ runner
    /\ gen < MaxTrials
    /\ gen' = gen + 1 /\ armed' = armed \ {gen}
    /\ cfg' = [cfg EXCEPT !.format = f]
    /\ WriteShim(f) /\ trial' = f /\ busy' = TRUE
    /\ my' = [my EXCEPT ![a] = gen + 1] /\ GoTo(a, "restart")
    /\ UNCHANGED <<life, mu, failed, world>>

(* TryFormat of anything else: a trial, if the decoder runs.                *)
Try(a, f) ==
    /\ Free(a) /\ ~busy /\ f \notin {Source, cfg.format} /\ runner
    /\ gen < MaxTrials
    /\ gen' = gen + 1 /\ armed' = armed \ {gen}
    /\ \/ /\ WriteShim(f) /\ trial' = f /\ busy' = TRUE
          /\ my' = [my EXCEPT ![a] = gen + 1] /\ GoTo(a, "restart")
       \/ WriteFails /\ trial' = None /\ UNCHANGED <<busy, my, pc>>
    /\ UNCHANGED <<life, cfg, mu, failed, world>>

(* Mutant of Countdown: it is never started.                                *)
NoCountdown == armed' = armed

Countdown == armed' = armed \cup {gen}

(* The second half of a trial's start, once its restart has come back:      *)
(* replaced or reverted meanwhile; put back, because the decoder did not    *)
(* come up; or the countdown starts.                                        *)
Settle(a) ==
    /\ life = "up" /\ pc[a] = "settle" /\ mu = None
    /\ \/ /\ trial = None \/ gen # my[a]
          /\ UNCHANGED <<shim, trial, armed>>
       \/ /\ trial # None /\ gen = my[a] /\ failed[a]
          /\ trial' = None /\ WriteConf
          /\ UNCHANGED armed
       \/ /\ trial # None /\ gen = my[a] /\ ~failed[a]
          /\ Countdown
          /\ UNCHANGED <<shim, trial>>
    /\ GoTo(a, "out")
    /\ UNCHANGED <<life, cfg, gen, busy, mu, my, failed, world>>

(* Mutant of Keep: whether or not something is tried.                       *)
KeepWhatever(a) ==
    /\ Free(a)
    /\ cfg' = [cfg EXCEPT !.format = trial]
    /\ StopTrial
    /\ UNCHANGED <<life, shim, gen, busy, actors, world>>

(* A Save that fails leaves the trial as it was.                            *)
Keep(a) ==
    /\ Free(a) /\ trial # None
    /\ cfg' = [cfg EXCEPT !.format = trial]
    /\ StopTrial
    /\ UNCHANGED <<life, shim, gen, busy, actors, world>>

(* Revert reads gen under mu, and goes on to revert without it; so does a   *)
(* timer that fires.                                                        *)
Revert(a) ==
    /\ Free(a) /\ trial # None
    /\ my' = [my EXCEPT ![a] = gen] /\ GoTo(a, "revert")
    /\ UNCHANGED <<life, disk, fields, mu, failed, world>>

TimerFires(g) ==
    /\ life = "up" /\ g \in armed
    /\ armed' = armed \ {g}
    /\ my' = [my EXCEPT ![g] = g] /\ GoTo(g, "revert")
    /\ UNCHANGED <<life, disk, trial, gen, busy, mu, failed, world>>

(* revert: nothing for a stale gen; it polls while busy.                    *)
StaleRevert(a) == trial = None \/ gen # my[a]

GoBack(a) ==
    /\ life = "up" /\ pc[a] = "revert" /\ mu = None
    /\ \/ StaleRevert(a) /\ GoTo(a, "out") /\ UNCHANGED <<shim, trial, armed, busy>>
       \/ /\ ~StaleRevert(a) /\ ~busy
          /\ StopTrial /\ WriteConf /\ RestartIf(Changed, a)
    /\ my' = [my EXCEPT ![a] = 0]
    /\ UNCHANGED <<life, cfg, gen, mu, failed, world>>

(* SetAOI: config.json, then shim.conf with the format in force.            *)
SetAOI(a) ==
    /\ Free(a)
    /\ cfg' = [cfg EXCEPT !.aoi = ~@]
    /\ mu' = a /\ GoTo(a, "aoi")
    /\ UNCHANGED <<life, shim, fields, my, failed, world>>

(* Mutant of WriteAOI: the kept format goes in with it.                     *)
WriteAOIKept(a) ==
    /\ life = "up" /\ pc[a] = "aoi"
    /\ WriteConf
    /\ mu' = None /\ GoTo(a, "out")
    /\ UNCHANGED <<life, cfg, fields, my, failed, world>>

WriteAOI(a) ==
    /\ life = "up" /\ pc[a] = "aoi"
    /\ WriteShim(Active) \/ WriteFails
    /\ mu' = None /\ GoTo(a, "out")
    /\ UNCHANGED <<life, cfg, fields, my, failed, world>>

RestartDecoder(a) ==
    /\ Free(a) /\ ~busy /\ runner
    /\ busy' = TRUE /\ my' = [my EXCEPT ![a] = 0] /\ GoTo(a, "restart")
    /\ UNCHANGED <<life, disk, trial, gen, armed, mu, failed, world>>

-----------------------------------------------------------------------------
(* Decoder.Restart, without mu.  systemctl kills PPApp and starts another;  *)
(* or the job fails and leaves the unit failed; or it was stopped already.  *)
Restart(a) ==
    /\ life = "up" /\ pc[a] = "restart"
    /\ ppapp' = FALSE /\ handed' = None
    /\ \/ runner /\ GoTo(a, "await") /\ UNCHANGED <<failed, runner>>
       \/ runner' = FALSE /\ failed' = [failed EXCEPT ![a] = TRUE] /\ GoTo(a, "tell")
    /\ UNCHANGED <<life, disk, fields, mu, my>>

(* PPApp is seen, or 20 s are over.                                         *)
Await(a) ==
    /\ life = "up" /\ pc[a] = "await"
    /\ failed' = [failed EXCEPT ![a] = ~ppapp] /\ GoTo(a, "tell")
    /\ UNCHANGED <<life, disk, fields, mu, my, world>>

(* mu again: not busy any more.  Only a caller that started a trial has     *)
(* more to do.                                                              *)
Tell(a) ==
    /\ life = "up" /\ pc[a] = "tell" /\ mu = None
    /\ busy' = FALSE
    /\ GoTo(a, IF my[a] # 0 THEN "settle" ELSE "out")
    /\ UNCHANGED <<life, disk, trial, gen, armed, mu, my, failed, world>>

-----------------------------------------------------------------------------
(* bdout's life.  What it holds in memory is lost with the process.         *)
Gone ==
    /\ trial' = None /\ gen' = 0 /\ busy' = FALSE /\ armed' = {}
    /\ mu' = None
    /\ pc' = [a \in Actors |-> "out"]
    /\ my' = [a \in Actors |-> 0]
    /\ failed' = [a \in Actors |-> FALSE]

Crash == life = "up" /\ life' = "down" /\ Gone /\ UNCHANGED <<disk, world>>

PowerCut ==
    /\ life # "off" /\ life' = "off" /\ Gone
    /\ runner' = FALSE /\ ppapp' = FALSE /\ handed' = None
    /\ UNCHANGED disk

(* The unit's ExecStartPre, bdout --write-conf.                             *)
StartPre ==
    /\ life \in {"off", "down"} /\ life' = "pre"
    /\ WriteConf
    /\ UNCHANGED <<cfg, fields, actors, world>>

(* Mutant of Mismatch: the shim's status is not read.                       *)
NoLook == FALSE

(* What the running PPApp was handed is not the kept format.                *)
Mismatch == handed \notin {None, cfg.format}

(* Boot: shim.conf again, and a look at the shim's status.                  *)
Boot ==
    /\ life = "pre" /\ life' = "up"
    /\ WriteConf
    /\ RestartIf(Changed \/ Mismatch, BootTask)
    /\ UNCHANGED <<cfg, trial, gen, armed, mu, my, failed, world>>

-----------------------------------------------------------------------------
(* PPApp and BirdDogRunner.  bd-out.service is ordered before BirdDogRunner,*)
(* so after a power cut PPApp waits for ExecStartPre.                       *)
GaveUp == \E a \in Actors : pc[a] \in {"tell", "settle"} /\ failed[a]

PPAppStarts ==
    /\ runner /\ ~ppapp /\ (GaveUp => LateStart)
    /\ ppapp' = TRUE
    /\ UNCHANGED <<life, disk, fields, actors, runner, handed>>

(* drmModeGetConnector: the shim reads shim.conf and says what it handed.   *)
PPAppAsks ==
    /\ ppapp /\ handed # shim.format
    /\ handed' = shim.format
    /\ UNCHANGED <<life, disk, fields, actors, runner, ppapp>>

PPAppAborts ==
    /\ ppapp /\ ppapp' = FALSE /\ handed' = None
    /\ UNCHANGED <<life, disk, fields, actors, runner>>

RunnerStops ==
    /\ runner /\ runner' = FALSE /\ ppapp' = FALSE /\ handed' = None
    /\ UNCHANGED <<life, disk, fields, actors>>

RunnerStarts ==
    /\ ~runner /\ life # "off" /\ runner' = TRUE
    /\ UNCHANGED <<life, disk, fields, actors, ppapp, handed>>

-----------------------------------------------------------------------------
Request(a) ==
    \/ \E f \in Formats : TryKept(a, f) \/ Try(a, f)
    \/ Keep(a) \/ Revert(a) \/ SetAOI(a) \/ RestartDecoder(a)

Continue(a) ==
    \/ WriteKept(a) \/ WriteAOI(a) \/ Settle(a) \/ GoBack(a)
    \/ Restart(a) \/ Await(a) \/ Tell(a)

Process == Crash \/ PowerCut \/ StartPre \/ Boot
Box     == PPAppStarts \/ PPAppAsks \/ PPAppAborts \/ RunnerStops \/ RunnerStarts

Next ==
    \/ \E a \in Callers : Request(a)
    \/ \E g \in Gens : TimerFires(g)
    \/ \E a \in Actors : Continue(a)
    \/ Process \/ Box

Spec == Init /\ [][Next]_vars

(* Goroutines run, timers fire, systemd restarts bdout.  revert polls every *)
(* 100 ms and a waiter for mu gets it, so neither is shut out for ever by   *)
(* restarts or sections that keep ending.                                   *)
FairSpec ==
    /\ Spec
    /\ \A a \in Actors : SF_vars(Continue(a))
    /\ \A g \in Gens : WF_vars(TimerFires(g))
    /\ WF_vars(StartPre) /\ WF_vars(Boot)

-----------------------------------------------------------------------------
(* Why it works: the inductive invariants behind the properties below.      *)

Restarting(a) == pc[a] \in {"restart", "await", "tell"}

(* It has started trial my[a] and has yet to settle it.                     *)
Starting(a) == my[a] # 0 /\ pc[a] \in {"restart", "await", "tell", "settle"}

(* runner.go 244-246: busy keeps other changes out, so one restart of the   *)
(* decoder is under way at a time and busy says whether one is.             *)
OneRestart ==
    /\ busy <=> \E a \in Actors : Restarting(a)
    /\ \A a, b \in Actors : Restarting(a) /\ Restarting(b) => a = b

(* A process that is not there holds nothing.                               *)
DownInv ==
    life # "up" =>
        /\ trial = None /\ gen = 0 /\ ~busy /\ armed = {} /\ mu = None
        /\ \A a \in Actors : pc[a] = "out" /\ my[a] = 0

(* mu is held across two writes by the actor between them; a trial is over, *)
(* and no restart under way, before the kept format is written.             *)
MutexInv ==
    \A a \in Actors :
        /\ pc[a] \in {"write", "aoi"} <=> mu = a
        /\ pc[a] = "write" => trial = None /\ ~busy

(* A trial's timer is not armed before its start is settled, nor twice.     *)
TimerInv ==
    /\ armed \subseteq {gen}
    /\ \A g \in Gens :
         g > gen \/ g \in armed \/ (\E a \in Actors : Starting(a) /\ my[a] = g)
           => pc[g] = "out"
    /\ \A a, b \in Actors : Starting(a) /\ Starting(b) /\ my[a] = my[b] => a = b
    /\ \A a \in Actors : my[a] <= gen /\ (Starting(a) => my[a] \notin armed)

Owner(a) == my[a] = gen /\ (Starting(a) \/ pc[a] = "revert")

TrialInv == trial # None => gen # 0 /\ (gen \in armed \/ \E a \in Actors : Owner(a))

IndInv == TypeOK /\ DownInv /\ MutexInv /\ OneRestart /\ TimerInv /\ TrialInv

(* With a disk that works: what shim.conf says in between.                  *)
ShimInv ==
    /\ life = "pre" => shim = cfg
    /\ life = "up" /\ mu = None => shim = [format |-> Active, aoi |-> cfg.aoi]
    /\ \A a \in Actors : pc[a] = "aoi" => shim.format = Active
    /\ trial # None => trial # cfg.format

(* PPApp is where shim.conf says, or a restart will take it there.          *)
HandedInv ==
    /\ handed # None => ppapp
    /\ ppapp => runner
    /\ life = "up" /\ (\A a \in Actors : pc[a] # "restart") => handed \in {None, shim.format}
    /\ GaveUp => ~ppapp

ScreenInv == ShimInv /\ HandedInv

-----------------------------------------------------------------------------
(* Properties.                                                              *)

(* A trial always has someone who will end it: its timer, its revert, or    *)
(* the TryFormat that has yet to start its countdown.                       *)
TrialHasOwner == trial # None => gen \in armed \/ \E a \in Actors : Owner(a)

(* Outside the sections that write them, shim.conf says what the runner     *)
(* means it to: the format in force, and the AOI that was saved.            *)
ShimFollows == life = "up" /\ mu = None => shim = [format |-> Active, aoi |-> cfg.aoi]

Unkept == ppapp /\ handed \notin {None, cfg.format}

(* runner.go 8-12: PPApp is on a format that is not the kept one only while *)
(* that one is tried, or a restart is about to put it right, or bdout is    *)
(* down and its next Boot will.                                             *)
UnkeptIsOnTrial ==
    Unkept => trial # None \/ life # "up" \/ \E a \in Actors : pc[a] \in {"write", "restart"}

(* "Keep these display settings?": only Keep makes a tried format the kept  *)
(* one, whatever crashes, and going back never changes the kept one.        *)
Promise == INSTANCE KeptFormat WITH kept <- cfg.format, tried <- trial
KeptOnlyByKeep == Promise!Spec

(* Once bdout stays up, a trial ends: kept, reverted or replaced.           *)
TrialEnds ==
    <>[](life = "up") =>
        \A g \in Gens : (trial # None /\ gen = g) ~> (trial = None \/ gen # g)

(* Once bdout stays up, a screen left on a format nobody kept comes back.   *)
ScreenComesBack == <>[](life = "up") => (Unkept /\ trial = None ~> ~Unkept)
=============================================================================
