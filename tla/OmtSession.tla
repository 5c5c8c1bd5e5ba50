----------------------------- MODULE OmtSession -----------------------------
(***************************************************************************)
(* bdomt's session (omt/session.go): one OMT source on HDMI, from taking   *)
(* the display to giving it back.                                          *)
(*                                                                         *)
(* Three kinds of goroutine meet here.                                     *)
(*   - Callers, the HTTP handlers and the boot and shutdown code, run      *)
(*     Start and Stop.  The mutex op serialises them.                      *)
(*   - Each Start that gets the display spawns a run: the decode loop that *)
(*     alone drives the video sink, and its helpers, the receiver and the  *)
(*     audio loop.  A run ends when its context is cancelled, or by itself *)
(*     when the output cannot be driven.                                   *)
(*   - A run that ended by itself spawns a reaper, which queues for op and *)
(*     gives the display back unless Start or Stop moved on meanwhile.     *)
(*                                                                         *)
(* The mutex mu guards single reads and writes of fields, so each block    *)
(* under mu is one step.  Sizes and contents of frames are left out; the   *)
(* size a source sends matters only in that it may restart the sink.       *)
(***************************************************************************)
EXTENDS Naturals, FiniteSets

CONSTANTS Callers,      (* goroutines that call Start and Stop              *)
          Runs,         (* incarnations of run(), a bound on Starts         *)
          None,         (* the nil of done, and the free mutex              *)
          Budget,       (* failed sinks forgiven in 30 s, 5 in the code     *)
          HoldOnLoss    (* the setting: keep the last frame of a lost source*)

ASSUME SessionAssumption ==
    /\ Callers \cap Runs = {}
    /\ None \notin Callers \cup Runs
    /\ Budget \in Nat
    /\ HoldOnLoss \in BOOLEAN

VARIABLES
    op,         (* who holds op: a caller, the reaper of a run, or None     *)
    state,      (* Session.state                                            *)
    cur,        (* Session.done (with rx and cancel): the current run       *)
    held,       (* Display.held                                             *)
    cpc, req,   (* a caller's place in its call, and which call it makes    *)
    join,       (* the run whose done a caller waits for in stopLoops       *)
    rpc,        (* a run's place in run and decodeLoop                      *)
    helpers,    (* its receiver and audio loop are running                  *)
    cancelled,  (* its context is cancelled                                 *)
    fatal,      (* decodeLoop returned errOutput                            *)
    reaper,     (* the goroutine a fatal run leaves behind                  *)
    sink,       (* its video sink                                           *)
    recent,     (* failed sinks within the last 30 s                        *)
    picture,    (* what its sink last put on the screen                     *)
    stale,      (* its last frame is older than 2 s                         *)
    blacked     (* the loss of the source has been answered with black      *)

callVars == <<cpc, req, join>>
runVars  == <<rpc, helpers, cancelled, fatal, reaper>>
sinkVars == <<sink, recent, picture, stale, blacked>>
vars == <<op, state, cur, held, callVars, runVars, sinkVars>>

CallPlaces   == {"out", "lock", "detach", "cancel", "join", "display", "publish"}
Locked       == CallPlaces \ {"out", "lock"}
RunPlaces    == {"none", "begin", "loop", "submit", "drain", "fail", "close", "done"}
Decoding     == {"begin", "loop", "submit"}
ReaperPlaces == {"none", "lock", "release", "skip", "gone"}

SessionType ==
    /\ op \in Callers \cup Runs \cup {None}
    /\ state \in {"idle", "waiting", "live", "error"}
    /\ cur \in Runs \cup {None}
    /\ held \in BOOLEAN

CallType ==
    /\ cpc \in [Callers -> CallPlaces]
    /\ req \in [Callers -> {"start", "stop"}]
    /\ join \in [Callers -> Runs \cup {None}]

RunType ==
    /\ rpc \in [Runs -> RunPlaces]
    /\ helpers \in [Runs -> BOOLEAN]
    /\ cancelled \in [Runs -> BOOLEAN]
    /\ fatal \in [Runs -> BOOLEAN]
    /\ reaper \in [Runs -> ReaperPlaces]

SinkType ==
    /\ sink \in [Runs -> {"off", "up", "broken"}]
    /\ recent \in [Runs -> 0..Budget]
    /\ picture \in [Runs -> {"none", "black", "frame"}]
    /\ stale \in [Runs -> BOOLEAN]
    /\ blacked \in [Runs -> BOOLEAN]

TypeOK == SessionType /\ CallType /\ RunType /\ SinkType

Init ==
    /\ op = None /\ state = "idle" /\ cur = None /\ held = FALSE
    /\ cpc = [c \in Callers |-> "out"]
    /\ req = [c \in Callers |-> "stop"]
    /\ join = [c \in Callers |-> None]
    /\ rpc = [r \in Runs |-> "none"]
    /\ helpers = [r \in Runs |-> FALSE]
    /\ cancelled = [r \in Runs |-> FALSE]
    /\ fatal = [r \in Runs |-> FALSE]
    /\ reaper = [r \in Runs |-> "none"]
    /\ sink = [r \in Runs |-> "off"]
    /\ recent = [r \in Runs |-> 0]
    /\ picture = [r \in Runs |-> "none"]
    /\ stale = [r \in Runs |-> FALSE]
    /\ blacked = [r \in Runs |-> FALSE]

(* A run uses the HDMI output (video or sound) until its loops are over.   *)
Using(r) == rpc[r] \in Decoding \/ helpers[r]

Unused == {r \in Runs : rpc[r] = "none"}

-----------------------------------------------------------------------------
(* Start and Stop.                                                          *)

GoTo(c, place) == cpc' = [cpc EXCEPT ![c] = place]

Starting == {c \in Callers : cpc[c] # "out" /\ req[c] = "start"}

(* A handler calls.  Calls to Start are bounded by the runs left to spawn.  *)
Call(c, what) ==
    /\ cpc[c] = "out"
    /\ what = "start" => Cardinality(Starting) < Cardinality(Unused)
    /\ req' = [req EXCEPT ![c] = what]
    /\ GoTo(c, "lock")
    /\ UNCHANGED <<op, state, cur, held, join, runVars, sinkVars>>

Lock(c) ==
    /\ cpc[c] = "lock" /\ op = None
    /\ op' = c
    /\ GoTo(c, "detach")
    /\ UNCHANGED <<state, cur, held, req, join, runVars, sinkVars>>

(* stopLoops takes rx, cancel and done out of the session under mu ...      *)
Detach(c) ==
    /\ cpc[c] = "detach"
    /\ join' = [join EXCEPT ![c] = cur]
    /\ cur' = None
    /\ GoTo(c, IF cur = None THEN "display" ELSE "cancel")
    /\ UNCHANGED <<op, state, held, req, runVars, sinkVars>>

(* Mutant of Cancel: the context is not cancelled.                          *)
CancelForgotten(c) ==
    /\ cpc[c] = "cancel"
    /\ GoTo(c, "join")
    /\ UNCHANGED <<op, state, cur, held, req, join, runVars, sinkVars>>

(* ... tells the sender, which may take a while, cancels ...                *)
Cancel(c) ==
    /\ cpc[c] = "cancel"
    /\ cancelled' = [cancelled EXCEPT ![join[c]] = TRUE]
    /\ GoTo(c, "join")
    /\ UNCHANGED <<op, state, cur, held, req, join,
                   rpc, helpers, fatal, reaper, sinkVars>>

(* Mutant of Joined: stopLoops does not wait.                               *)
NotJoined(c) == TRUE

(* ... and waits for done.                                                  *)
Joined(c) == rpc[join[c]] = "done"
Join(c) ==
    /\ cpc[c] = "join" /\ Joined(c)
    /\ join' = [join EXCEPT ![c] = None]
    /\ GoTo(c, "display")
    /\ UNCHANGED <<op, state, cur, held, req, runVars, sinkVars>>

(* Start: Display.Acquire does nothing when the display is held already.    *)
Acquire(c) ==
    /\ cpc[c] = "display" /\ req[c] = "start"
    /\ held' = TRUE
    /\ GoTo(c, "publish")
    /\ UNCHANGED <<op, state, cur, req, join, runVars, sinkVars>>

(* Otherwise it may be refused, and Start returns the error.                *)
AcquireFails(c) ==
    /\ cpc[c] = "display" /\ req[c] = "start" /\ ~held
    /\ state' = "error"
    /\ op' = None
    /\ GoTo(c, "out")
    /\ UNCHANGED <<cur, held, req, join, runVars, sinkVars>>

(* Start publishes the new run and spawns it.                               *)
Publish(c, r) ==
    /\ cpc[c] = "publish" /\ req[c] = "start" /\ r \in Unused
    /\ state' = "waiting"
    /\ cur' = r
    /\ rpc' = [rpc EXCEPT ![r] = "begin"]
    /\ helpers' = [helpers EXCEPT ![r] = TRUE]
    /\ op' = None
    /\ GoTo(c, "out")
    /\ UNCHANGED <<held, req, join, cancelled, fatal, reaper, sinkVars>>

(* Stop gives the display back, then says so.                               *)
Release(c) ==
    /\ cpc[c] = "display" /\ req[c] = "stop"
    /\ held' = FALSE
    /\ GoTo(c, "publish")
    /\ UNCHANGED <<op, state, cur, req, join, runVars, sinkVars>>

SetIdle(c) ==
    /\ cpc[c] = "publish" /\ req[c] = "stop"
    /\ state' = "idle"
    /\ op' = None
    /\ GoTo(c, "out")
    /\ UNCHANGED <<cur, held, req, join, runVars, sinkVars>>

-----------------------------------------------------------------------------
(* decodeLoop.                                                              *)

RunTo(r, place) == rpc' = [rpc EXCEPT ![r] = place]

(* decodeLoop returns: its deferred video.Stop has run, and run cancels the *)
(* helpers.                                                                 *)
Leave(r, isFatal) ==
    /\ RunTo(r, "drain")
    /\ cancelled' = [cancelled EXCEPT ![r] = TRUE]
    /\ fatal' = [fatal EXCEPT ![r] = isFatal]
    /\ sink' = [sink EXCEPT ![r] = "off"]
    /\ picture' = [picture EXCEPT ![r] = "none"]
    /\ UNCHANGED <<helpers, reaper>>

GiveUp(r) == Leave(r, TRUE) /\ UNCHANGED <<recent, stale, blacked>>

Keep == UNCHANGED <<op, state, cur, held, callVars>>

(* Black at the output's own size; when the mode cannot be read the first   *)
(* frame starts the output instead.                                         *)
Begin(r) ==
    /\ rpc[r] = "begin"
    /\ \/ /\ RunTo(r, "loop")
          /\ UNCHANGED <<helpers, cancelled, fatal, reaper, sinkVars>>
       \/ /\ RunTo(r, "loop")
          /\ sink' = [sink EXCEPT ![r] = "up"]
          /\ picture' = [picture EXCEPT ![r] = "black"]
          /\ UNCHANGED <<helpers, cancelled, fatal, reaper, recent, stale, blacked>>
       \/ GiveUp(r)
    /\ Keep

(* Mutant of RestartForFailure: failed sinks are forgiven for ever.         *)
RestartAlways(r) ==
    /\ recent' = [recent EXCEPT ![r] = @ + 1]
    /\ sink' = [sink EXCEPT ![r] = "up"]

(* The loop's restart closure called with a reason: it counts.              *)
RestartForFailure(r) ==
    /\ recent[r] < Budget
    /\ recent' = [recent EXCEPT ![r] = @ + 1]
    /\ sink' = [sink EXCEPT ![r] = "up"]

(* The select chose ctx.Done.                                               *)
SeeCancel(r) ==
    /\ rpc[r] = "loop" /\ cancelled[r]
    /\ Leave(r, FALSE)
    /\ UNCHANGED <<recent, stale, blacked>> /\ Keep

(* A tick: a sink that died by itself is restarted, with black on it.  Then,*)
(* with no frame for 2 s, live becomes waiting and the screen goes black    *)
(* unless the last frame is to be held.                                     *)
Lost(r) == stale[r] /\ ~HoldOnLoss /\ ~blacked[r]

(* Mutant of Waited: the state is left as it is.                            *)
NeverWaited(r) == state

Waited(r) == IF stale[r] /\ state = "live" THEN "waiting" ELSE state

Tick(r) ==
    /\ rpc[r] = "loop"
    /\ sink[r] = "broken" \/ stale[r]
    /\ \/ /\ sink[r] = "broken" /\ GiveUp(r)
          /\ UNCHANGED state
       \/ /\ IF sink[r] = "broken" THEN RestartForFailure(r) ELSE UNCHANGED <<sink, recent>>
          /\ state' = Waited(r)
          /\ blacked' = [blacked EXCEPT ![r] = @ \/ Lost(r)]
          /\ picture' = [picture EXCEPT ![r] =
                            IF sink[r] = "broken" \/ Lost(r) THEN "black" ELSE @]
          /\ UNCHANGED <<runVars, stale>>
    /\ UNCHANGED <<op, cur, held, callVars>>

(* A frame of another size than the sink's restarts the sink; that does not *)
(* count.  The frame then goes on to Submit, or does not decode.            *)
Resize(r) ==
    /\ rpc[r] = "loop"
    /\ \/ /\ sink' = [sink EXCEPT ![r] = "up"]
          /\ picture' = [picture EXCEPT ![r] = "none"]
          /\ \E next \in {"loop", "submit"} : RunTo(r, next)
          /\ UNCHANGED <<helpers, cancelled, fatal, reaper, recent, stale, blacked>>
       \/ GiveUp(r)
    /\ Keep

(* A decoded frame is submitted; the sink may make the loop wait.           *)
Submit(r) ==
    /\ rpc[r] = "loop" /\ sink[r] # "off"
    /\ RunTo(r, "submit")
    /\ UNCHANGED <<helpers, cancelled, fatal, reaper, sinkVars>> /\ Keep

(* Submit succeeded: the frame is shown and a waiting session is live.      *)
Shown(r) ==
    /\ rpc[r] = "submit"
    /\ picture' = [picture EXCEPT ![r] = "frame"]
    /\ stale' = [stale EXCEPT ![r] = FALSE]
    /\ blacked' = [blacked EXCEPT ![r] = FALSE]
    /\ state' = IF state = "waiting" THEN "live" ELSE state
    /\ RunTo(r, "loop")
    /\ UNCHANGED <<op, cur, held, callVars, helpers, cancelled, fatal, reaper,
                   sink, recent>>

(* Submit failed: the sink is restarted and the frame is lost.              *)
SubmitFails(r) ==
    /\ rpc[r] = "submit" /\ sink[r] = "broken"
    /\ \/ /\ RestartForFailure(r)
          /\ picture' = [picture EXCEPT ![r] = "none"]
          /\ RunTo(r, "loop")
          /\ UNCHANGED <<helpers, cancelled, fatal, reaper, stale, blacked>>
       \/ GiveUp(r)
    /\ Keep

-----------------------------------------------------------------------------
(* run, once decodeLoop has returned, and the reaper.                       *)

(* The receiver and the audio loop see the cancelled context and return.    *)
HelpersReturn(r) ==
    /\ helpers[r] /\ cancelled[r]
    /\ helpers' = [helpers EXCEPT ![r] = FALSE]
    /\ UNCHANGED <<rpc, cancelled, fatal, reaper, sinkVars>> /\ Keep

Drained(r) ==
    /\ rpc[r] = "drain" /\ ~helpers[r]
    /\ RunTo(r, IF fatal[r] THEN "fail" ELSE "done")
    /\ UNCHANGED <<helpers, cancelled, fatal, reaper, sinkVars>> /\ Keep

(* Mutant of Fail: no reaper.                                               *)
FailOnly(r) ==
    /\ rpc[r] = "fail"
    /\ state' = "error"
    /\ RunTo(r, "close")
    /\ UNCHANGED <<op, cur, held, callVars, helpers, cancelled, fatal, reaper, sinkVars>>

(* A fatal output error: fail, and leave the display to the reaper.         *)
Fail(r) ==
    /\ rpc[r] = "fail"
    /\ state' = "error"
    /\ reaper' = [reaper EXCEPT ![r] = "lock"]
    /\ RunTo(r, "close")
    /\ UNCHANGED <<op, cur, held, callVars, helpers, cancelled, fatal, sinkVars>>

Close(r) ==
    /\ rpc[r] = "close"
    /\ RunTo(r, "done")
    /\ UNCHANGED <<helpers, cancelled, fatal, reaper, sinkVars>> /\ Keep

(* Mutant of Mine: the reaper does not look.                                *)
Anyones(r) == TRUE

(* The reaper holds op and looks whether its run is still the current one.  *)
Mine(r) == cur = r
ReaperLock(r) ==
    /\ reaper[r] = "lock" /\ op = None
    /\ op' = r
    /\ IF Mine(r)
       THEN cur' = None /\ reaper' = [reaper EXCEPT ![r] = "release"]
       ELSE UNCHANGED cur /\ reaper' = [reaper EXCEPT ![r] = "skip"]
    /\ UNCHANGED <<state, held, callVars, rpc, helpers, cancelled, fatal, sinkVars>>

ReaperDone(r) ==
    /\ reaper[r] \in {"release", "skip"}
    /\ held' = IF reaper[r] = "release" THEN FALSE ELSE held
    /\ reaper' = [reaper EXCEPT ![r] = "gone"]
    /\ op' = None
    /\ UNCHANGED <<state, cur, callVars, rpc, helpers, cancelled, fatal, sinkVars>>

-----------------------------------------------------------------------------
(* The world: gst-launch dies, the source falls silent, time passes.        *)

SinkBreaks(r) ==
    /\ rpc[r] \in {"loop", "submit"} /\ sink[r] = "up"
    /\ sink' = [sink EXCEPT ![r] = "broken"]
    /\ UNCHANGED <<runVars, recent, picture, stale, blacked>> /\ Keep

Silence(r) ==
    /\ rpc[r] = "loop" /\ picture[r] = "frame" /\ ~stale[r]
    /\ stale' = [stale EXCEPT ![r] = TRUE]
    /\ UNCHANGED <<runVars, sink, recent, picture, blacked>> /\ Keep

Forget(r) ==
    /\ rpc[r] \in {"loop", "submit"} /\ recent[r] > 0
    /\ recent' = [recent EXCEPT ![r] = @ - 1]
    /\ UNCHANGED <<runVars, sink, picture, stale, blacked>> /\ Keep

-----------------------------------------------------------------------------
StartStop(c) ==
    \/ Lock(c) \/ Detach(c) \/ Cancel(c) \/ Join(c)
    \/ Acquire(c) \/ AcquireFails(c) \/ (\E r \in Runs : Publish(c, r))
    \/ Release(c) \/ SetIdle(c)

Decode(r) ==
    \/ Begin(r) \/ SeeCancel(r) \/ Tick(r)
    \/ Resize(r) \/ Submit(r) \/ Shown(r) \/ SubmitFails(r)

Supervise(r) ==
    \/ HelpersReturn(r) \/ Drained(r) \/ Fail(r) \/ Close(r)
    \/ ReaperLock(r) \/ ReaperDone(r)

World(r) == SinkBreaks(r) \/ Silence(r) \/ Forget(r)

Next ==
    \/ \E c \in Callers : StartStop(c) \/ \E what \in {"start", "stop"} : Call(c, what)
    \/ \E r \in Runs : Decode(r) \/ Supervise(r) \/ World(r)

(* Goroutines that can run do run.  sync.Mutex hands over to a goroutine    *)
(* that has waited 1 ms (its starvation mode), and select picks among ready *)
(* channels at random, so neither a waiter for op nor ctx.Done is passed    *)
(* over for ever.  A run takes each of the steps in a disjunction at most   *)
(* once, so fairness to the disjunction is fairness to each.                *)
Goroutines ==
    /\ \A c \in Callers :
         /\ SF_vars(Lock(c))
         /\ WF_vars(StartStop(c) /\ cpc[c] # "lock")
    /\ \A r \in Runs :
         /\ SF_vars(SeeCancel(r) \/ ReaperLock(r))
         /\ WF_vars(\/ Begin(r) \/ HelpersReturn(r) \/ Drained(r)
                    \/ Fail(r) \/ Close(r) \/ ReaperDone(r))

(* A Submit that waits for the sink is answered: gst-launch reads its pipe  *)
(* or dies.                                                                 *)
PipeMoves == \A r \in Runs : WF_vars(Shown(r) \/ SubmitFails(r))

(* The 500 ms ticker comes round and is not passed over for ever.           *)
Ticker == \A r \in Runs : SF_vars(Tick(r))

Spec == Init /\ [][Next]_vars
FairSpec == Spec /\ Goroutines /\ PipeMoves /\ Ticker

-----------------------------------------------------------------------------
(* Why it works: the inductive invariant behind the properties below.       *)

(* Everything of a run that still matters to the display.                   *)
Busy(r) == rpc[r] \in Decoding \cup {"drain", "fail"}

(* op has one owner, and it is the one whose code is between Lock and       *)
(* Unlock.                                                                  *)
MutexInv ==
    /\ \A c \in Callers : cpc[c] \in Locked <=> op = c
    /\ \A r \in Runs : reaper[r] \in {"release", "skip"} <=> op = r

(* A caller past Detach has taken the current run with it, and waits for it *)
(* only until it is done.                                                   *)
DetachInv ==
    \A c \in Callers :
        /\ cpc[c] \in Locked \ {"detach"} => cur = None
        /\ join[c] # None <=> cpc[c] \in {"cancel", "join"}

(* A busy run is the current one, or one a caller waits for; its helpers do *)
(* not outlive it; its reaper comes only after its last act.                *)
BusyInv ==
    \A r \in Runs :
        /\ Busy(r) => cur = r \/ \E c \in Callers : join[c] = r
        /\ helpers[r] => rpc[r] \in Decoding \cup {"drain"}
        /\ reaper[r] # "none" => rpc[r] \in {"close", "done"}
        /\ reaper[r] = "release" => cur = None

(* The display is held for the current run, for one that is being joined    *)
(* and for one about to be spawned.                                         *)
HeldInv ==
    /\ cur # None => held
    /\ \A c \in Callers :
         /\ join[c] # None => held
         /\ cpc[c] = "publish" => (held <=> req[c] = "start")

(* state, whenever nobody is on the way to change it; and a fatal run that  *)
(* is still current has said so.                                            *)
StateInv ==
    /\ (\A c \in Callers : cpc[c] \notin Locked) /\ (\A r \in Runs : reaper[r] # "release")
         => /\ state = "idle" => cur = None
            /\ state \in {"waiting", "live"} => cur # None
            /\ held => cur # None
    /\ \A r \in Runs :
         /\ reaper[r] = "lock" /\ cur = r => state = "error"
         /\ reaper[r] = "release" => state = "error"

IndInv == TypeOK /\ MutexInv /\ DetachInv /\ BusyInv /\ HeldInv /\ StateInv

-----------------------------------------------------------------------------
(* Properties.                                                              *)

(* session.go 11-15: nothing of ours drives the output unless the display   *)
(* is held, across every interleaving of Start, Stop, a fatal error and its *)
(* late reaper.                                                             *)
DrawsOnlyWhenHeld == \A r \in Runs : Using(r) => held

(* One run at a time drives the output: Start never spawns a run while the  *)
(* loops of another are still going.                                        *)
OneRunDraws == \A r, q \in Runs : Using(r) /\ Using(q) => r = q

(* Whenever nobody is inside Start or Stop, what the session says matches   *)
(* what it holds: idle has no run and no display, waiting and live have     *)
(* both, and the display is held only by a current run.                     *)
SettledState ==
    op = None =>
        /\ state = "idle" => cur = None /\ ~held
        /\ state \in {"waiting", "live"} => cur # None /\ held
        /\ held => cur # None

(* While a current run exists, only a frame of that run makes the session   *)
(* live: a late frame of the previous source never does.                    *)
LiveByItsOwnFrame ==
    [][state # "live" /\ state' = "live" /\ cur # None
         => rpc[cur] = "submit" /\ rpc'[cur] = "loop"]_vars

(* The handover promise: the display is given back only when no loop of     *)
(* ours uses it, and taken before one does.                                 *)
Promise == INSTANCE Handover WITH Users <- Runs, using <- {r \in Runs : Using(r)}
HandoverKept == Promise!Spec

(* Every Start and Stop returns, whoever else calls and whatever fails; what *)
(* it leaves behind, SettledState says.                                     *)
CallsReturn == \A c \in Callers : cpc[c] = "lock" ~> cpc[c] = "out"

(* "error: something stopped the session; PPApp has HDMI back": a session   *)
(* in error gives the display back, unless a Start takes over.              *)
ErrorGivesBack == state = "error" ~> (~held \/ state # "error")

(* A source that stays silent does not stay live.                           *)
SilenceEndsLive ==
    \A r \in Runs : (cur = r /\ stale[r]) ~> (state # "live" \/ cur # r \/ ~stale[r])
=============================================================================
