------------------------------- MODULE OmtApi -------------------------------
(***************************************************************************)
(* bdomt's API and start-up (omt/serve.go, config.go, main.go): what it    *)
(* keeps in config.json against what the session shows.  A handler saves   *)
(* and then calls the session, in two steps with no lock over both, and    *)
(* after a start a goroutine puts the saved source back some time later.   *)
(*                                                                         *)
(* The session is taken from OmtSession: op serialises Start and Stop,     *)
(* stopLoops comes first, a run may end by itself and is reaped.           *)
(***************************************************************************)
CONSTANTS Handlers,     (* requests served side by side                     *)
          Boot,         (* the goroutine that resumes after a start         *)
          Sources, NoSource, Settings,
          MayFail,      (* of "save" and "display", what may fail           *)
          MayRestart,   (* bdomt may be killed, or the power may go         *)
          OneByOne      (* a request comes when nothing else is under way   *)

Actors == Handlers \cup {Boot}

ASSUME ApiAssumption ==
    /\ Boot \notin Handlers /\ NoSource \notin Sources /\ NoSource \notin Actors
    /\ Sources # {} /\ Settings # {}
    /\ MayFail \subseteq {"save", "display"}
    /\ MayRestart \in BOOLEAN /\ OneByOne \in BOOLEAN

VARIABLES
    config,     (* config.json                                              *)
    sess,       (* Session.src and settings, and whether rx is set          *)
    loops,      (* its loops run: something is shown                        *)
    held,       (* Display.held                                             *)
    op,         (* who holds the session's op, NoSource for nobody          *)
    pc, job,    (* each actor's place, and what it will start               *)
    asked       (* the source last asked for, or that a Stop is on record   *)

vars == <<config, sess, loops, held, op, pc, job, asked>>

Config == [source : Sources \cup {NoSource}, onAir : BOOLEAN, resume : BOOLEAN, set : Settings]
Job    == [kind : {"show", "stop", "config", "resume"}, source : Sources \cup {NoSource},
           set : Settings]
Places == {"out", "current", "wait", "lock", "display", "undo"}

TypeOK ==
    /\ config \in Config
    /\ sess \in [running : BOOLEAN, source : Sources \cup {NoSource}, set : Settings]
    /\ loops \in BOOLEAN /\ held \in BOOLEAN
    /\ op \in Actors \cup {NoSource}
    /\ pc \in [Actors -> Places] /\ job \in [Actors -> Job]
    /\ asked \in Sources \cup {NoSource}

DefaultConfig == [source |-> NoSource, onAir |-> FALSE, resume |-> TRUE,
                  set |-> CHOOSE s \in Settings : TRUE]

NoSession == [running |-> FALSE, source |-> NoSource, set |-> DefaultConfig.set]
Idle      == [kind |-> "stop", source |-> NoSource, set |-> DefaultConfig.set]

Init ==
    /\ config = DefaultConfig /\ sess = NoSession
    /\ loops = FALSE /\ held = FALSE /\ op = NoSource
    /\ pc = [a \in Actors |-> "out"] /\ job = [a \in Actors |-> Idle]
    /\ asked = NoSource

-----------------------------------------------------------------------------
Quiet == \A a \in Actors : pc[a] = "out"

GoTo(a, place) == pc' = [pc EXCEPT ![a] = place]

Arrives(h) == h \in Handlers /\ pc[h] = "out" /\ (OneByOne => Quiet)

NotSaved == "save" \in MayFail /\ UNCHANGED config

(* A save that fails ends the request here.                                 *)
Show(h, s) ==
    /\ Arrives(h)
    /\ config' = [config EXCEPT !.source = s, !.onAir = TRUE]
    /\ job' = [job EXCEPT ![h] = [kind |-> "show", source |-> s, set |-> config.set]]
    /\ asked' = s
    /\ GoTo(h, "lock")
    /\ UNCHANGED <<sess, loops, held, op>>

(* Mutant of Stop: OnAir is left alone.                                     *)
StopOnly(h) ==
    /\ Arrives(h)
    /\ asked' = NoSource /\ job' = [job EXCEPT ![h].kind = "stop"]
    /\ GoTo(h, "lock")
    /\ UNCHANGED <<config, sess, loops, held, op>>

(* A save that fails is logged, and the session stops all the same.         *)
Stop(h) ==
    /\ Arrives(h)
    /\ \/ config' = [config EXCEPT !.onAir = FALSE] /\ asked' = NoSource
       \/ NotSaved /\ UNCHANGED asked
    /\ job' = [job EXCEPT ![h].kind = "stop"]
    /\ GoTo(h, "lock")
    /\ UNCHANGED <<sess, loops, held, op>>

SaveSettings(h, set, resume) ==
    /\ Arrives(h)
    /\ config' = [config EXCEPT !.set = set, !.resume = resume]
    /\ job' = [job EXCEPT ![h] = [Idle EXCEPT !.kind = "config", !.set = set]]
    /\ GoTo(h, "current")
    /\ UNCHANGED <<sess, loops, held, op, asked>>

(* Mutant of Current: new settings wait for the next Show.                  *)
NoRestart(h) ==
    /\ pc[h] = "current" /\ GoTo(h, "out")
    /\ UNCHANGED <<config, sess, loops, held, op, asked, job>>

(* Mutant of Current: its two results are taken in the wrong order.         *)
SwappedResults(h) ==
    /\ pc[h] = "current"
    /\ job' = [job EXCEPT ![h].source = sess.running]
    /\ GoTo(h, IF sess.running THEN "lock" ELSE "out")
    /\ UNCHANGED <<config, sess, loops, held, op, asked>>

(* Session.Current, and a restart of what it says.                          *)
Current(h) ==
    /\ pc[h] = "current"
    /\ job' = [job EXCEPT ![h].source = sess.source]
    /\ GoTo(h, IF sess.running THEN "lock" ELSE "out")
    /\ UNCHANGED <<config, sess, loops, held, op, asked>>

-----------------------------------------------------------------------------
(* The session: op, stopLoops, then Acquire and a new run, or Release.      *)
Lock(a) ==
    /\ pc[a] = "lock" /\ op = NoSource
    /\ op' = a
    /\ sess' = [sess EXCEPT !.running = FALSE] /\ loops' = FALSE
    /\ GoTo(a, "display")
    /\ UNCHANGED <<config, held, asked, job>>

Started(a) ==
    /\ pc[a] = "display" /\ job[a].kind # "stop"
    /\ sess' = [running |-> TRUE, source |-> job[a].source, set |-> job[a].set]
    /\ loops' = TRUE /\ held' = TRUE /\ op' = NoSource
    /\ GoTo(a, "out")
    /\ UNCHANGED <<config, asked, job>>

(* Acquire fails, which it does not when the display is held already.       *)
NotStarted(a) ==
    /\ pc[a] = "display" /\ job[a].kind # "stop"
    /\ ~held /\ "display" \in MayFail
    /\ op' = NoSource
    /\ GoTo(a, IF job[a].kind = "show" THEN "undo" ELSE "out")
    /\ UNCHANGED <<config, sess, loops, held, asked, job>>

Undo(a) ==
    /\ pc[a] = "undo"
    /\ config' = [config EXCEPT !.onAir = FALSE] \/ NotSaved
    /\ GoTo(a, "out")
    /\ UNCHANGED <<sess, loops, held, op, asked, job>>

Stopped(a) ==
    /\ pc[a] = "display" /\ job[a].kind = "stop"
    /\ held' = FALSE /\ op' = NoSource
    /\ GoTo(a, "out")
    /\ UNCHANGED <<config, sess, loops, asked, job>>

(* A run ends by itself when HDMI keeps failing, and its reaper follows.    *)
Fails ==
    /\ sess.running /\ loops /\ loops' = FALSE
    /\ UNCHANGED <<config, sess, held, op, pc, asked, job>>

Reaped ==
    /\ sess.running /\ ~loops /\ op = NoSource
    /\ sess' = [sess EXCEPT !.running = FALSE] /\ held' = FALSE
    /\ UNCHANGED <<config, loops, op, pc, asked, job>>

-----------------------------------------------------------------------------
(* bdomt starts: requests, session and display are gone, config.json stays. *)
Resumes == config.onAir /\ config.resume /\ config.source # NoSource

Restart ==
    /\ MayRestart
    /\ sess' = NoSession /\ loops' = FALSE /\ held' = FALSE /\ op' = NoSource
    /\ pc' = [a \in Actors |-> IF a = Boot /\ Resumes THEN "wait" ELSE "out"]
    /\ job' = [a \in Actors |->
                  IF a = Boot /\ Resumes
                  THEN [kind |-> "resume", source |-> config.source, set |-> config.set]
                  ELSE Idle]
    /\ UNCHANGED <<config, asked>>

(* resume waits up to a minute for PPApp and three seconds more, and starts *)
(* what was saved when bdomt started, or leaves it.                         *)
Resume ==
    /\ pc[Boot] = "wait"
    /\ GoTo(Boot, "lock") \/ GoTo(Boot, "out")
    /\ UNCHANGED <<config, sess, loops, held, op, asked, job>>

Next ==
    \/ \E h \in Handlers :
        \/ \E s \in Sources : Show(h, s)
        \/ Stop(h)
        \/ \E set \in Settings, resume \in BOOLEAN : SaveSettings(h, set, resume)
        \/ Current(h)
    \/ \E a \in Actors : Lock(a) \/ Started(a) \/ NotStarted(a) \/ Undo(a) \/ Stopped(a)
    \/ Fails \/ Reaped \/ Restart \/ Resume

Spec == Init /\ [][Next]_vars

-----------------------------------------------------------------------------
(* What is on HDMI is on record, with the settings it has: a power cut      *)
(* brings back what was showing, and nothing that was not.                  *)
RecordIsTrue ==
    Quiet /\ sess.running =>
        config.onAir /\ config.source = sess.source /\ config.set = sess.set

(* A session that runs while nothing is being done has the settings of the  *)
(* record: saving them restarts it.                                         *)
SettingsTaken == Quiet /\ sess.running => config.set = sess.set

(* Once a Stop is on record nothing is shown until the next Show, whatever  *)
(* is saved, resumed or restarted meanwhile.                                *)
StopSticks == Quiet /\ asked = NoSource => ~sess.running

-----------------------------------------------------------------------------
(* What RecordIsTrue and StopSticks rest on: whoever is on the way to the   *)
(* session carries what the record says, and nobody else is.                *)
Carries(a) ==
    pc[a] \in {"wait", "lock", "display"} /\ job[a].kind # "stop" =>
        config.onAir /\ config.source = job[a].source /\ config.set = job[a].set

RecordInv ==
    OneByOne =>
        /\ \A a, b \in Actors : pc[a] # "out" /\ pc[b] # "out" => a = b
        /\ config.onAir => asked # NoSource
        /\ \A a \in Actors :
            /\ Carries(a)
            /\ pc[a] = "current" => job[a].kind = "config" /\ config.set = job[a].set
            /\ pc[a] \in {"wait", "display", "undo"} => ~sess.running
            /\ pc[a] = "wait" => job[a].kind = "resume"
        /\ sess.running /\ (\A a \in Actors : pc[a] \in {"out", "current"}) =>
            config.onAir /\ config.source = sess.source
        /\ RecordIsTrue
=============================================================================
