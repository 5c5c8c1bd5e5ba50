------------------------------- MODULE Player --------------------------------
(***************************************************************************)
(* bdplay's player (player/player.go) and the display it takes from PPApp  *)
(* (player/display.go).  Whoever calls Start or Stop is a thread; a        *)
(* playback is a goroutine of its own.  The display's mutex is held for    *)
(* the whole of each of its operations: each is one step, but for the end  *)
(* of a playback, which may take longer to see PPApp up again than a Stop  *)
(* waits for it.                                                           *)
(*                                                                         *)
(* A playback's identity is recycled once nothing refers to it any more.   *)
(***************************************************************************)
EXTENDS Naturals

CONSTANTS Threads,     (* who may call the player                            *)
          Plays,       (* identities of playback goroutines                  *)
          NoPlay,      (* none of them                                       *)
          Limit,       (* failures in a row at which a playback gives up     *)
          Outlasts     (* of "restoring" and "render": where a playback may
                          be for longer than the 15 s a Stop waits           *)

ASSUME PlayerAssumption ==
    /\ NoPlay \notin Plays /\ Limit \in Nat \ {0}
    /\ Outlasts \subseteq {"restoring", "render"}

VARIABLES
    held,    (* Display.held                                                 *)
    pinned,  (* Display.pinned                                               *)
    runner,  (* BirdDogRunner "runs", or is stopped: it is "ours" to start
                again (Display.wasActive), or "left" stopped                 *)
    gaveUp,  (* history: bdplay left BirdDogRunner stopped, because PPApp had
                outlived the stop by 10 s or because the start failed        *)
    play,    (* every playback: where it is, whether its stop channel is
                closed, its failures in a row                                *)
    current, (* the playback whose stopCh and doneCh the player has          *)
    state,   (* Player.state                                                 *)
    call     (* every thread's call of Start or Stop: where it is, which of
                the two, the playback it waits for                           *)

playerVars == <<held, pinned, runner, gaveUp, play, current, state, call>>

PlayPlaces == {"top", "render", "page", "draw", "drawPage", "pause",
               "end", "release", "restoring", "over"}
CallPlaces == {"out", "take", "wait", "acquire", "publish", "returned", "failed"}

PlayerTypeOK ==
    /\ held \in BOOLEAN /\ pinned \in Nat
    /\ runner \in {"runs", "ours", "left"} /\ gaveUp \in BOOLEAN
    /\ play \in [Plays -> [pc: PlayPlaces, stop: BOOLEAN, fails: 0..Limit]]
    /\ current \in Plays \cup {NoPlay}
    /\ state \in {"idle", "playing", "error"}
    /\ call \in [Threads -> [pc: CallPlaces, start: BOOLEAN, of: Plays \cup {NoPlay}]]

Fresh == [pc |-> "over", stop |-> FALSE, fails |-> 0]

PlayerInit ==
    /\ held = FALSE /\ pinned = 0 /\ runner = "runs" /\ gaveUp = FALSE
    /\ play = [p \in Plays |-> Fresh]
    /\ current = NoPlay /\ state = "idle"
    /\ call = [t \in Threads |-> [pc |-> "out", start |-> FALSE, of |-> NoPlay]]

Alive(p)   == play[p].pc # "over"
Drawing(p) == play[p].pc \in {"draw", "drawPage"}

-----------------------------------------------------------------------------
(* The display, as updates of held and pinned and of BirdDogRunner.         *)

DisplayFree == \A p \in Plays : play[p].pc # "restoring"

(* restoreLocked, but for held: what was stopped is started, or the start
   fails, which is logged and not tried again.                              *)
Restart ==
    IF held /\ runner = "ours"
    THEN \/ runner' = "runs" /\ gaveUp' = FALSE
         \/ runner' = "left" /\ gaveUp' = TRUE
    ELSE UNCHANGED <<runner, gaveUp>>

(* Mutants of Released and of Unheld: the end of a playlist forgets the
   pins, and the pin of a session is never dropped.                         *)
ReleasedThrough == held' = FALSE /\ Restart /\ UNCHANGED pinned
UnheldNever     == UNCHANGED <<held, pinned, runner, gaveUp>>

AcquireOk ==
    /\ held' = TRUE
    /\ runner' = IF ~held /\ runner = "runs" THEN "ours" ELSE runner
    /\ UNCHANGED gaveUp
Held      == AcquireOk /\ pinned' = pinned + 1
Released  == /\ held' = (held /\ pinned > 0) /\ UNCHANGED pinned
             /\ IF pinned > 0 THEN UNCHANGED <<runner, gaveUp>> ELSE Restart
Unheld    == IF pinned = 0 THEN UNCHANGED <<held, pinned, runner, gaveUp>>
             ELSE /\ pinned' = pinned - 1
                  /\ held' = (held /\ pinned > 1)
                  /\ IF pinned > 1 THEN UNCHANGED <<runner, gaveUp>> ELSE Restart

(* acquireLocked fails, at systemctl stop or because PPApp is still there
   10 s after it; then restoreLocked returns at once, since held is FALSE,
   and BirdDogRunner, stopped by now, is nobody's to start.                 *)
NotAcquired ==
    /\ ~held /\ UNCHANGED held
    /\ \/ UNCHANGED <<runner, gaveUp>>
       \/ runner = "runs" /\ runner' = "left" /\ gaveUp' = TRUE

(* The owner, told by the log, starts it.                                   *)
OwnerStarts ==
    /\ ~held /\ runner = "left" /\ runner' = "runs" /\ gaveUp' = FALSE
    /\ UNCHANGED <<held, pinned, play, current, state, call>>

-----------------------------------------------------------------------------
(* Start and Stop, one step at a time.                                      *)

Calls(t, starts) == call' = [call EXCEPT ![t] = [pc |-> "take", start |-> starts, of |-> NoPlay]]
GoOn(t, pc)      == call' = [call EXCEPT ![t].pc = pc]
Back(t)          == call' = [call EXCEPT ![t] = [pc |-> "out", start |-> FALSE, of |-> NoPlay]]
AfterStop(t)     == IF call[t].start THEN "acquire" ELSE "returned"

(* Mutant of Take: the playback is left to find out by itself.              *)
TakeOnly(t) ==
    /\ call[t].pc = "take"
    /\ current' = NoPlay
    /\ GoOn(t, AfterStop(t))
    /\ play' = [p \in Plays |-> [play[p] EXCEPT !.stop = @ \/ p = current]]
    /\ UNCHANGED <<held, pinned, runner, gaveUp, state>>

(* Stop takes the channels, so that nobody else waits for this playback,
   and closes its stop channel.                                             *)
Take(t) ==
    /\ call[t].pc = "take"
    /\ current' = NoPlay
    /\ IF current = NoPlay
       THEN GoOn(t, AfterStop(t)) /\ UNCHANGED play
       ELSE /\ call' = [call EXCEPT ![t].pc = "wait", ![t].of = current]
            /\ play' = [play EXCEPT ![current].stop = TRUE]
    /\ UNCHANGED <<held, pinned, runner, gaveUp, state>>

(* The playback is over, or 15 s have passed: idle either way.              *)
Waited(t) ==
    /\ call[t].pc = "wait"
    /\ LET p == call[t].of IN play[p].pc \in Outlasts \cup {"over"}
    /\ state' = "idle"
    /\ call' = [call EXCEPT ![t].pc = AfterStop(t), ![t].of = NoPlay]
    /\ UNCHANGED <<held, pinned, runner, gaveUp, play, current>>

(* The display is bdplay's already, or is taken, or cannot be.              *)
Acquire(t) ==
    /\ call[t].pc = "acquire" /\ DisplayFree
    /\ \/ AcquireOk /\ GoOn(t, "publish") /\ UNCHANGED state
       \/ NotAcquired /\ GoOn(t, "failed") /\ state' = "error"
    /\ UNCHANGED <<pinned, play, current>>

Unused(p) == /\ ~Alive(p) /\ p # current
             /\ \A t \in Threads : call[t].of # p

Publish(t) ==
    /\ call[t].pc = "publish" /\ \E q \in Plays : Unused(q)
    /\ LET p == CHOOSE q \in Plays : Unused(q) IN
         /\ play' = [play EXCEPT ![p] = [Fresh EXCEPT !.pc = "top"]]
         /\ current' = p
    /\ state' = "playing"
    /\ GoOn(t, "returned")
    /\ UNCHANGED <<held, pinned, runner, gaveUp>>

CallSteps(t) == Take(t) \/ Waited(t) \/ Acquire(t) \/ Publish(t)

-----------------------------------------------------------------------------
(* The playback goroutine.                                                  *)

To(p, pc) == play' = [play EXCEPT ![p].pc = pc]
Quiet     == UNCHANGED <<held, pinned, runner, gaveUp, current, call>>

(* The loop looks at its stop channel, then takes the next item: none is
   left, a document to be rendered, or something to be drawn at once.       *)
Top(p) ==
    /\ play[p].pc = "top"
    /\ \/ play[p].stop /\ To(p, "end") /\ UNCHANGED state
       \/ ~play[p].stop /\ To(p, "end") /\ state' = "idle"
       \/ ~play[p].stop /\ \E pc \in {"render", "draw"} : To(p, pc) /\ UNCHANGED state
    /\ Quiet

(* A document's pages are drawn one by one; rendering never looks at stop.  *)
Rendered(p) == play[p].pc = "render" /\ To(p, "page") /\ UNCHANGED state /\ Quiet

Page(p) ==
    /\ play[p].pc = "page"
    /\ To(p, IF play[p].stop THEN "end" ELSE "drawPage")
    /\ UNCHANGED state /\ Quiet

(* A pipeline that was told to stop is waited for before the run returns.   *)
Stopped(p) == Drawing(p) /\ play[p].stop /\ To(p, "end") /\ UNCHANGED state /\ Quiet

(* One that ends by itself, after its dwell or for Next, leads on.          *)
Played(p) ==
    /\ Drawing(p)
    /\ \E pc \in IF play[p].pc = "drawPage" THEN {"top", "page"} ELSE {"top"} :
         play' = [play EXCEPT ![p].pc = pc, ![p].fails = IF pc = "top" THEN 0 ELSE @]
    /\ UNCHANGED state /\ Quiet

Fails(p) ==
    /\ Drawing(p) \/ play[p].pc = "render"
    /\ LET n == play[p].fails + 1 IN
       /\ play' = [play EXCEPT ![p].pc = IF n >= Limit THEN "end" ELSE "pause",
                               ![p].fails = n]
       /\ state' = IF n >= Limit THEN "error" ELSE state
    /\ Quiet

Paused(p) ==
    /\ play[p].pc = "pause"
    /\ To(p, IF play[p].stop THEN "end" ELSE "top")
    /\ UNCHANGED state /\ Quiet

(* Its deferred calls: the hook (whoever installed it says what it does),
   then the display, then doneCh.                                           *)
Hooked(p) == play[p].pc = "end" /\ To(p, "release") /\ UNCHANGED state /\ Quiet

Release(p) ==
    /\ play[p].pc = "release" /\ DisplayFree
    /\ Released
    /\ play' = [play EXCEPT ![p] = IF held /\ pinned = 0
                                   THEN [@ EXCEPT !.pc = "restoring"] ELSE Fresh]
    /\ UNCHANGED <<current, call, state>>

Restored(p) ==
    /\ play[p].pc = "restoring"
    /\ play' = [play EXCEPT ![p] = Fresh]
    /\ UNCHANGED state /\ Quiet

PlaySteps(p) == \/ Top(p) \/ Rendered(p) \/ Page(p) \/ Stopped(p) \/ Played(p)
                \/ Fails(p) \/ Paused(p) \/ Release(p)
                \/ Restored(p)
=============================================================================
