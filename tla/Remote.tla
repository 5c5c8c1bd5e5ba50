------------------------------- MODULE Remote --------------------------------
(***************************************************************************)
(* The TV-remote session of bdplay (player/remote.go) around the player:   *)
(* the on-screen browser, the loop that owns a session, the keys and       *)
(* events posted to it, and the handlers of the API and the menu trigger   *)
(* that enter it, leave it, or call the player themselves (player/api.go,  *)
(* player/main.go).                                                        *)
(*                                                                         *)
(* A playback generation is compared with the current one only, so an      *)
(* event or a hook is kept as fresh or stale.  What the browser lists and  *)
(* the CEC adapter are modules of their own.                               *)
(***************************************************************************)
EXTENDS Player, Sequences, FiniteSets

CONSTANTS Web,       (* goroutines of the API's handlers and of the storage
                        watch                                                *)
          Menus,     (* goroutines of the menu trigger                       *)
          Loops,     (* identities of sessions and their loops               *)
          NoLoop,
          Ops,       (* what the handlers are asked for                      *)
          Keys,      (* the keys pressed                                     *)
          KeyRoom,   (* capacity of the key queue                            *)
          EventRoom, (* capacity of the event queue                          *)
          Backlog,   (* the most events that wait when a key is pressed or a
                        handler posts another                                *)
          Intrudes   (* a handler may call the player during a session       *)

ASSUME RemoteAssumption ==
    /\ Threads = Web \cup Menus \cup Loops /\ NoLoop \notin Loops
    /\ (Web \cup Menus) \cap Loops = {}
    /\ Ops \subseteq {"play", "exit and stop", "eject", "enter", "exit", "refresh"}
    /\ Keys \subseteq {"ok", "back", "red"}
    /\ KeyRoom \in Nat \ {0} /\ EventRoom \in Nat \ {0}
    /\ Backlog \in 0..EventRoom /\ Intrudes \in BOOLEAN

VARIABLES
    active, browsing, (* Remote.active; its state, while active: browsing or
                         playing                                             *)
    session, (* the session last entered                                     *)
    asked,   (* whether each session's stop channel is closed                *)
    loop,    (* where each session's loop is                                 *)
    osd,     (* the browser's pipeline is on the screen                      *)
    hook,    (* Player.onDone: none, or what the event it posts says         *)
    events, keys,
    armed,   (* the menu trigger is armed                                    *)
    at       (* where each handler is, and the session it waits for          *)

remoteVars == <<active, browsing, session, asked, loop, osd, hook, events,
                keys, armed, at>>
vars == <<playerVars, remoteVars>>

Callers == Web \cup Menus
Places  == {"idle", "play", "post", "exit", "exit and stop", "exited", "stop", "suspend", "hold",
            "quiet", "screen", "unhold", "abandon", "resume"}
LoopPlaces == {"none", "select", "starting", "browser", "replaying",
               "screen off", "left", "unhold", "resume"}
Events == {"fresh", "stale", "library", "play"}

TypeOK ==
    /\ PlayerTypeOK
    /\ active \in BOOLEAN /\ browsing \in BOOLEAN
    /\ session \in Loops \cup {NoLoop}
    /\ asked \in [Loops -> BOOLEAN] /\ loop \in [Loops -> LoopPlaces]
    /\ osd \in BOOLEAN /\ hook \in {"none", "fresh", "stale"}
    /\ events \in Seq(Events) /\ Len(events) <= EventRoom
    /\ keys \in Seq(Keys) /\ Len(keys) <= KeyRoom
    /\ armed \in BOOLEAN
    /\ at \in [Callers -> [pc: Places, of: Loops \cup {NoLoop}]]

Init ==
    /\ PlayerInit
    /\ active = FALSE /\ browsing = FALSE /\ session = NoLoop
    /\ asked = [l \in Loops |-> FALSE] /\ loop = [l \in Loops |-> "none"]
    /\ osd = FALSE /\ hook = "none" /\ events = <<>> /\ keys = <<>>
    /\ armed = TRUE
    /\ at = [c \in Callers |-> [pc |-> "idle", of |-> NoLoop]]

-----------------------------------------------------------------------------
At(c, pc)      == at[c].pc = pc /\ call[c].pc = "out"
GoTo(c, pc)    == at' = [at EXCEPT ![c].pc = pc]
Home(c)        == at' = [at EXCEPT ![c] = [pc |-> "idle", of |-> NoLoop]]
LoopTo(l, pc)  == loop' = [loop EXCEPT ![l] = pc]
Returned(t)    == call[t].pc = "returned"
Posted(e)      == events' = IF Len(events) < EventRoom THEN Append(events, e) ELSE events

(* Mutant of NewGeneration: the hook is made before the generation moves.   *)
HookFirst(h, q) ==
    /\ hook' = IF h = "fresh" THEN "stale" ELSE h
    /\ events' = [i \in DOMAIN q |-> IF q[i] = "fresh" THEN "stale" ELSE q[i]]

NewGeneration(h, q) ==
    /\ hook' = h
    /\ events' = [i \in DOMAIN q |-> IF q[i] = "fresh" THEN "stale" ELSE q[i]]

(* doneCh of a session is closed: who waits for it goes on.                 *)
DoneClosed(l, now) == [c \in Callers |->
    IF now[c].pc \in {"exit", "exit and stop"} /\ now[c].of = l
    THEN [pc |-> IF now[c].pc = "exit" THEN "idle" ELSE "exited", of |-> NoLoop]
    ELSE now[c]]

Session == <<active, browsing, session, asked, loop, armed>>
Queues  == <<events, keys>>

(* No handler is entering a session and none is being left.                 *)
Between == ~active /\ \A l \in Loops : loop[l] = "none"
Mine(c) == ~Intrudes => Between /\ \A d \in Callers \ {c} : at[d].pc = "idle"

-----------------------------------------------------------------------------
(* The handlers.                                                            *)

(* /api/play, and autoplay: inside a session it is posted to the loop.      *)
AskPlay(c) ==
    /\ "play" \in Ops /\ At(c, "idle") /\ c \in Web
    /\ \/ active /\ GoTo(c, "post") /\ UNCHANGED playerVars
       \/ ~active /\ Mine(c) /\ GoTo(c, "play") /\ Calls(c, TRUE)
          /\ UNCHANGED <<held, pinned, runner, gaveUp, play, current, state>>
    /\ UNCHANGED <<Session, osd, hook, Queues>>

(* It waits 2 s for room.                                                   *)
Post(c) ==
    /\ At(c, "post")
    /\ IF Len(events) <= Backlog THEN Posted("play") ELSE UNCHANGED events
    /\ Home(c)
    /\ UNCHANGED <<playerVars, Session, osd, hook, keys>>

(* /api/eject, and autoplay when the stick is gone.                         *)
AskEject(c) ==
    /\ "eject" \in Ops /\ At(c, "idle") /\ c \in Web /\ Mine(c)
    /\ GoTo(c, "stop") /\ Calls(c, FALSE)
    /\ UNCHANGED <<held, pinned, runner, gaveUp, play, current, state, Session, osd, hook, Queues>>

(* Exit, for itself or first in /api/stop and at shutdown.  Its own limit of
   60 s is longer than what the session waits for on its way out.           *)
AskExit(c) ==
    /\ At(c, "idle") /\ c \in Web /\ active
    /\ \E op \in Ops \cap {"exit", "exit and stop"} :
         at' = [at EXCEPT ![c] = [pc |-> op, of |-> session]]
    /\ asked' = [asked EXCEPT ![session] = TRUE]
    /\ UNCHANGED <<playerVars, active, browsing, session, loop, armed, osd, hook, Queues>>

AskStop(c) ==
    /\ \/ "exit and stop" \in Ops /\ c \in Web /\ At(c, "idle") /\ ~active
       \/ At(c, "exited")
    /\ Mine(c) /\ GoTo(c, "stop") /\ Calls(c, FALSE)
    /\ UNCHANGED <<held, pinned, runner, gaveUp, play, current, state, Session, osd, hook, Queues>>

(* The call on the player returns, and the handler with it.                 *)
Answered(c) ==
    /\ at[c].pc \in {"play", "stop"} /\ call[c].pc \in {"returned", "failed"}
    /\ Back(c) /\ Home(c)
    /\ UNCHANGED <<held, pinned, runner, gaveUp, play, current, state, Session, osd, hook, Queues>>

(* From the TV or the API; and the stick changes.                           *)
PressKey ==
    /\ active /\ Len(events) <= Backlog
    /\ \E k \in Keys : Len(keys) < KeyRoom /\ keys' = Append(keys, k)
    /\ UNCHANGED <<playerVars, Session, osd, hook, events, at>>

Refresh ==
    /\ "refresh" \in Ops /\ active /\ Len(events) <= Backlog
    /\ Posted("library")
    /\ UNCHANGED <<playerVars, Session, osd, hook, keys, at>>

-----------------------------------------------------------------------------
(* Enter, step by step.                                                     *)

Idle(l) == loop[l] = "none" /\ \A c \in Callers : at[c].of # l

Enter(c) ==
    /\ At(c, "idle") /\ ~active
    /\ IF c \in Menus THEN armed ELSE "enter" \in Ops
    /\ ~Intrudes => \A d \in Callers : at[d].pc \notin {"play", "stop"}
    /\ \E l \in Loops : Idle(l)
    /\ LET l == CHOOSE k \in Loops : Idle(k) IN
         /\ session' = l
         /\ asked' = [asked EXCEPT ![l] = FALSE]
         /\ at' = [at EXCEPT ![c] = [pc |-> "suspend", of |-> l]]
    /\ active' = TRUE /\ browsing' = TRUE
    /\ UNCHANGED <<playerVars, loop, armed, osd, hook, Queues>>

Suspend(c) ==
    /\ At(c, "suspend")
    /\ armed' = FALSE /\ GoTo(c, "hold")
    /\ UNCHANGED <<playerVars, active, browsing, session, asked, loop, osd, hook, Queues>>

Hold(c) ==
    /\ At(c, "hold") /\ DisplayFree
    /\ \/ Held /\ GoTo(c, "quiet")
       \/ NotAcquired /\ UNCHANGED pinned /\ GoTo(c, "abandon")
    /\ UNCHANGED <<play, current, state, call, Session, osd, hook, Queues>>

(* Whatever the web had going stops; nobody is told.                        *)
Hush(c) ==
    /\ At(c, "quiet")
    /\ hook' = "none" /\ Calls(c, FALSE) /\ GoTo(c, "screen")
    /\ UNCHANGED <<held, pinned, runner, gaveUp, play, current, state, Session, osd, Queues>>

(* The queues are drained, the browser comes up, and the loop runs.         *)
Browse(c) ==
    /\ at[c].pc = "screen" /\ Returned(c) /\ Back(c)
    /\ \/ /\ osd' = TRUE /\ LoopTo(at[c].of, "select") /\ Home(c)
          /\ events' = <<>> /\ keys' = <<>>
       \/ GoTo(c, "unhold") /\ UNCHANGED <<osd, loop, Queues>>
    /\ UNCHANGED <<held, pinned, runner, gaveUp, play, current, state, active, browsing, session,
                   asked, armed, hook>>

Undo(c) ==
    /\ At(c, "unhold") /\ DisplayFree
    /\ Unheld /\ GoTo(c, "abandon")
    /\ UNCHANGED <<play, current, state, call, Session, osd, hook, Queues>>

Abandon(c) ==
    /\ At(c, "abandon")
    /\ active' = FALSE /\ browsing' = FALSE /\ GoTo(c, "resume")
    /\ UNCHANGED <<playerVars, session, asked, loop, armed, osd, hook, Queues>>

Resume(c) ==
    /\ At(c, "resume")
    /\ armed' = TRUE
    /\ at' = DoneClosed(at[c].of, [at EXCEPT ![c] = [pc |-> "idle", of |-> NoLoop]])
    /\ UNCHANGED <<playerVars, active, browsing, session, asked, loop, osd, hook, Queues>>

CallerSteps(c) ==
    \/ AskPlay(c) \/ Post(c) \/ AskEject(c) \/ AskExit(c) \/ AskStop(c)
    \/ Answered(c) \/ Enter(c) \/ Suspend(c) \/ Hold(c) \/ Hush(c) \/ Browse(c)
    \/ Undo(c) \/ Abandon(c) \/ Resume(c)

-----------------------------------------------------------------------------
(* The loop of a session.                                                   *)

LoopAt(l, pc) == loop[l] = pc /\ call[l].pc = "out"

(* startPlayback: the browser leaves the screen, then Start.  q is what is
   left of the events.                                                      *)
StartsPlaying(l, q) ==
    /\ osd' = FALSE
    /\ NewGeneration("fresh", q)
    /\ Calls(l, TRUE) /\ LoopTo(l, "starting")

(* stopPlayback, then what comes after it.                                  *)
StopsPlaying(l, q, then) ==
    /\ NewGeneration("none", q)
    /\ Calls(l, FALSE) /\ LoopTo(l, then)
    /\ UNCHANGED osd

Unmoved  == UNCHANGED <<held, pinned, runner, gaveUp, play, current, state, active, browsing,
                        session, asked, armed, at>>
Stays(l) == UNCHANGED <<osd, hook, events, call, loop>>

(* Select on a folder, and back below the root, only move in the list.      *)
BrowsingKey(l, k) ==
    \/ k = "ok" /\ StartsPlaying(l, events)
    \/ k # "red" /\ Stays(l)
    \/ k # "ok" /\ LoopTo(l, "screen off") /\ UNCHANGED <<osd, hook, events, call>>

PlayingKey(l, k) ==
    \/ k = "back" /\ StopsPlaying(l, events, "browser")
    \/ k = "red" /\ StopsPlaying(l, events, "screen off")
    \/ k = "ok" /\ Stays(l)

HandleKey(l) ==
    /\ LoopAt(l, "select") /\ keys # <<>>
    /\ keys' = Tail(keys)
    /\ IF browsing THEN BrowsingKey(l, Head(keys)) ELSE PlayingKey(l, Head(keys))
    /\ Unmoved

(* Mutant of Current: the generation of a finish is not looked at.          *)
AnyFinish(e) == e \in {"fresh", "stale"}

Current(e) == e = "fresh"

HandleEvent(l) ==
    /\ LoopAt(l, "select") /\ events # <<>>
    /\ LET e == Head(events)
           q == Tail(events) IN
       \/ e = "play" /\ browsing /\ StartsPlaying(l, q)
       \/ e = "play" /\ ~browsing /\ StopsPlaying(l, q, "replaying")
       \/ /\ e # "play" /\ events' = q
          /\ LoopTo(l, IF Current(e) /\ ~browsing THEN "browser" ELSE "select")
          /\ UNCHANGED <<hook, call, osd>>
    /\ UNCHANGED keys /\ Unmoved

Replay(l) ==
    /\ loop[l] = "replaying" /\ Returned(l)
    /\ StartsPlaying(l, events)
    /\ UNCHANGED keys /\ Unmoved

Started(l) ==
    /\ loop[l] = "starting" /\ Back(l)
    /\ \/ Returned(l) /\ browsing' = FALSE /\ LoopTo(l, "select")
       \/ call[l].pc = "failed" /\ LoopTo(l, "browser") /\ UNCHANGED browsing
    /\ UNCHANGED <<held, pinned, runner, gaveUp, play, current, state, active, session, asked,
                   armed, osd, hook, Queues, at>>

(* backToBrowser: a browser that does not come up is only logged.           *)
BackToBrowser(l) ==
    /\ loop[l] = "browser" /\ call[l].pc \in {"out", "returned"} /\ Back(l)
    /\ browsing' = TRUE /\ osd' \in {osd, TRUE}
    /\ LoopTo(l, "select")
    /\ UNCHANGED <<held, pinned, runner, gaveUp, play, current, state, active, session, asked,
                   armed, hook, Queues, at>>

(* Mutant of SeeAsked: only the browser looks whether it is to leave.       *)
SeeAskedBrowsing(l) ==
    /\ LoopAt(l, "select") /\ asked[l] /\ browsing
    /\ LoopTo(l, "screen off") /\ UNCHANGED <<osd, hook, events, call>>
    /\ UNCHANGED keys /\ Unmoved

SeeAsked(l) ==
    /\ LoopAt(l, "select") /\ asked[l]
    /\ IF browsing THEN LoopTo(l, "screen off") /\ UNCHANGED <<osd, hook, events, call>>
       ELSE StopsPlaying(l, events, "screen off")
    /\ UNCHANGED keys /\ Unmoved

(* finish: the browser and the CEC adapter go, the decoder's source is put
   back; then the session is over for everybody else; then the display.     *)
ScreenOff(l) ==
    /\ loop[l] = "screen off" /\ call[l].pc \in {"out", "returned"} /\ Back(l)
    /\ osd' = FALSE /\ LoopTo(l, "left")
    /\ UNCHANGED <<held, pinned, runner, gaveUp, play, current, state, active, browsing, session,
                   asked, armed, hook, Queues, at>>

Leave(l) ==
    /\ loop[l] = "left" /\ active' = FALSE /\ browsing' = FALSE
    /\ LoopTo(l, "unhold")
    /\ UNCHANGED <<playerVars, session, asked, armed, osd, hook, Queues, at>>

Unhold(l) ==
    /\ loop[l] = "unhold" /\ DisplayFree /\ Unheld /\ LoopTo(l, "resume")
    /\ UNCHANGED <<play, current, state, call, active, browsing, session, asked,
                   armed, osd, hook, Queues, at>>

Rearm(l) ==
    /\ loop[l] = "resume" /\ armed' = TRUE /\ LoopTo(l, "none")
    /\ at' = DoneClosed(l, at)
    /\ UNCHANGED <<playerVars, active, browsing, session, asked, osd, hook, Queues>>

LoopSteps(l) ==
    \/ HandleKey(l) \/ HandleEvent(l) \/ Replay(l) \/ Started(l) \/ BackToBrowser(l)
    \/ SeeAsked(l) \/ ScreenOff(l) \/ Leave(l) \/ Unhold(l) \/ Rearm(l)

-----------------------------------------------------------------------------
(* The browser's pipeline exits by itself; a playback ends with its hook,
   which drops what it has to say when the queue is full.                   *)
OsdExits ==
    /\ osd /\ osd' = FALSE
    /\ UNCHANGED <<playerVars, Session, hook, Queues, at>>

Hook(p) ==
    /\ Hooked(p)
    /\ IF hook = "none" THEN UNCHANGED events ELSE Posted(hook)
    /\ UNCHANGED <<Session, osd, hook, keys, at>>

Runs(p) == Hook(p) \/ (PlaySteps(p) /\ UNCHANGED remoteVars)
Inside(t) == CallSteps(t) /\ UNCHANGED remoteVars

Next ==
    \/ \E c \in Callers : CallerSteps(c)
    \/ \E t \in Threads : Inside(t)
    \/ \E l \in Loops : LoopSteps(l)
    \/ \E p \in Plays : Runs(p)
    \/ PressKey \/ Refresh \/ OsdExits \/ (OwnerStarts /\ UNCHANGED remoteVars)

Spec == Init /\ [][Next]_vars

-----------------------------------------------------------------------------
(* Two kmssinks never drive the display at once: not two playbacks, and not
   a playback and the browser (screen.go: only one kmssink can drive the
   display at a time).  The browser's pipeline, the player's and whoever
   starts them are ordered by waits only: Stop's for the playback, the
   loop's for Stop, a handler's for the session.                            *)
OneDraws == Cardinality({p \in Plays : Drawing(p)}) + (IF osd THEN 1 ELSE 0) <= 1

(* What draws has the display: PPApp is not started under it, neither by
   the end of an earlier playback nor by the end of a session.              *)
DrawsOnlyWhenHeld == osd \/ (\E p \in Plays : Drawing(p)) => held

(* Whoever draws does so alone, and on a display that is held for it.        *)
OneDrawsAndHolds == OneDraws /\ DrawsOnlyWhenHeld

(* A session that has been entered keeps its pin until it leaves, and the
   last one to leave drops it: once no session, no playback and no call is
   left, bdplay draws nothing, holds nothing and the menu's trigger is armed,
   whichever of the steps failed on the way; and BirdDogRunner, whose PPApp
   shows the decoder's picture, runs again.  There are two failures after
   which it does not, and bdplay then has no display to give back: PPApp
   outlived the stop by 10 s (display.go:108, which returns at 125), or the
   start failed (display.go:146).                                           *)
Settled ==
    /\ Between /\ \A p \in Plays : ~Alive(p)
    /\ \A c \in Callers : at[c].pc = "idle"
HandsBack ==
    Settled => ~held /\ pinned = 0 /\ armed /\ ~osd /\ (runner = "runs" \/ gaveUp)

-----------------------------------------------------------------------------
(* What runs goes on, what is asked for is asked by somebody: a playback
   that is told to stop, the calls, the loop.                               *)
Fairness ==
    /\ \A t \in Threads : WF_vars(call[t].pc # "out" /\ Inside(t))
    /\ \A c \in Callers : WF_vars(at[c].pc # "idle" /\ CallerSteps(c))
    /\ \A l \in Loops : /\ WF_vars(loop[l] # "none" /\ LoopSteps(l))
                        /\ SF_vars(SeeAsked(l)) /\ SF_vars(HandleEvent(l))
    /\ \A p \in Plays : WF_vars(Alive(p) /\ (Drawing(p) => play[p].stop) /\ Runs(p))

FairSpec == Spec /\ Fairness

(* A session whose stop channel is closed ends, with whatever is playing,
   being entered or started at the time, and PPApp gets HDMI back from it.  *)
AskedLeaves == \A l \in Loops : asked[l] ~> ~asked[l] \/ loop[l] = "none"

(* The end of a playlist brings the browser back, if nothing else does: a
   finish event is neither lost between its posting and the loop's note
   that it is playing, nor taken for that of an earlier playback.           *)
PlayEndsInBrowser ==
    active /\ ~browsing /\ (\A p \in Plays : ~Alive(p)) ~> browsing \/ ~active \/ \E p \in Plays : Alive(p)

(* A session goes on where it should: it leaves when it is told to, and is
   back in the browser when a playback has ended.                           *)
SessionGoesOn == AskedLeaves /\ PlayEndsInBrowser
=============================================================================
