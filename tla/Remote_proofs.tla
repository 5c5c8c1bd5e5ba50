----------------------------- MODULE Remote_proofs -----------------------------
(***************************************************************************)
(* Proofs about the TV-remote session around the player: for any number of *)
(* handlers, sessions and playbacks, what draws does so alone and on a     *)
(* display that is held, and the display goes back.                        *)
(***************************************************************************)
EXTENDS Remote, FiniteSetTheorems, SequenceTheorems, TLAPS

-----------------------------------------------------------------------------
(* The inductive invariant.                                                 *)

Entering == {"suspend", "hold", "quiet", "screen", "unhold", "abandon"}
Running  == {"select", "starting", "browser", "replaying", "screen off", "left"}
Asking   == {"play", "stop"}

(* A playback that may yet draw is not past, one that holds a channel of the
   player's is going on.                                                    *)
Past(p)   == play[p].pc \in {"release", "restoring", "over"}
Going(p)  == play[p].pc \notin {"restoring", "over"}
AllPast   == \A p \in Plays : Past(p)
HasFresh  == \E i \in 1..Len(events) : events[i] = "fresh"

AtTypes   == at \in [Callers -> [pc : Places, of : Loops \cup {NoLoop}]]
CallTypes == call \in [Threads -> [pc : CallPlaces, start : BOOLEAN, of : Plays \cup {NoPlay}]]
PlayTypes == play \in [Plays -> [pc : PlayPlaces, stop : BOOLEAN, fails : Nat]]
LoopTypes == loop \in [Loops -> LoopPlaces]
QueueTypes == events \in Seq(Events) /\ hook \in {"none", "fresh", "stale"}

RemoteTypes ==
  /\ AtTypes /\ CallTypes /\ PlayTypes /\ LoopTypes /\ QueueTypes
  /\ pinned \in Nat /\ current \in Plays \cup {NoPlay} /\ session \in Loops \cup {NoLoop}

(* Whoever enters or runs the session is alone in it, and a handler that is
   not inside calls the player while there is none.                         *)
RunsIt   == \A l \in Loops : loop[l] \in Running => active /\ session = l
EntersIt == \A c \in Callers : at[c].pc \in Entering =>
  /\ active /\ browsing /\ at[c].of = session /\ \A l \in Loops : loop[l] \notin Running
  /\ \A d \in Callers : at[d].pc \in Entering => d = c
OwnsIt   == \A c \in Callers : at[c].pc \in Entering \cup {"resume"} =>
  /\ at[c].of \in Loops /\ loop[at[c].of] = "none"
  /\ \A d \in Callers : at[d].pc \in Entering \cup {"resume"} /\ at[d].of = at[c].of => d = c
AsksAlone == \A c \in Callers : at[c].pc \in Asking =>
  Between /\ \A d \in Callers \ {c} : at[d].pc = "idle"

Owners == RunsIt /\ EntersIt /\ OwnsIt /\ AsksAlone

Calling ==
  /\ \A c \in Callers : call[c].pc # "out" =>
       at[c].pc \in Asking \cup {"screen"} /\ (call[c].start <=> at[c].pc = "play")
  /\ \A l \in Loops : call[l].pc # "out" =>
       /\ loop[l] \in {"starting", "browser", "replaying", "screen off"}
       /\ call[l].start <=> loop[l] = "starting"
  /\ \A t \in Threads : call[t].pc \in {"acquire", "publish", "failed"} => call[t].start

(* A playback that goes on is the player's, or is waited for.               *)
IsKnown == \A p \in Plays : Going(p) =>
  p = current \/ \E t \in Threads : call[t].pc = "wait" /\ call[t].of = p
Awaits  == \A t \in Threads : call[t].pc = "wait" => call[t].of \in Plays
Taken(t) == \/ call[t].pc \in {"wait", "acquire", "publish", "failed"}
            \/ call[t].pc = "returned" /\ ~call[t].start

Playing == IsKnown /\ Awaits /\ \A t \in Threads : Taken(t) => current = NoPlay

(* The browser is up only where every playback is past drawing.             *)
LoopScreen(l) ==
  /\ loop[l] \in {"starting", "replaying", "left"} => ~osd
  /\ loop[l] = "select" /\ ~browsing => ~osd /\ (HasFresh => AllPast)
  /\ loop[l] = "select" /\ browsing => AllPast
  /\ loop[l] = "starting" => call[l].pc # "out" /\ (HasFresh => AllPast)
  /\ loop[l] = "starting" /\ call[l].pc # "returned" => AllPast /\ ~HasFresh
  /\ loop[l] \in {"browser", "screen off"} /\ call[l].pc = "out" => AllPast
  /\ loop[l] = "left" => AllPast

Screens ==
  /\ osd => AllPast /\ \E l \in Loops : loop[l] \in Running
  /\ \A l \in Loops : LoopScreen(l)

PinnedBy == {c \in Callers : at[c].pc \in {"quiet", "screen", "unhold"}}
            \cup {l \in Loops : loop[l] \in Running \cup {"unhold"}}

(* Every pin is a session's, and what draws, or is about to, has the display. *)
Pins ==
  /\ IsFiniteSet(PinnedBy) /\ pinned = Cardinality(PinnedBy)
  /\ pinned > 0 => held
  /\ \A p \in Plays : ~Past(p) => held
  /\ \A t \in Threads : call[t].pc = "publish" => held
  /\ held => pinned > 0 \/ (\E p \in Plays : Going(p)) \/ \E t \in Threads : call[t].pc = "publish"
  /\ \A l \in Loops : loop[l] = "unhold" => AllPast \/ \E k \in Loops : loop[k] \in Running
  /\ \A c \in Callers : at[c].pc = "unhold" => AllPast

Arming ==
  ~armed => \/ \E c \in Callers : at[c].pc \in {"hold", "quiet", "screen", "unhold", "abandon", "resume"}
            \/ \E l \in Loops : loop[l] # "none"

RemoteInv == RemoteTypes /\ Owners /\ Calling /\ Playing /\ Screens /\ Pins /\ Arming

-----------------------------------------------------------------------------
(* Sequences of events.                                                     *)

Aged(q) == [i \in DOMAIN q |-> IF q[i] = "fresh" THEN "stale" ELSE q[i]]

LEMMA AgedIsSeq ==
  ASSUME NEW q \in Seq(Events)
  PROVE  /\ Aged(q) \in Seq(Events) /\ Len(Aged(q)) = Len(q)
         /\ \A i \in 1..Len(q) : Aged(q)[i] # "fresh"
  <1>1. Len(q) \in Nat /\ DOMAIN q = 1..Len(q) /\ \A i \in 1..Len(q) : q[i] \in Events
    BY LenProperties, ElementOfSeq
  <1>2. Aged(q) = [i \in 1..Len(q) |-> IF q[i] = "fresh" THEN "stale" ELSE q[i]]
    BY <1>1 DEF Aged
  <1>3. \A i \in 1..Len(q) : (IF q[i] = "fresh" THEN "stale" ELSE q[i]) \in Events
    BY <1>1 DEF Events
  <1>4. Aged(q) \in [1..Len(q) -> Events]
    BY <1>2, <1>3
  <1>5. Aged(q) \in Seq(Events)
    BY <1>1, <1>4, SeqDef
  <1>6. Len(Aged(q)) = Len(q)
    BY <1>1, <1>2, <1>5, LenProperties
  <1>7. \A i \in 1..Len(q) : Aged(q)[i] = IF q[i] = "fresh" THEN "stale" ELSE q[i]
    BY <1>2
  <1> QED BY <1>5, <1>6, <1>7

(* What a queue may become: shorter by its head, longer by one, or aged.    *)
LEMMA TailIsSeq ==
  ASSUME NEW q \in Seq(Events), q # <<>>
  PROVE  /\ Head(q) \in Events /\ Tail(q) \in Seq(Events) /\ Len(q) \in Nat /\ 1 \in 1..Len(q)
         /\ Head(q) = q[1]
         /\ \A i \in 1..Len(Tail(q)) : Tail(q)[i] = q[i + 1] /\ i + 1 \in 1..Len(q)
  BY HeadTailProperties, LenProperties, EmptySeq

LEMMA PostedIsSeq ==
  ASSUME events \in Seq(Events), NEW e \in Events, Posted(e)
  PROVE  /\ events' \in Seq(Events)
         /\ \A i \in 1..Len(events') : (i \in 1..Len(events) /\ events'[i] = events[i]) \/ events'[i] = e
  <1>1. CASE events' = events
    BY <1>1
  <1>2. CASE events' = Append(events, e)
    BY <1>2, AppendProperties, LenProperties
  <1> QED BY <1>1, <1>2 DEF Posted

(* What each change of the queue does to the finishes that are current.     *)
LEMMA AgedQueue ==
  ASSUME NEW q \in Seq(Events), NEW h, NewGeneration(h, q)
  PROVE  events' \in Seq(Events) /\ ~HasFresh' /\ hook' = h
  <1>1. events' = Aged(q) /\ hook' = h
    BY DEF NewGeneration, Aged
  <1> QED BY <1>1, AgedIsSeq DEF HasFresh

LEMMA PoppedQueue ==
  ASSUME events \in Seq(Events), events # <<>>
  PROVE  /\ Tail(events) \in Seq(Events)
         /\ Head(events) = "fresh" => HasFresh
         /\ events' = Tail(events) /\ HasFresh' => HasFresh
  BY TailIsSeq DEF HasFresh

LEMMA PostedQueue ==
  ASSUME events \in Seq(Events), NEW e \in Events, Posted(e)
  PROVE  events' \in Seq(Events) /\ (e # "fresh" /\ HasFresh' => HasFresh)
  BY PostedIsSeq DEF HasFresh

-----------------------------------------------------------------------------
(* What the invariant says of threads and playbacks.                        *)

LEMMA ThreadsAre == Threads = Callers \cup Loops /\ Callers \cap Loops = {} /\ NoLoop \notin Loops
                    /\ NoPlay \notin Plays
  BY RemoteAssumption, PlayerAssumption DEF Callers

(* At most one call of the player is out.                                   *)
LEMMA OneCall ==
  ASSUME Owners, Calling, NEW t \in Threads, NEW u \in Threads,
         call[t].pc # "out", call[u].pc # "out"
  PROVE  t = u
  <1> USE ThreadsAre
  <1>1. ASSUME NEW c \in Callers, NEW l \in Loops, call[c].pc # "out", call[l].pc # "out"
        PROVE  FALSE
    <2>1. loop[l] \in Running /\ loop[l] # "none"
      BY <1>1 DEF Calling, Running
    <2>2. at[c].pc \in Asking \cup {"screen"}
      BY <1>1 DEF Calling
    <2>3. at[c].pc \notin Asking
      BY <2>1 DEF Owners, RunsIt, EntersIt, OwnsIt, AsksAlone, Between
    <2>4. at[c].pc \in Entering
      BY <2>2, <2>3 DEF Entering
    <2> QED BY <2>1, <2>4 DEF Owners, RunsIt, EntersIt, OwnsIt, AsksAlone
  <1>2. ASSUME NEW c \in Callers, NEW d \in Callers, call[c].pc # "out", call[d].pc # "out"
        PROVE  c = d
    <2>1. at[c].pc \in Asking \cup {"screen"} /\ at[d].pc \in Asking \cup {"screen"}
      BY <1>2 DEF Calling
    <2>2. CASE at[c].pc \in Asking \/ at[d].pc \in Asking
      BY <2>1, <2>2 DEF Owners, RunsIt, EntersIt, OwnsIt, AsksAlone, Asking
    <2>3. CASE at[c].pc = "screen" /\ at[d].pc = "screen"
      BY <2>3 DEF Owners, RunsIt, EntersIt, OwnsIt, AsksAlone, Entering
    <2> QED BY <2>1, <2>2, <2>3
  <1>3. ASSUME NEW k \in Loops, NEW l \in Loops, call[k].pc # "out", call[l].pc # "out"
        PROVE  k = l
    BY <1>3 DEF Calling, Owners, RunsIt, Running
  <1> QED BY <1>1, <1>2, <1>3

(* At most one playback goes on, and none once the player was stopped.      *)
LEMMA OneGoing ==
  ASSUME Owners, Calling, Playing, NEW p \in Plays, NEW q \in Plays, Going(p), Going(q)
  PROVE  p = q
  <1>1. CASE p = current
    <2>1. ~\E t \in Threads : call[t].pc = "wait"
      BY <1>1, ThreadsAre DEF Playing, IsKnown, Awaits, Taken
    <2> QED BY <1>1, <2>1 DEF Playing, IsKnown, Awaits, Taken
  <1>2. CASE p # current
    <2>1. PICK t \in Threads : call[t].pc = "wait" /\ call[t].of = p
      BY <1>2 DEF Playing, IsKnown, Awaits, Taken
    <2>2. current = NoPlay
      BY <2>1 DEF Playing, IsKnown, Awaits, Taken
    <2>3. PICK u \in Threads : call[u].pc = "wait" /\ call[u].of = q
      BY <2>2, ThreadsAre DEF Playing, IsKnown, Awaits, Taken
    <2>4. t = u
      BY <2>1, <2>3, OneCall
    <2> QED BY <2>1, <2>3, <2>4
  <1> QED BY <1>1, <1>2

LEMMA NoneGoing ==
  ASSUME Owners, Calling, Playing, NEW t \in Threads,
         \/ call[t].pc \in {"acquire", "publish", "failed"}
         \/ call[t].pc = "returned" /\ ~call[t].start
  PROVE  AllPast /\ current = NoPlay /\ \A p \in Plays : ~Going(p)
  <1>1. current = NoPlay
    BY DEF Playing, IsKnown, Awaits, Taken
  <1>2. \A p \in Plays : ~Going(p)
    <2> SUFFICES ASSUME NEW p \in Plays, Going(p) PROVE FALSE
      OBVIOUS
    <2>1. PICK u \in Threads : call[u].pc = "wait" /\ call[u].of = p
      BY <1>1, ThreadsAre DEF Playing, IsKnown, Awaits, Taken
    <2>2. u = t
      BY <2>1, OneCall
    <2> QED BY <2>1, <2>2
  <1> QED BY <1>1, <1>2 DEF AllPast, Past, Going

(* Only one loop runs, and no handler enters or calls the player meanwhile. *)
LEMMA RunsAlone ==
  ASSUME Owners, Calling, NEW l \in Loops, loop[l] \in Running
  PROVE  /\ active /\ session = l
         /\ \A k \in Loops \ {l} : loop[k] \notin Running
         /\ \A c \in Callers : at[c].pc \notin Entering \cup Asking /\ call[c].pc = "out"
  <1>1. active /\ session = l /\ \A k \in Loops \ {l} : loop[k] \notin Running
    BY DEF Owners, RunsIt, EntersIt, OwnsIt, AsksAlone
  <1>2. \A c \in Callers : at[c].pc \notin Entering \cup Asking
    BY <1>1 DEF Owners, RunsIt, EntersIt, OwnsIt, AsksAlone, Between
  <1>3. \A c \in Callers : call[c].pc = "out"
    BY <1>2 DEF Calling, Entering
  <1> QED BY <1>1, <1>2, <1>3

-----------------------------------------------------------------------------
(* What an update does, pointwise.                                          *)

AtIs(c, pc, l) ==
  /\ at'[c].pc = pc /\ at'[c].of = l /\ \A d \in Callers \ {c} : at'[d] = at[d]

CallIs(t, pc, starts, p) ==
  /\ call'[t].pc = pc /\ (call'[t].start <=> starts) /\ call'[t].of = p
  /\ \A u \in Threads \ {t} : call'[u] = call[u]

LoopIs(l, pc) == loop'[l] = pc /\ \A k \in Loops \ {l} : loop'[k] = loop[k]

PlayIs(p, pc) == play'[p].pc = pc /\ \A q \in Plays \ {p} : play'[q] = play[q]

LEMMA AtPut ==
  ASSUME AtTypes, NEW c \in Callers, NEW r \in [pc : Places, of : Loops \cup {NoLoop}],
         at' = [at EXCEPT ![c] = r]
  PROVE  AtTypes' /\ AtIs(c, r.pc, r.of)
  BY DEF AtTypes, AtIs

LEMMA AtMoves ==
  ASSUME AtTypes, NEW c \in Callers, NEW pc \in Places, NEW l \in Loops \cup {NoLoop}
  PROVE  /\ GoTo(c, pc) => AtTypes' /\ AtIs(c, pc, at[c].of)
         /\ at' = [at EXCEPT ![c] = [pc |-> pc, of |-> l]] => AtTypes' /\ AtIs(c, pc, l)
         /\ Home(c) => AtTypes' /\ AtIs(c, "idle", NoLoop)
  <1> USE DEF AtTypes, AtIs, Places
  <1>1. GoTo(c, pc) => AtTypes' /\ AtIs(c, pc, at[c].of)
    BY DEF GoTo
  <1>2. at' = [at EXCEPT ![c] = [pc |-> pc, of |-> l]] => AtTypes' /\ AtIs(c, pc, l)
    <2> DEFINE r == [pc |-> pc, of |-> l]
    <2>1. r \in [pc : Places, of : Loops \cup {NoLoop}] /\ r.pc = pc /\ r.of = l
      OBVIOUS
    <2> HIDE DEF r, AtTypes, AtIs
    <2> QED BY <2>1, AtPut DEF r
  <1>3. Home(c) => AtTypes' /\ AtIs(c, "idle", NoLoop)
    <2> DEFINE r == [pc |-> "idle", of |-> NoLoop]
    <2>1. r \in [pc : Places, of : Loops \cup {NoLoop}] /\ r.pc = "idle" /\ r.of = NoLoop
      OBVIOUS
    <2> HIDE DEF r, AtTypes, AtIs
    <2> QED BY <2>1, AtPut DEF r, Home
  <1> QED BY <1>1, <1>2, <1>3

LEMMA CallMoves ==
  ASSUME CallTypes, NEW t \in Threads, NEW pc \in CallPlaces, NEW s \in BOOLEAN
  PROVE  /\ Calls(t, s) => CallTypes' /\ CallIs(t, "take", s, NoPlay)
         /\ GoOn(t, pc) => CallTypes' /\ CallIs(t, pc, call[t].start, call[t].of)
         /\ Back(t) => CallTypes' /\ CallIs(t, "out", FALSE, NoPlay)
  <1> USE DEF CallTypes, CallIs, CallPlaces
  <1>1. Calls(t, s) => CallTypes' /\ CallIs(t, "take", s, NoPlay)
    BY DEF Calls
  <1>2. GoOn(t, pc) => CallTypes' /\ CallIs(t, pc, call[t].start, call[t].of)
    BY DEF GoOn
  <1>3. Back(t) => CallTypes' /\ CallIs(t, "out", FALSE, NoPlay)
    BY DEF Back
  <1> QED BY <1>1, <1>2, <1>3

LEMMA LoopMoves ==
  ASSUME LoopTypes, NEW l \in Loops, NEW pc \in LoopPlaces, LoopTo(l, pc)
  PROVE  LoopTypes' /\ LoopIs(l, pc)
  BY DEF LoopTypes, LoopTo, LoopIs

LEMMA PlayMoves ==
  ASSUME PlayTypes, NEW p \in Plays, NEW pc \in PlayPlaces, NEW n \in Nat
  PROVE  /\ To(p, pc) => PlayTypes' /\ PlayIs(p, pc)
         /\ play' = [play EXCEPT ![p].pc = pc, ![p].fails = n] => PlayTypes' /\ PlayIs(p, pc)
         /\ play' = [play EXCEPT ![p] = [@ EXCEPT !.pc = pc]] => PlayTypes' /\ PlayIs(p, pc)
         /\ play' = [play EXCEPT ![p] = [Fresh EXCEPT !.pc = pc]] => PlayTypes' /\ PlayIs(p, pc)
         /\ play' = [play EXCEPT ![p] = Fresh] => PlayTypes' /\ PlayIs(p, "over")
         /\ play' = [play EXCEPT ![p].stop = TRUE] => PlayTypes' /\ PlayIs(p, play[p].pc)
  <1> USE DEF PlayTypes, PlayIs, Fresh, PlayPlaces
  <1>1. To(p, pc) => PlayTypes' /\ PlayIs(p, pc)
    BY DEF To
  <1>2. play' = [play EXCEPT ![p].pc = pc, ![p].fails = n] => PlayTypes' /\ PlayIs(p, pc)
    BY ZenonT(60)
  <1>3. play' = [play EXCEPT ![p] = [@ EXCEPT !.pc = pc]] => PlayTypes' /\ PlayIs(p, pc)
    OBVIOUS
  <1>4. play' = [play EXCEPT ![p] = [Fresh EXCEPT !.pc = pc]] => PlayTypes' /\ PlayIs(p, pc)
    <2> DEFINE r == [Fresh EXCEPT !.pc = pc]
    <2>1. r \in [pc : PlayPlaces, stop : BOOLEAN, fails : Nat] /\ r.pc = pc
      OBVIOUS
    <2> HIDE DEF r
    <2>2. play' = [play EXCEPT ![p] = r] => PlayTypes' /\ PlayIs(p, pc)
      BY <2>1
    <2> QED BY <2>2 DEF r
  <1>5. play' = [play EXCEPT ![p] = Fresh] => PlayTypes' /\ PlayIs(p, "over")
    OBVIOUS
  <1>6. play' = [play EXCEPT ![p].stop = TRUE] => PlayTypes' /\ PlayIs(p, play[p].pc)
    <2> DEFINE r == [play[p] EXCEPT !.stop = TRUE]
    <2>1. r \in [pc : PlayPlaces, stop : BOOLEAN, fails : Nat] /\ r.pc = play[p].pc
      OBVIOUS
    <2>2. play' = [play EXCEPT ![p].stop = TRUE] => play' = [play EXCEPT ![p] = r]
      OBVIOUS
    <2> HIDE DEF r
    <2> QED BY <2>1, <2>2
  <1> QED BY <1>1, <1>2, <1>3, <1>4, <1>5, <1>6

(* A closed doneCh sends home who waits for that session.                   *)
Wakes(l, now) == \A d \in Callers :
  \/ at'[d] = now[d]
  \/ /\ now[d].pc \in {"exit", "exit and stop"} /\ now[d].of = l
     /\ at'[d].pc \in {"idle", "exited"} /\ at'[d].of = NoLoop

LEMMA DoneMoves ==
  ASSUME AtTypes, NEW l, NEW now \in [Callers -> [pc : Places, of : Loops \cup {NoLoop}]],
         at' = DoneClosed(l, now)
  PROVE  AtTypes' /\ Wakes(l, now)
  <1> DEFINE new(d) == IF now[d].pc \in {"exit", "exit and stop"} /\ now[d].of = l
                       THEN [pc |-> IF now[d].pc = "exit" THEN "idle" ELSE "exited", of |-> NoLoop]
                       ELSE now[d]
  <1>1. at' = [d \in Callers |-> new(d)]
    BY DEF DoneClosed
  <1>2. \A d \in Callers : new(d) \in [pc : Places, of : Loops \cup {NoLoop}]
    BY DEF Places
  <1>3. \A d \in Callers : at'[d] = new(d)
    BY <1>1
  <1>4. at' \in [Callers -> [pc : Places, of : Loops \cup {NoLoop}]]
    BY <1>1, <1>2
  <1>5. \A d \in Callers :
              \/ new(d) = now[d]
              \/ /\ now[d].pc \in {"exit", "exit and stop"} /\ now[d].of = l
                 /\ new(d).pc \in {"idle", "exited"} /\ new(d).of = NoLoop
    OBVIOUS
  <1> QED BY <1>3, <1>4, <1>5 DEF AtTypes, Wakes

-----------------------------------------------------------------------------
(* Who has a pin, from where everybody is.                                  *)

PinCaller(c) == at[c].pc \in {"quiet", "screen", "unhold"}
PinLoop(l)   == loop[l] \in Running \cup {"unhold"}

LEMMA SamePins ==
  ASSUME \A c \in Callers : PinCaller(c)' <=> PinCaller(c),
         \A l \in Loops : PinLoop(l)' <=> PinLoop(l)
  PROVE  PinnedBy' = PinnedBy
  BY DEF PinnedBy, PinCaller, PinLoop

(* Nobody begins or ends to wait, and the player keeps its playback.         *)
LEMMA PlayingKept ==
  ASSUME Playing, current' = current,
         \A p \in Plays : Going(p)' => Going(p),
         \A t \in Threads : call'[t].pc = "wait" <=> call[t].pc = "wait",
         \A t \in Threads : call[t].pc = "wait" => call'[t].of = call[t].of,
         \A t \in Threads : Taken(t)' => Taken(t)
  PROVE  Playing'
  <1>1. IsKnown'
    <2> SUFFICES ASSUME NEW p \in Plays, Going(p)', p # current
                 PROVE  \E t \in Threads : call'[t].pc = "wait" /\ call'[t].of = p
      BY DEF IsKnown
    <2>1. PICK t \in Threads : call[t].pc = "wait" /\ call[t].of = p
      BY DEF Playing, IsKnown
    <2> QED BY <2>1
  <1>2. Awaits'
    BY DEF Playing, Awaits
  <1> QED BY <1>1, <1>2 DEF Playing

(* Whoever has a pin keeps the display held.                                *)
LEMMA PinnedIsHeld ==
  ASSUME Pins, RemoteTypes, PinnedBy # {}
  PROVE  pinned > 0 /\ held
  <1>1. IsFiniteSet(PinnedBy) /\ pinned = Cardinality(PinnedBy) /\ pinned \in Nat
    BY DEF Pins, RemoteTypes
  <1>2. pinned # 0
    BY <1>1, FS_EmptySet
  <1> QED BY <1>1, <1>2 DEF Pins

(* The screen is left alone.                                                *)
LEMMA ScreensKept ==
  ASSUME Screens, AllPast => AllPast', HasFresh' => HasFresh, osd' => osd, browsing' = browsing,
         loop' = loop, \A l \in Loops : call'[l] = call[l]
  PROVE  Screens'
  BY DEF Screens, LoopScreen

-----------------------------------------------------------------------------
(* A handler that neither enters nor calls the player.                      *)

Elsewhere == {"idle", "post", "exit", "exit and stop", "exited"}

LEMMA StaysOutside ==
  ASSUME RemoteInv, NEW c \in Callers, NEW pc \in Elsewhere, NEW l,
         AtTypes', AtIs(c, pc, l), at[c].pc \in Elsewhere, active \/ pc = "idle",
         QueueTypes', HasFresh' => HasFresh,
         UNCHANGED <<playerVars, active, browsing, session, loop, armed, osd>>
  PROVE  RemoteInv'
  <1> USE DEF RemoteInv, playerVars, AtIs, Elsewhere
  <1>1. RemoteTypes'
    BY DEF RemoteTypes, CallTypes, PlayTypes, LoopTypes
  <1>2. Owners'
    <2>1. \A d \in Callers : /\ at'[d].pc \in Entering \cup {"resume"} \cup Asking => d # c /\ at'[d] = at[d]
                             /\ at[d].pc \in Entering \cup {"resume"} \cup Asking => d # c /\ at'[d] = at[d]
      BY DEF Entering, Asking
    <2>2. EntersIt'
      BY <2>1 DEF Owners, EntersIt
    <2>3. OwnsIt'
      BY <2>1 DEF Owners, OwnsIt
    <2>4. AsksAlone'
      <3> SUFFICES ASSUME NEW d \in Callers, at'[d].pc \in Asking
                   PROVE  Between' /\ \A e \in Callers \ {d} : at'[e].pc = "idle"
        BY DEF AsksAlone
      <3>1. at[d].pc \in Asking /\ d # c
        BY <2>1
      <3>2. Between /\ \A e \in Callers \ {d} : at[e].pc = "idle"
        BY <3>1 DEF Owners, AsksAlone
      <3>3. pc = "idle" /\ Between'
        BY <3>2 DEF Between
      <3> QED BY <3>2, <3>3
    <2> QED BY <2>2, <2>3, <2>4 DEF Owners, RunsIt
  <1>3. Calling'
    BY DEF Calling, Asking
  <1>4. Playing'
    BY DEF Playing, IsKnown, Awaits, Taken, Going
  <1>5. Screens'
    <2>1. AllPast' = AllPast
      BY DEF AllPast, Past
    <2>2. \A k \in Loops : call'[k] = call[k]
      OBVIOUS
    <2> QED BY <2>1, <2>2, ScreensKept
  <1>6. Pins'
    <2>1. PinnedBy' = PinnedBy
      BY SamePins DEF PinCaller, PinLoop
    <2>2. \A d \in Callers : at'[d].pc = "unhold" => at[d].pc = "unhold"
      OBVIOUS
    <2> QED BY <2>1, <2>2 DEF Pins, Past, Going, AllPast
  <1>7. Arming'
    BY DEF Arming
  <1> QED BY <1>1, <1>2, <1>3, <1>4, <1>5, <1>6, <1>7

(* A handler that begins a call of the player between two sessions.         *)
LEMMA AsksPlayer ==
  ASSUME RemoteInv, NEW c \in Callers, NEW pc \in Asking, NEW l,
         AtTypes', AtIs(c, pc, l), at[c].pc \in Elsewhere, call[c].pc = "out",
         Between, \A d \in Callers \ {c} : at[d].pc = "idle",
         CallTypes', CallIs(c, "take", pc = "play", NoPlay),
         UNCHANGED <<held, pinned, play, current, state, Session, osd, hook, Queues>>
  PROVE  RemoteInv'
  <1> USE ThreadsAre DEF RemoteInv, AtIs, CallIs, Elsewhere, Session, Queues
  <1>1. RemoteTypes'
    BY DEF RemoteTypes, QueueTypes, PlayTypes, LoopTypes
  <1>2. Owners'
    <2>1. /\ \A d \in Callers : at'[d].pc \notin Entering \cup {"resume"}
          /\ \A d \in Callers \ {c} : at'[d].pc = "idle"
      BY DEF Entering, Asking
    <2>2. Between' /\ \A k \in Loops : loop'[k] \notin Running
      BY DEF Between, Running
    <2>3. \A d \in Callers : at'[d].pc \in Asking => d = c
      BY <2>1 DEF Asking
    <2> QED BY <2>1, <2>2, <2>3 DEF Owners, RunsIt, EntersIt, OwnsIt, AsksAlone
  <1>3. Calling'
    BY ZenonT(60) DEF Calling, Asking
  <1>4. Playing'
    <2>1. \A t \in Threads : t # c => call'[t] = call[t]
      OBVIOUS
    <2>2. \A p \in Plays : Going(p)' <=> Going(p)
      BY DEF Going
    <2>3. \A t \in Threads : call'[t].pc = "wait" <=> call[t].pc = "wait"
      OBVIOUS
    <2>4. \A t \in Threads : call[t].pc = "wait" => call'[t].of = call[t].of
      OBVIOUS
    <2>5. \A t \in Threads : Taken(t)' => Taken(t)
      BY <2>1 DEF Taken
    <2> QED BY <2>2, <2>3, <2>4, <2>5, PlayingKept
  <1>5. Screens'
    <2>1. AllPast' = AllPast /\ HasFresh' = HasFresh
      BY DEF AllPast, Past, HasFresh
    <2>2. \A k \in Loops : call'[k] = call[k]
      OBVIOUS
    <2> QED BY <2>1, <2>2, ScreensKept
  <1>6. Pins'
    <2>1. PinnedBy' = PinnedBy
      BY SamePins DEF PinCaller, PinLoop, Asking
    <2>2. \A d \in Callers : at'[d].pc = "unhold" => at[d].pc = "unhold"
      BY DEF Asking
    <2>3. \A t \in Threads : call'[t].pc = "publish" <=> call[t].pc = "publish"
      OBVIOUS
    <2> QED BY <2>1, <2>2, <2>3 DEF Pins, Past, Going, AllPast
  <1>7. Arming'
    BY DEF Arming
  <1> QED BY <1>1, <1>2, <1>3, <1>4, <1>5, <1>6, <1>7

LEMMA PostKeeps ==
  ASSUME RemoteInv, NEW c \in Callers, Post(c)
  PROVE  RemoteInv'
  <1>1. AtTypes /\ events \in Seq(Events) /\ hook \in {"none", "fresh", "stale"}
    BY DEF RemoteInv, RemoteTypes, QueueTypes
  <1>2. events' \in Seq(Events) /\ (HasFresh' => HasFresh)
    <2>1. CASE Posted("play")
      BY <1>1, <2>1, PostedQueue DEF Events
    <2>2. CASE UNCHANGED events
      BY <1>1, <2>2 DEF HasFresh
    <2> QED BY <2>1, <2>2 DEF Post
  <1>3. AtTypes' /\ AtIs(c, "idle", NoLoop) /\ at[c].pc = "post"
    BY <1>1, AtMoves DEF Post, At, Places
  <1>4. QueueTypes'
    BY <1>1, <1>2 DEF QueueTypes, Post
  <1> QED BY <1>2, <1>3, <1>4, StaysOutside DEF Post, Elsewhere, Session

LEMMA AskExitKeeps ==
  ASSUME RemoteInv, NEW c \in Callers, AskExit(c)
  PROVE  RemoteInv'
  <1>1. AtTypes /\ QueueTypes /\ session \in Loops \cup {NoLoop}
    BY DEF RemoteInv, RemoteTypes
  <1>2. PICK op \in {"exit", "exit and stop"} : at' = [at EXCEPT ![c] = [pc |-> op, of |-> session]]
    BY DEF AskExit
  <1>3. AtTypes' /\ AtIs(c, op, session)
    BY <1>1, <1>2, AtMoves DEF Places
  <1>4. QueueTypes' /\ (HasFresh' => HasFresh) /\ at[c].pc = "idle" /\ active
    BY <1>1 DEF AskExit, QueueTypes, HasFresh, Queues, At
  <1>5. UNCHANGED <<playerVars, active, browsing, session, loop, armed, osd>>
    BY DEF AskExit
  <1> QED BY <1>3, <1>4, <1>5, StaysOutside DEF Elsewhere

LEMMA AskPlayKeeps ==
  ASSUME RemoteInv, NEW c \in Callers, AskPlay(c), ~Intrudes
  PROVE  RemoteInv'
  <1>1. AtTypes /\ CallTypes /\ QueueTypes /\ c \in Threads
    BY ThreadsAre DEF RemoteInv, RemoteTypes
  <1>2. at[c].pc = "idle" /\ call[c].pc = "out" /\ UNCHANGED <<Session, osd, hook, Queues>>
    BY DEF AskPlay, At
  <1>3. CASE active /\ GoTo(c, "post") /\ UNCHANGED playerVars
    <2>1. AtTypes' /\ AtIs(c, "post", at[c].of)
      BY <1>1, <1>3, AtMoves DEF Places
    <2>2. QueueTypes' /\ (HasFresh' => HasFresh)
      BY <1>1, <1>2 DEF QueueTypes, HasFresh, Queues
    <2> QED BY <1>2, <1>3, <2>1, <2>2, StaysOutside DEF Elsewhere, Session
  <1>4. CASE Mine(c) /\ GoTo(c, "play") /\ Calls(c, TRUE) /\ UNCHANGED <<held, pinned, play, current, state>>
    <2>1. AtTypes' /\ AtIs(c, "play", at[c].of)
      BY <1>1, <1>4, AtMoves DEF Places
    <2>2. CallTypes' /\ CallIs(c, "take", TRUE, NoPlay)
      BY <1>1, <1>4, CallMoves DEF CallPlaces
    <2>3. CallIs(c, "take", "play" = "play", NoPlay)
      BY <2>2 DEF CallIs
    <2> QED BY <1>2, <1>4, <2>1, <2>2, <2>3, AsksPlayer DEF Elsewhere, Mine, Asking
  <1> QED BY <1>3, <1>4 DEF AskPlay

LEMMA AskStopKeeps ==
  ASSUME RemoteInv, NEW c \in Callers, AskStop(c) \/ AskEject(c), ~Intrudes
  PROVE  RemoteInv'
  <1>1. AtTypes /\ CallTypes /\ c \in Threads
    BY ThreadsAre DEF RemoteInv, RemoteTypes
  <1>2. /\ at[c].pc \in {"idle", "exited"} /\ call[c].pc = "out" /\ Mine(c)
        /\ GoTo(c, "stop") /\ Calls(c, FALSE)
        /\ UNCHANGED <<held, pinned, play, current, state, Session, osd, hook, Queues>>
    BY DEF AskStop, AskEject, At
  <1>3. AtTypes' /\ AtIs(c, "stop", at[c].of)
    BY <1>1, <1>2, AtMoves DEF Places
  <1>4. CallTypes' /\ CallIs(c, "take", FALSE, NoPlay)
    BY <1>1, <1>2, CallMoves DEF CallPlaces
  <1>5. CallIs(c, "take", "stop" = "play", NoPlay)
    BY <1>4 DEF CallIs
  <1> QED BY <1>2, <1>3, <1>4, <1>5, AsksPlayer DEF Elsewhere, Mine, Asking

LEMMA AnsweredKeeps ==
  ASSUME RemoteInv, NEW c \in Callers, Answered(c)
  PROVE  RemoteInv'
  <1> USE ThreadsAre DEF RemoteInv
  <1>1. /\ at[c].pc \in Asking /\ call[c].pc \in {"returned", "failed"}
        /\ UNCHANGED <<held, pinned, play, current, state, Session, osd, hook, Queues>>
        /\ AtTypes' /\ AtIs(c, "idle", NoLoop)
        /\ CallTypes' /\ CallIs(c, "out", FALSE, NoPlay)
    <2>1. AtTypes /\ CallTypes /\ c \in Threads /\ "out" \in CallPlaces /\ "idle" \in Places /\ FALSE \in BOOLEAN
      BY DEF RemoteTypes, CallPlaces, Places
    <2>2. Back(c) /\ Home(c)
      BY DEF Answered
    <2>3. AtTypes' /\ AtIs(c, "idle", NoLoop)
      BY <2>1, <2>2, AtMoves
    <2>4. CallTypes' /\ CallIs(c, "out", FALSE, NoPlay)
      BY <2>1, <2>2, CallMoves
    <2> QED BY <2>3, <2>4 DEF Answered, Asking
  <1> USE <1>1 DEF AtIs, CallIs, Session, Queues
  <1>2. RemoteTypes'
    BY DEF RemoteTypes, QueueTypes, PlayTypes, LoopTypes
  <1>3. Owners'
    BY DEF Owners, RunsIt, EntersIt, OwnsIt, AsksAlone, Between, Entering, Asking
  <1>4. Calling'
    BY DEF Calling, Asking
  <1>5. Playing'
    <2>1. \A t \in Threads : call'[t].pc = "wait" <=> call[t].pc = "wait"
      OBVIOUS
    <2> QED BY <2>1 DEF Playing, IsKnown, Awaits, Taken, Going
  <1>6. Screens'
    <2>1. AllPast' = AllPast /\ HasFresh' = HasFresh
      BY DEF AllPast, Past, HasFresh
    <2>2. \A k \in Loops : call'[k] = call[k]
      OBVIOUS
    <2> QED BY <2>1, <2>2, ScreensKept
  <1>7. Pins'
    <2>1. PinnedBy' = PinnedBy
      BY SamePins DEF PinCaller, PinLoop, Asking
    <2>2. \A d \in Callers : at'[d].pc = "unhold" => at[d].pc = "unhold"
      OBVIOUS
    <2>3. \A t \in Threads : call'[t].pc = "publish" <=> call[t].pc = "publish"
      OBVIOUS
    <2> QED BY <2>1, <2>2, <2>3 DEF Pins, Past, Going, AllPast
  <1>8. Arming'
    BY DEF Arming, Asking
  <1> QED BY <1>2, <1>3, <1>4, <1>5, <1>6, <1>7, <1>8

-----------------------------------------------------------------------------
(* Where a step leaves a part of the invariant alone.                       *)

LEMMA CallingKept ==
  ASSUME Calling, call' = call,
         \A c \in Callers : call[c].pc # "out" => at'[c].pc = at[c].pc,
         \A l \in Loops : call[l].pc # "out" => loop'[l] = loop[l]
  PROVE  Calling'
  BY DEF Calling

LEMMA PinsKept ==
  ASSUME Pins, PinnedBy' = PinnedBy, pinned' = pinned, held' = held,
         \A p \in Plays : (Past(p) => Past(p)') /\ (Going(p) => Going(p)'),
         \A t \in Threads : call'[t].pc = "publish" <=> call[t].pc = "publish",
         \A l \in Loops : /\ loop'[l] = "unhold" => loop[l] = "unhold"
                          /\ loop[l] \in Running => loop'[l] \in Running,
         \A c \in Callers : at'[c].pc = "unhold" => at[c].pc = "unhold"
  PROVE  Pins'
  <1>1. AllPast => AllPast'
    BY DEF AllPast
  <1> QED BY <1>1 DEF Pins

-----------------------------------------------------------------------------
(* Entering a session.                                                      *)

(* Who enters is alone: nobody runs the session, enters it or asks.         *)
LEMMA EntersAlone ==
  ASSUME Owners, Calling, NEW c \in Callers, at[c].pc \in Entering
  PROVE  /\ active /\ \A l \in Loops : loop[l] \notin Running
         /\ \A d \in Callers : at[d].pc \notin Asking /\ (at[d].pc \in Entering => d = c)
         /\ \A t \in Threads : call[t].pc # "out" => t = c /\ at[c].pc = "screen" /\ ~call[t].start
  <1>1. active /\ (\A l \in Loops : loop[l] \notin Running) /\ \A d \in Callers : at[d].pc \in Entering => d = c
    BY DEF Owners, EntersIt
  <1>2. \A d \in Callers : at[d].pc \notin Asking
    BY <1>1 DEF Owners, AsksAlone, Between
  <1>3. \A l \in Loops : call[l].pc = "out"
    BY <1>1 DEF Calling, Running
  <1>4. \A d \in Callers : call[d].pc # "out" => at[d].pc = "screen" /\ ~call[d].start
    BY <1>2 DEF Calling, Asking
  <1>5. \A d \in Callers : call[d].pc # "out" => d = c
    BY <1>1, <1>4 DEF Entering
  <1> QED BY <1>1, <1>2, <1>3, <1>4, <1>5, ThreadsAre

LEMMA EntersOn ==
  ASSUME Owners, Calling, NEW c \in Callers, at[c].pc \in Entering, NEW pc \in Entering,
         AtIs(c, pc, at[c].of), UNCHANGED <<active, browsing, session, loop>>
  PROVE  Owners'
  <1> USE DEF AtIs
  <1>1. \A d \in Callers : at'[d].of = at[d].of /\ (at'[d].pc \in Entering <=> at[d].pc \in Entering)
    OBVIOUS
  <1>2. \A d \in Callers : at'[d].pc \in Entering \cup {"resume"} <=> at[d].pc \in Entering \cup {"resume"}
    BY DEF Entering
  <1>3. \A d \in Callers : at'[d].pc \notin Asking
    BY EntersAlone DEF Entering, Asking
  <1>4. EntersIt'
    BY <1>1 DEF Owners, EntersIt
  <1>5. OwnsIt'
    BY <1>1, <1>2 DEF Owners, OwnsIt
  <1> QED BY <1>3, <1>4, <1>5 DEF Owners, RunsIt, AsksAlone

LEMMA SuspendKeeps ==
  ASSUME RemoteInv, NEW c \in Callers, Suspend(c)
  PROVE  RemoteInv'
  <1>1. /\ at[c].pc = "suspend" /\ AtTypes' /\ AtIs(c, "hold", at[c].of) /\ call[c].pc = "out"
        /\ UNCHANGED <<playerVars, active, browsing, session, asked, loop, osd, hook, Queues>>
    BY AtMoves DEF Suspend, At, RemoteInv, RemoteTypes, Places
  <1> USE <1>1 DEF RemoteInv, playerVars, Queues
  <1>2. RemoteTypes'
    BY DEF RemoteTypes, CallTypes, PlayTypes, LoopTypes, QueueTypes
  <1>3. Owners'
    BY EntersOn DEF Entering
  <1>4. Calling'
    BY CallingKept DEF AtIs
  <1>5. Playing'
    BY DEF Playing, IsKnown, Awaits, Taken, Going
  <1>6. Screens'
    BY ScreensKept DEF AllPast, Past, HasFresh
  <1>7. Pins'
    <2>1. PinnedBy' = PinnedBy
      BY SamePins DEF PinCaller, PinLoop, AtIs
    <2> QED BY <2>1, PinsKept DEF Past, Going, AtIs
  <1>8. Arming'
    BY DEF Arming, AtIs
  <1> QED BY <1>2, <1>3, <1>4, <1>5, <1>6, <1>7, <1>8

LEMMA HushKeeps ==
  ASSUME RemoteInv, NEW c \in Callers, Hush(c)
  PROVE  RemoteInv'
  <1>1. /\ at[c].pc = "quiet" /\ AtTypes' /\ AtIs(c, "screen", at[c].of) /\ call[c].pc = "out"
        /\ CallTypes' /\ CallIs(c, "take", FALSE, NoPlay)
        /\ hook' = "none" /\ UNCHANGED <<held, pinned, play, current, state, Session, osd, Queues>>
    <2>1. AtTypes /\ CallTypes /\ c \in Threads /\ "out" \in CallPlaces /\ "screen" \in Places /\ FALSE \in BOOLEAN
      BY ThreadsAre DEF RemoteInv, RemoteTypes, CallPlaces, Places
    <2>2. GoTo(c, "screen") /\ Calls(c, FALSE)
      BY DEF Hush
    <2>3. AtTypes' /\ AtIs(c, "screen", at[c].of)
      BY <2>1, <2>2, AtMoves
    <2>4. CallTypes' /\ CallIs(c, "take", FALSE, NoPlay)
      BY <2>1, <2>2, CallMoves
    <2> QED BY <2>3, <2>4 DEF Hush, At
  <1> USE <1>1, ThreadsAre DEF RemoteInv, Queues, Session
  <1>2. RemoteTypes'
    BY DEF RemoteTypes, PlayTypes, LoopTypes, QueueTypes
  <1>3. Owners'
    BY EntersOn DEF Entering
  <1>4. Calling'
    BY DEF Calling, AtIs, CallIs
  <1>5. Playing'
    <2>1. \A t \in Threads : (t # c => call'[t] = call[t]) /\ call'[c].pc = "take"
      BY DEF CallIs
    <2>2. \A t \in Threads : Taken(t)' => Taken(t)
      BY <2>1 DEF Taken
    <2>3. \A t \in Threads : call'[t].pc = "wait" <=> call[t].pc = "wait"
      BY <2>1
    <2>4. \A t \in Threads : call[t].pc = "wait" => call'[t].of = call[t].of
      BY <2>1
    <2> QED BY <2>2, <2>3, <2>4, PlayingKept DEF Going
  <1>6. Screens'
    BY ScreensKept DEF AllPast, Past, HasFresh, CallIs
  <1>7. Pins'
    <2>1. PinnedBy' = PinnedBy
      BY SamePins DEF PinCaller, PinLoop, AtIs
    <2>2. \A t \in Threads : call'[t].pc = "publish" <=> call[t].pc = "publish"
      BY DEF CallIs
    <2>3. \A d \in Callers : at'[d].pc = "unhold" => at[d].pc = "unhold"
      BY DEF AtIs
    <2> QED BY <2>1, <2>2, <2>3, PinsKept DEF Past, Going
  <1>8. Arming'
    BY DEF Arming, AtIs
  <1> QED BY <1>2, <1>3, <1>4, <1>5, <1>6, <1>7, <1>8

(* A pin is taken, or dropped.                                              *)
LEMMA PinTaken ==
  ASSUME Pins, pinned \in Nat, NEW x, x \notin PinnedBy,
         PinnedBy' = PinnedBy \cup {x}, pinned' = pinned + 1
  PROVE  IsFiniteSet(PinnedBy') /\ pinned' = Cardinality(PinnedBy') /\ pinned' > 0
  BY FS_AddElement DEF Pins

LEMMA PinDropped ==
  ASSUME Pins, RemoteTypes, NEW x \in PinnedBy, PinnedBy' = PinnedBy \ {x}, Unheld
  PROVE  /\ IsFiniteSet(PinnedBy') /\ pinned' = Cardinality(PinnedBy') /\ pinned' \in Nat
         /\ held' <=> pinned' > 0
         /\ \A y \in PinnedBy : y # x => held'
  <1>1. IsFiniteSet(PinnedBy) /\ pinned = Cardinality(PinnedBy) /\ pinned \in Nat
    BY DEF Pins, RemoteTypes
  <1>2. pinned > 0 /\ held
    BY PinnedIsHeld
  <1>3. pinned' = pinned - 1 /\ held' = (held /\ pinned > 1)
    <2>1. pinned # 0
      BY <1>1, <1>2
    <2> QED BY <2>1, Zenon DEF Unheld
  <1>4. pinned' \in Nat
    BY <1>1, <1>2, <1>3
  <1>5. held' <=> pinned > 1
    BY <1>2, <1>3
  <1>6. held' <=> pinned' > 0
    BY <1>1, <1>3, <1>5
  <1>7. IsFiniteSet(PinnedBy') /\ pinned' = Cardinality(PinnedBy')
    BY <1>1, <1>3, FS_RemoveElement
  <1>8. ASSUME NEW y \in PinnedBy, y # x PROVE held'
    <2>1. PinnedBy' # {}
      BY <1>8
    <2>2. pinned' # 0
      BY <2>1, <1>7, FS_EmptySet
    <2> QED BY <2>2, <1>4, <1>6
  <1> QED BY <1>4, <1>6, <1>7, <1>8

LEMMA HoldKeeps ==
  ASSUME RemoteInv, NEW c \in Callers, Hold(c)
  PROVE  RemoteInv'
  <1>0. AtTypes /\ at[c].pc = "hold" /\ call[c].pc = "out"
        /\ UNCHANGED <<play, current, state, call, Session, osd, hook, Queues>>
    BY DEF Hold, At, RemoteInv, RemoteTypes
  <1>1. PICK pc \in {"quiet", "abandon"} : AtTypes' /\ AtIs(c, pc, at[c].of)
    BY <1>0, AtMoves DEF Hold, Places
  <1> USE <1>0, <1>1 DEF RemoteInv, Queues, Session
  <1>3. Owners'
    BY EntersOn DEF Entering
  <1>4. Calling'
    BY CallingKept DEF AtIs
  <1>5. Playing'
    BY DEF Playing, IsKnown, Awaits, Taken, Going
  <1>6. Screens'
    BY ScreensKept DEF AllPast, Past, HasFresh
  <1>7. RemoteTypes' /\ Pins'
    <2>0. pinned \in Nat
      BY DEF RemoteTypes
    <2>1. CASE GoTo(c, "quiet") /\ Held
      <3>1. AtIs(c, "quiet", at[c].of) /\ held' /\ pinned' = pinned + 1
        BY <2>1, AtMoves DEF Held, AcquireOk, Places
      <3>2. c \notin PinnedBy /\ PinnedBy' = PinnedBy \cup {c}
        BY <3>1, ThreadsAre DEF PinnedBy, AtIs
      <3>3. IsFiniteSet(PinnedBy') /\ pinned' = Cardinality(PinnedBy') /\ pinned' > 0
        BY <2>0, <3>1, <3>2, PinTaken
      <3>4. AllPast' <=> AllPast
        BY DEF AllPast, Past
      <3>5. Pins'
        BY <3>1, <3>3, <3>4 DEF Pins, AtIs
      <3>6. pinned' \in Nat
        BY <2>0, <3>1
      <3> QED BY <3>5, <3>6 DEF RemoteTypes, CallTypes, PlayTypes, LoopTypes, QueueTypes
    <2>2. CASE NotAcquired /\ UNCHANGED pinned /\ GoTo(c, "abandon")
      <3>1. AtIs(c, "abandon", at[c].of)
        BY <2>2, AtMoves DEF Places
      <3>2. PinnedBy' = PinnedBy
        BY <3>1, SamePins DEF PinCaller, PinLoop, AtIs
      <3>3. Pins'
        BY <2>2, <3>1, <3>2, PinsKept DEF NotAcquired, Past, Going, AtIs
      <3> QED BY <2>2, <3>3 DEF RemoteTypes, CallTypes, PlayTypes, LoopTypes, QueueTypes
    <2> QED BY <2>1, <2>2 DEF Hold
  <1>8. Arming'
    <2>1. armed' = armed /\ loop' = loop
      OBVIOUS
    <2>2. CASE at'[c].pc = "quiet" \/ at'[c].pc = "abandon"
      BY <2>1, <2>2 DEF Arming
    <2> QED BY <2>2 DEF AtIs
  <1> QED BY <1>3, <1>4, <1>5, <1>6, <1>7, <1>8

LEMMA UndoKeeps ==
  ASSUME RemoteInv, NEW c \in Callers, Undo(c)
  PROVE  RemoteInv'
  <1>0. AtTypes /\ at[c].pc = "unhold" /\ call[c].pc = "out" /\ Unheld
        /\ UNCHANGED <<play, current, state, call, Session, osd, hook, Queues>>
    BY DEF Undo, At, RemoteInv, RemoteTypes
  <1>1. AtTypes' /\ AtIs(c, "abandon", at[c].of)
    BY <1>0, AtMoves DEF Undo, Places
  <1> USE <1>0, <1>1 DEF RemoteInv, Queues, Session
  <1>3. Owners'
    BY EntersOn DEF Entering
  <1>4. Calling'
    BY CallingKept DEF AtIs
  <1>5. Playing'
    BY DEF Playing, IsKnown, Awaits, Taken, Going
  <1>6. Screens'
    BY ScreensKept DEF AllPast, Past, HasFresh
  <1>7. RemoteTypes' /\ Pins'
    <2>2. c \in PinnedBy /\ PinnedBy' = PinnedBy \ {c}
      BY ThreadsAre DEF PinnedBy, AtIs
    <2>3. /\ IsFiniteSet(PinnedBy') /\ pinned' = Cardinality(PinnedBy') /\ pinned' \in Nat
          /\ held' <=> pinned' > 0
      BY <2>2, PinDropped
    <2>4. AllPast /\ AllPast'
      BY DEF Pins, AllPast, Past
    <2>5. \A t \in Threads : call'[t].pc # "publish"
      BY EntersAlone DEF Entering
    <2>6. \A p \in Plays : Past(p)'
      BY <2>4 DEF AllPast
    <2>7. Pins'
      BY <2>3, <2>4, <2>5, <2>6 DEF Pins
    <2> QED BY <2>3, <2>7 DEF RemoteTypes, CallTypes, PlayTypes, LoopTypes, QueueTypes
  <1>8. Arming'
    BY DEF Arming, AtIs
  <1> QED BY <1>3, <1>4, <1>5, <1>6, <1>7, <1>8

LEMMA AbandonKeeps ==
  ASSUME RemoteInv, NEW c \in Callers, Abandon(c)
  PROVE  RemoteInv'
  <1>1. /\ at[c].pc = "abandon" /\ AtTypes' /\ AtIs(c, "resume", at[c].of) /\ call[c].pc = "out"
        /\ ~active' /\ UNCHANGED <<playerVars, session, asked, loop, armed, osd, hook, Queues>>
    BY AtMoves DEF Abandon, At, RemoteInv, RemoteTypes, Places
  <1>2. /\ \A l \in Loops : loop[l] \notin Running
        /\ \A d \in Callers : at[d].pc \notin Asking /\ (at[d].pc \in Entering => d = c)
    BY <1>1, EntersAlone DEF Entering, RemoteInv
  <1> USE <1>1, <1>2 DEF RemoteInv, playerVars, Queues
  <1>3. RemoteTypes'
    BY DEF RemoteTypes, CallTypes, PlayTypes, LoopTypes, QueueTypes
  <1>4. Owners'
    <2>1. \A d \in Callers : at'[d].pc \notin Entering \cup Asking
      BY DEF AtIs, Entering, Asking
    <2>2. \A d \in Callers : /\ at'[d].of = at[d].of
                             /\ at'[d].pc \in Entering \cup {"resume"} => at[d].pc \in Entering \cup {"resume"}
      BY DEF AtIs, Entering
    <2>3. OwnsIt'
      BY <2>2 DEF Owners, OwnsIt
    <2> QED BY <2>1, <2>3 DEF Owners, RunsIt, EntersIt, AsksAlone
  <1>5. Calling'
    BY CallingKept DEF AtIs
  <1>6. Playing'
    BY DEF Playing, IsKnown, Awaits, Taken, Going
  <1>7. Screens'
    <2>1. ~osd
      BY DEF Screens, LoopScreen
    <2>2. \A l \in Loops : loop'[l] \notin Running
      OBVIOUS
    <2> QED BY <2>1, <2>2 DEF Screens, LoopScreen, Running
  <1>8. Pins'
    <2>1. PinnedBy' = PinnedBy
      BY SamePins DEF PinCaller, PinLoop, AtIs
    <2> QED BY <2>1, PinsKept DEF Past, Going, AtIs
  <1>9. Arming'
    BY DEF Arming, AtIs
  <1> QED BY <1>3, <1>4, <1>5, <1>6, <1>7, <1>8, <1>9

LEMMA ResumeKeeps ==
  ASSUME RemoteInv, NEW c \in Callers, Resume(c)
  PROVE  RemoteInv'
  <1> DEFINE now == [at EXCEPT ![c] = [pc |-> "idle", of |-> NoLoop]]
  <1>0. AtTypes
    BY DEF RemoteInv, RemoteTypes
  <1>1. /\ at[c].pc = "resume" /\ call[c].pc = "out" /\ armed' /\ at' = DoneClosed(at[c].of, now)
        /\ UNCHANGED <<playerVars, active, browsing, session, asked, loop, osd, hook, Queues>>
    BY DEF Resume, At
  <1>2. /\ now \in [Callers -> [pc : Places, of : Loops \cup {NoLoop}]]
        /\ now[c].pc = "idle" /\ \A d \in Callers \ {c} : now[d] = at[d]
    BY <1>0 DEF AtTypes, Places
  <1> HIDE DEF now
  <1>3. AtTypes'
    BY <1>0, <1>1, <1>2, DoneMoves
  <1>4. \A d \in Callers : \/ at'[d] = at[d] /\ d # c
                           \/ /\ at[d].pc \in {"exit", "exit and stop", "resume"}
                              /\ at'[d].pc \in {"idle", "exited"}
    <2>1. \A d \in Callers : \/ at'[d] = now[d]
                             \/ /\ now[d].pc \in {"exit", "exit and stop"}
                                /\ at'[d].pc \in {"idle", "exited"}
      <3>1. Wakes(at[c].of, now)
        BY <1>0, <1>1, <1>2, DoneMoves
      <3> QED BY <3>1 DEF Wakes
    <2> QED BY <1>1, <1>2, <2>1
  <1> USE <1>1, <1>4 DEF RemoteInv, playerVars, Queues
  <1>5. RemoteTypes'
    BY <1>3 DEF RemoteTypes, CallTypes, PlayTypes, LoopTypes, QueueTypes
  <1>6. Owners'
    <2>1. \A d \in Callers : at[d].pc \notin Asking
      <3> SUFFICES ASSUME NEW d \in Callers, at[d].pc \in Asking PROVE FALSE
        OBVIOUS
      <3>1. d # c
        BY DEF Asking
      <3> QED BY <3>1 DEF Owners, AsksAlone
    <2>2. \A d \in Callers : at'[d].pc \in Entering \cup {"resume"} \cup Asking => at'[d] = at[d]
      BY DEF Entering, Asking
    <2>3. \A d \in Callers : at'[d].pc \notin Asking
      BY <2>1, <2>2
    <2>4. EntersIt'
      BY <2>2 DEF Owners, EntersIt
    <2>5. OwnsIt'
      <3> SUFFICES ASSUME NEW d \in Callers, at'[d].pc \in Entering \cup {"resume"}
                   PROVE  /\ at'[d].of \in Loops /\ loop'[at'[d].of] = "none"
                          /\ \A e \in Callers : at'[e].pc \in Entering \cup {"resume"} /\ at'[e].of = at'[d].of
                                              => e = d
        BY DEF OwnsIt
      <3>1. at'[d] = at[d] /\ \A e \in Callers : at'[e].pc \in Entering \cup {"resume"} => at'[e] = at[e]
        BY <2>2
      <3>2. /\ at[d].of \in Loops /\ loop[at[d].of] = "none"
            /\ \A e \in Callers : at[e].pc \in Entering \cup {"resume"} /\ at[e].of = at[d].of => e = d
        BY <3>1 DEF Owners, OwnsIt
      <3> QED BY <3>1, <3>2
    <2> QED BY <2>3, <2>4, <2>5 DEF Owners, RunsIt, AsksAlone
  <1>7. Calling'
    <2>1. \A d \in Callers : call[d].pc # "out" => at'[d].pc = at[d].pc
      BY DEF Calling, Asking
    <2> QED BY <2>1, CallingKept
  <1>8. Playing'
    BY DEF Playing, IsKnown, Awaits, Taken, Going
  <1>9. Screens'
    BY ScreensKept DEF AllPast, Past, HasFresh
  <1>10. Pins'
    <2>1. \A d \in Callers : PinCaller(d)' <=> PinCaller(d)
      BY DEF PinCaller
    <2>2. PinnedBy' = PinnedBy
      BY <2>1, SamePins DEF PinLoop
    <2>3. \A d \in Callers : at'[d].pc = "unhold" => at[d].pc = "unhold"
      OBVIOUS
    <2> QED BY <2>2, <2>3, PinsKept DEF Past, Going
  <1>11. Arming'
    BY DEF Arming
  <1> QED BY <1>5, <1>6, <1>7, <1>8, <1>9, <1>10, <1>11

LEMMA EnterKeeps ==
  ASSUME RemoteInv, NEW c \in Callers, Enter(c), ~Intrudes
  PROVE  RemoteInv'
  <1>1. PICK l \in Loops : /\ Idle(l) /\ session' = l
                           /\ at' = [at EXCEPT ![c] = [pc |-> "suspend", of |-> l]]
    BY DEF Enter
  <1>2. /\ at[c].pc = "idle" /\ call[c].pc = "out" /\ ~active /\ active' /\ browsing'
        /\ \A d \in Callers : at[d].pc \notin Asking
        /\ UNCHANGED <<playerVars, loop, armed, osd, hook, Queues>>
    BY DEF Enter, At, Asking
  <1>3. AtTypes' /\ AtIs(c, "suspend", l)
    BY <1>1, AtMoves DEF RemoteInv, RemoteTypes, Places
  <1>4. \A k \in Loops : loop[k] \notin Running
    BY <1>2 DEF RemoteInv, Owners, RunsIt
  <1>5. \A d \in Callers : at[d].pc \notin Entering
    BY <1>2 DEF RemoteInv, Owners, EntersIt
  <1> USE <1>2, <1>3, <1>4 DEF RemoteInv, playerVars, Queues
  <1>6. RemoteTypes'
    BY <1>1 DEF RemoteTypes, CallTypes, PlayTypes, LoopTypes, QueueTypes
  <1>7. Owners'
    <2>1. \A d \in Callers : /\ at'[d].pc \in Entering => d = c
                             /\ at'[d].pc \notin Asking
      BY <1>5 DEF AtIs, Asking
    <2>2. EntersIt'
      BY <1>1, <2>1 DEF EntersIt, AtIs
    <2>3. OwnsIt'
      <3>1. loop'[l] = "none" /\ at'[c].of = l /\ \A d \in Callers : d # c => at'[d].of # l /\ at'[d] = at[d]
        BY <1>1 DEF Idle, AtIs
      <3>2. \A d \in Callers : at[d].pc \in Entering \cup {"resume"} <=> at[d].pc = "resume"
        BY <1>5
      <3> QED BY <3>1, <3>2 DEF Owners, OwnsIt
    <2> QED BY <2>1, <2>2, <2>3 DEF Owners, RunsIt, AsksAlone
  <1>8. Calling'
    BY CallingKept DEF AtIs
  <1>9. Playing'
    BY DEF Playing, IsKnown, Awaits, Taken, Going
  <1>10. Screens'
    <2>1. ~osd
      BY DEF Screens, LoopScreen
    <2> QED BY <2>1 DEF Screens, LoopScreen, Running
  <1>11. Pins'
    <2>1. PinnedBy' = PinnedBy
      BY SamePins DEF PinCaller, PinLoop, AtIs
    <2> QED BY <2>1, PinsKept DEF Past, Going, AtIs
  <1>12. Arming'
    BY DEF Arming, AtIs
  <1> QED BY <1>6, <1>7, <1>8, <1>9, <1>10, <1>11, <1>12

LEMMA BrowseKeeps ==
  ASSUME RemoteInv, NEW c \in Callers, Browse(c)
  PROVE  RemoteInv'
  <1> DEFINE l == at[c].of
  <1> USE ThreadsAre
  <1>0. AtTypes /\ CallTypes /\ LoopTypes /\ c \in Threads
    BY DEF RemoteInv, RemoteTypes
  <1>1. /\ at[c].pc = "screen" /\ call[c].pc = "returned" /\ ~call[c].start
        /\ CallTypes' /\ CallIs(c, "out", FALSE, NoPlay)
    <2>1. at[c].pc = "screen" /\ call[c].pc = "returned" /\ Back(c)
      BY DEF Browse, Returned
    <2>2. CallTypes' /\ CallIs(c, "out", FALSE, NoPlay)
      BY <1>0, <2>1, CallMoves DEF CallPlaces
    <2>3. ~call[c].start
      BY <2>1 DEF RemoteInv, Calling
    <2> QED BY <2>1, <2>2, <2>3
  <1>2. /\ AllPast /\ active /\ \A k \in Loops : loop[k] \notin Running
        /\ \A d \in Callers : at[d].pc \notin Asking /\ (at[d].pc \in Entering => d = c)
        /\ \A t \in Threads : call[t].pc # "out" => t = c
    BY <1>0, <1>1, NoneGoing, EntersAlone DEF RemoteInv, Entering
  <1>3. /\ l \in Loops /\ loop[l] = "none" /\ l = session /\ browsing
        /\ \A d \in Callers : at[d].pc = "resume" => at[d].of # l
    BY <1>1 DEF RemoteInv, Owners, OwnsIt, EntersIt, Entering
  <1>4. UNCHANGED <<held, pinned, play, current, state, active, browsing, session, asked, armed, hook>>
    BY DEF Browse
  <1> HIDE DEF l
  <1> USE <1>1, <1>2, <1>3, <1>4 DEF RemoteInv
  <1>5. AllPast'
    BY DEF AllPast, Past
  <1>6. \A t \in Threads : call'[t].pc = "out"
    BY DEF CallIs
  <1>7. Calling' /\ Playing'
    <2>1. IsKnown'
      BY DEF Playing, IsKnown, Going
    <2> QED BY <1>6, <2>1 DEF Calling, Playing, Awaits, Taken
  <1>8. CASE osd' = TRUE /\ LoopTo(l, "select") /\ Home(c) /\ events' = <<>>
    <2>1. AtTypes' /\ AtIs(c, "idle", NoLoop) /\ LoopTypes' /\ LoopIs(l, "select")
      BY <1>0, <1>8, AtMoves, LoopMoves DEF Places, LoopPlaces
    <2>2. QueueTypes' /\ ~HasFresh'
      BY <1>8, EmptySeq DEF QueueTypes, HasFresh, RemoteTypes
    <2>3. RemoteTypes'
      BY <2>1, <2>2 DEF RemoteTypes, PlayTypes
    <2>4. Owners'
      <3>1. \A d \in Callers : at'[d].pc \notin Entering \cup Asking
        BY <2>1 DEF AtIs, Entering, Asking
      <3>2. \A d \in Callers : at'[d].pc = "resume" => at'[d] = at[d] /\ at[d].pc = "resume" /\ at[d].of # l
        BY <2>1 DEF AtIs
      <3>3. OwnsIt'
        BY <2>1, <3>1, <3>2 DEF Owners, OwnsIt, LoopIs
      <3>4. RunsIt'
        BY <2>1 DEF RunsIt, LoopIs
      <3> QED BY <3>1, <3>3, <3>4 DEF Owners, EntersIt, AsksAlone
    <2>5. Screens'
      <3>1. loop'[l] = "select" /\ \A k \in Loops : k # l => loop'[k] \notin Running
        BY <2>1 DEF LoopIs
      <3> QED BY <1>5, <2>2, <3>1 DEF Screens, LoopScreen, Running
    <2>6. Pins'
      <3>1. c \in PinnedBy /\ l \notin PinnedBy /\ PinnedBy' = (PinnedBy \ {c}) \cup {l}
        BY <2>1 DEF PinnedBy, AtIs, LoopIs, Running
      <3>2. IsFiniteSet(PinnedBy) /\ pinned = Cardinality(PinnedBy)
        BY DEF Pins
      <3>3. IsFiniteSet(PinnedBy \ {c}) /\ Cardinality(PinnedBy \ {c}) = pinned - 1
        BY <3>1, <3>2, FS_RemoveElement
      <3>4. IsFiniteSet(PinnedBy') /\ Cardinality(PinnedBy') = pinned - 1 + 1
        <4> DEFINE S == PinnedBy \ {c}
        <4>1. IsFiniteSet(S) /\ Cardinality(S) = pinned - 1 /\ l \notin S /\ PinnedBy' = S \cup {l}
          BY <3>1, <3>3
        <4> HIDE DEF S
        <4>2. IsFiniteSet(S \cup {l}) /\ Cardinality(S \cup {l}) = Cardinality(S) + 1
          BY <4>1, FS_AddElement
        <4> QED BY <4>1, <4>2
      <3>5. pinned > 0 /\ held
        BY <3>1, PinnedIsHeld
      <3>6. pinned' = Cardinality(PinnedBy')
        BY <3>4 DEF RemoteTypes
      <3> QED BY <1>5, <3>4, <3>5, <3>6 DEF Pins
    <2>7. Arming'
      BY <2>1 DEF Arming, LoopIs
    <2> QED BY <1>7, <2>3, <2>4, <2>5, <2>6, <2>7
  <1>9. CASE GoTo(c, "unhold") /\ UNCHANGED <<osd, loop, Queues>>
    <2>1. AtTypes' /\ AtIs(c, "unhold", l)
      BY <1>0, <1>9, AtMoves DEF Places, l
    <2>2. UNCHANGED <<osd, loop, events>>
      BY <1>9 DEF Queues
    <2>3. RemoteTypes'
      BY <2>1, <2>2 DEF RemoteTypes, PlayTypes, LoopTypes, QueueTypes
    <2>4. Owners'
      BY <2>1, <2>2, EntersOn DEF Entering, l
    <2>5. Screens'
      <3>1. \A k \in Loops : call'[k] = call[k]
        BY DEF CallIs
      <3> QED BY <1>5, <2>2, <3>1, ScreensKept DEF HasFresh
    <2>6. Pins'
      <3>1. PinnedBy' = PinnedBy
        BY <2>1, <2>2, SamePins DEF PinCaller, PinLoop, AtIs
      <3>2. pinned > 0 /\ held
        <4>1. c \in PinnedBy
          BY DEF PinnedBy
        <4> QED BY <4>1, PinnedIsHeld
      <3> QED BY <1>5, <2>2, <3>1, <3>2 DEF Pins
    <2>7. Arming'
      BY <2>1, <2>2 DEF Arming, AtIs
    <2> QED BY <1>7, <2>3, <2>4, <2>5, <2>6, <2>7
  <1> QED BY <1>8, <1>9 DEF Browse, l

LEMMA CallerKeeps ==
  ASSUME RemoteInv, ~Intrudes, NEW c \in Callers, CallerSteps(c)
  PROVE  RemoteInv'
  BY AskPlayKeeps, PostKeeps, AskExitKeeps, AskStopKeeps, AnsweredKeeps, EnterKeeps, SuspendKeeps,
     HoldKeeps, HushKeeps, BrowseKeeps, UndoKeeps, AbandonKeeps, ResumeKeeps
  DEF CallerSteps

-----------------------------------------------------------------------------
(* The loop of a session, while it runs: what is left to show of a step is
   what it does to the screen.                                              *)
LEMMA LoopGoesOn ==
  ASSUME RemoteInv, NEW l \in Loops, loop[l] \in Running, NEW pc \in Running,
         LoopIs(l, pc), LoopTypes', QueueTypes', CallTypes',
         \A t \in Threads : t # l => call'[t] = call[t],
         call[l].pc \in {"out", "returned", "failed"},
         \/ call'[l].pc = "out"
         \/ /\ call'[l].pc = "take" /\ pc \in {"starting", "browser", "replaying", "screen off"}
            /\ call'[l].start <=> pc = "starting",
         UNCHANGED <<held, pinned, play, current, state, active, session, armed, at>>,
         osd' => AllPast, LoopScreen(l)',
         pc = "left" => AllPast
  PROVE  RemoteInv'
  <1> USE ThreadsAre DEF RemoteInv
  <1>1. /\ active /\ session = l /\ \A k \in Loops \ {l} : loop[k] \notin Running
        /\ \A c \in Callers : at[c].pc \notin Entering \cup Asking /\ call[c].pc = "out"
    BY RunsAlone
  <1>2. \A t \in Threads : call[t].pc # "out" => t = l
    BY <1>1 DEF Calling, Running
  <1>3. /\ loop'[l] = pc /\ loop'[l] \in Running /\ loop[l] # "none" /\ loop'[l] # "none" /\ loop'[l] # "unhold"
        /\ \A k \in Loops : k # l => loop'[k] = loop[k] /\ loop'[k] \notin Running
    BY <1>1 DEF LoopIs, Running
  <1>4. RemoteTypes'
    BY DEF RemoteTypes, AtTypes, PlayTypes
  <1>5. Owners'
    <2>1. \A c \in Callers : at[c].pc = "resume" => at[c].of # l
      BY <1>3 DEF Owners, OwnsIt
    <2>2. OwnsIt'
      BY <1>1, <1>3, <2>1 DEF Owners, OwnsIt
    <2> QED BY <1>1, <1>3, <2>2 DEF Owners, RunsIt, EntersIt, AsksAlone
  <1>6. Calling'
    BY <1>1, <1>2, <1>3, ZenonT(60) DEF Calling, LoopIs
  <1>7. Playing'
    <2>1. \A t \in Threads : Taken(t)' => Taken(t)
      BY DEF Taken
    <2>2. \A t \in Threads : call'[t].pc = "wait" <=> call[t].pc = "wait"
      OBVIOUS
    <2>3. \A t \in Threads : call[t].pc = "wait" => call'[t].of = call[t].of
      OBVIOUS
    <2> QED BY <2>1, <2>2, <2>3, PlayingKept DEF Going
  <1>8. Screens'
    <2>1. AllPast' <=> AllPast
      BY DEF AllPast, Past
    <2>2. \A k \in Loops : k # l => LoopScreen(k)'
      BY <1>3 DEF LoopScreen, Running
    <2> QED BY <1>3, <2>1, <2>2 DEF Screens
  <1>9. Pins'
    <2>1. PinnedBy' = PinnedBy
      BY <1>3, SamePins DEF PinCaller, PinLoop
    <2>2. \A t \in Threads : call'[t].pc = "publish" <=> call[t].pc = "publish"
      OBVIOUS
    <2> QED BY <1>3, <2>1, <2>2, PinsKept DEF Past, Going
  <1>10. Arming'
    BY <1>3 DEF Arming
  <1> QED BY <1>4, <1>5, <1>6, <1>7, <1>8, <1>9, <1>10

(* Whoever runs has no call out but in the places where one is waited for.  *)
LEMMA LoopCalls ==
  ASSUME RemoteInv, NEW l \in Loops
  PROVE  /\ l \in Threads /\ CallTypes /\ LoopTypes /\ QueueTypes /\ events \in Seq(Events)
         /\ LoopScreen(l) /\ (osd => AllPast)
         /\ call[l].pc = "returned" /\ loop[l] \in {"browser", "replaying", "screen off"} => AllPast
  <1>1. call[l].pc = "returned" /\ loop[l] \in {"browser", "replaying", "screen off"} => ~call[l].start
    BY DEF RemoteInv, Calling
  <1>2. call[l].pc = "returned" /\ ~call[l].start => AllPast
    BY ThreadsAre, NoneGoing DEF RemoteInv
  <1> QED BY <1>1, <1>2, ThreadsAre DEF RemoteInv, RemoteTypes, QueueTypes, Screens

(* startPlayback and stopPlayback, from the browser and from a playback.    *)
LEMMA StartsKeeps ==
  ASSUME RemoteInv, NEW l \in Loops, loop[l] \in Running, call[l].pc \in {"out", "returned", "failed"},
         NEW q \in Seq(Events), StartsPlaying(l, q), AllPast, Unmoved
  PROVE  RemoteInv'
  <1>1. ~osd' /\ events' \in Seq(Events) /\ ~HasFresh' /\ hook' = "fresh"
    BY AgedQueue DEF StartsPlaying
  <1>2. CallTypes' /\ CallIs(l, "take", TRUE, NoPlay) /\ LoopTypes' /\ LoopIs(l, "starting")
    BY LoopCalls, CallMoves, LoopMoves DEF StartsPlaying, CallPlaces, LoopPlaces
  <1>3. QueueTypes'
    BY <1>1 DEF QueueTypes
  <1>4. AllPast'
    BY DEF AllPast, Past, Unmoved
  <1>5. LoopScreen(l)'
    BY <1>1, <1>2, <1>4 DEF LoopScreen, LoopIs, CallIs
  <1>6. (\A t \in Threads : t # l => call'[t] = call[t]) /\ call'[l].pc = "take" /\ call'[l].start
    BY <1>2 DEF CallIs
  <1> QED BY <1>1, <1>2, <1>3, <1>5, <1>6, LoopGoesOn DEF Unmoved, Running

LEMMA StopsKeeps ==
  ASSUME RemoteInv, NEW l \in Loops, LoopAt(l, "select"), ~browsing,
         NEW q \in Seq(Events), NEW then \in {"browser", "screen off", "replaying"},
         StopsPlaying(l, q, then), Unmoved
  PROVE  RemoteInv'
  <1>1. osd' = osd /\ events' \in Seq(Events) /\ ~HasFresh' /\ hook' = "none"
    BY AgedQueue DEF StopsPlaying
  <1>2. CallTypes' /\ CallIs(l, "take", FALSE, NoPlay) /\ LoopTypes' /\ LoopIs(l, then)
    BY LoopCalls, CallMoves, LoopMoves DEF StopsPlaying, CallPlaces, LoopPlaces
  <1>3. QueueTypes'
    BY <1>1 DEF QueueTypes
  <1>4. ~osd /\ loop[l] = "select" /\ call[l].pc = "out"
    BY LoopCalls DEF LoopAt, LoopScreen
  <1>5. LoopScreen(l)'
    BY <1>1, <1>2, <1>4 DEF LoopScreen, LoopIs, CallIs
  <1>6. (\A t \in Threads : t # l => call'[t] = call[t]) /\ call'[l].pc = "take" /\ ~call'[l].start
    BY <1>2 DEF CallIs
  <1> QED BY <1>1, <1>2, <1>3, <1>4, <1>5, <1>6, LoopGoesOn DEF Unmoved, Running

(* A loop that only turns to something else.                                *)
LEMMA TurnsKeeps ==
  ASSUME RemoteInv, NEW l \in Loops, LoopAt(l, "select"),
         NEW pc \in {"select", "browser", "screen off"}, LoopIs(l, pc), LoopTypes',
         UNCHANGED <<osd, hook, call>>, events' \in Seq(Events), HasFresh' => HasFresh,
         pc # "select" => AllPast, Unmoved
  PROVE  RemoteInv'
  <1>1. call[l].pc = "out" /\ loop[l] = "select" /\ LoopScreen(l) /\ CallTypes /\ (osd => AllPast)
    BY LoopCalls DEF LoopAt
  <1>2. AllPast' <=> AllPast
    BY DEF AllPast, Past, Unmoved
  <1>3. browsing' = browsing
    BY DEF Unmoved
  <1>4. LoopScreen(l)'
    BY <1>1, <1>2, <1>3 DEF LoopScreen, LoopIs
  <1>5. QueueTypes' /\ CallTypes'
    BY LoopCalls DEF QueueTypes, CallTypes
  <1> QED BY <1>1, <1>4, <1>5, LoopGoesOn DEF Unmoved, Running

LEMMA HandleKeyKeeps ==
  ASSUME RemoteInv, NEW l \in Loops, HandleKey(l)
  PROVE  RemoteInv'
  <1>1. LoopAt(l, "select") /\ loop[l] \in Running /\ call[l].pc = "out" /\ Unmoved /\ loop[l] = "select"
    BY DEF HandleKey, LoopAt, Running
  <1>2. events \in Seq(Events) /\ LoopTypes /\ LoopScreen(l) /\ (browsing => AllPast)
    BY <1>1, LoopCalls DEF LoopScreen
  <1>3. CASE StartsPlaying(l, events) /\ browsing
    BY <1>1, <1>2, <1>3, StartsKeeps
  <1>4. CASE \E then \in {"browser", "screen off"} : StopsPlaying(l, events, then) /\ ~browsing
    BY <1>1, <1>2, <1>4, StopsKeeps
  <1>5. CASE Stays(l)
    <2>1. LoopIs(l, "select") /\ LoopTypes'
      BY <1>1, <1>2, <1>5 DEF Stays, LoopIs, LoopTypes
    <2> QED BY <1>1, <1>2, <1>5, <2>1, TurnsKeeps DEF Stays, HasFresh
  <1>6. CASE LoopTo(l, "screen off") /\ UNCHANGED <<osd, hook, events, call>> /\ browsing
    <2>1. LoopIs(l, "screen off") /\ LoopTypes'
      BY <1>2, <1>6, LoopMoves DEF LoopPlaces
    <2> QED BY <1>1, <1>2, <1>6, <2>1, TurnsKeeps DEF HasFresh
  <1> QED BY <1>3, <1>4, <1>5, <1>6 DEF HandleKey, BrowsingKey, PlayingKey

LEMMA HandleEventKeeps ==
  ASSUME RemoteInv, NEW l \in Loops, HandleEvent(l)
  PROVE  RemoteInv'
  <1> DEFINE q == Tail(events)
  <1>1. LoopAt(l, "select") /\ loop[l] \in Running /\ call[l].pc = "out" /\ Unmoved /\ loop[l] = "select"
    BY DEF HandleEvent, LoopAt, Running
  <1>2. /\ events \in Seq(Events) /\ LoopTypes /\ (browsing => AllPast)
        /\ ~browsing /\ HasFresh => AllPast
    BY <1>1, LoopCalls DEF LoopScreen
  <1>3. /\ q \in Seq(Events) /\ (Head(events) = "fresh" => HasFresh)
        /\ events' = q /\ HasFresh' => HasFresh
    BY <1>2, PoppedQueue DEF HandleEvent
  <1> HIDE DEF q
  <1>4. CASE StartsPlaying(l, q) /\ browsing
    BY <1>1, <1>2, <1>3, <1>4, StartsKeeps
  <1>5. CASE StopsPlaying(l, q, "replaying") /\ ~browsing
    BY <1>1, <1>2, <1>3, <1>5, StopsKeeps
  <1>6. CASE events' = q /\ UNCHANGED <<hook, call, osd>>
             /\ LoopTo(l, IF Current(Head(events)) /\ ~browsing THEN "browser" ELSE "select")
    <2>1. CASE Current(Head(events)) /\ ~browsing
      <3>1. AllPast
        BY <1>2, <1>3, <2>1 DEF Current
      <3>2. LoopIs(l, "browser") /\ LoopTypes'
        BY <1>2, <1>6, <2>1, LoopMoves DEF LoopPlaces
      <3> QED BY <1>1, <1>3, <1>6, <3>1, <3>2, TurnsKeeps
    <2>2. CASE ~(Current(Head(events)) /\ ~browsing)
      <3>1. LoopIs(l, "select") /\ LoopTypes'
        BY <1>2, <1>6, <2>2, LoopMoves DEF LoopPlaces
      <3> QED BY <1>1, <1>3, <1>6, <3>1, TurnsKeeps
    <2> QED BY <2>1, <2>2
  <1> QED BY <1>4, <1>5, <1>6 DEF HandleEvent, q

LEMMA ReplayKeeps ==
  ASSUME RemoteInv, NEW l \in Loops, Replay(l)
  PROVE  RemoteInv'
  <1>1. call[l].pc = "returned" /\ loop[l] = "replaying" /\ StartsPlaying(l, events) /\ Unmoved
    BY DEF Replay, Returned
  <1>2. AllPast /\ events \in Seq(Events)
    BY <1>1, LoopCalls
  <1> QED BY <1>1, <1>2, StartsKeeps DEF Running

(* A loop whose call has returned, or that has none, goes on.               *)
LEMMA BackKeeps ==
  ASSUME RemoteInv, NEW l \in Loops, loop[l] \in Running,
         call[l].pc \in {"out", "returned", "failed"}, Back(l),
         NEW pc \in {"select", "browser", "left"}, LoopTo(l, pc),
         UNCHANGED <<held, pinned, play, current, state, active, session, armed, at, hook, events>>,
         osd' => AllPast, pc # "select" \/ browsing' => AllPast,
         pc = "select" /\ ~browsing' => ~osd' /\ (HasFresh => AllPast), pc = "left" => ~osd'
  PROVE  RemoteInv'
  <1>1. CallTypes' /\ CallIs(l, "out", FALSE, NoPlay) /\ LoopTypes' /\ LoopIs(l, pc)
    BY LoopCalls, CallMoves, LoopMoves DEF CallPlaces, LoopPlaces
  <1>2. QueueTypes' /\ (HasFresh' <=> HasFresh)
    BY LoopCalls DEF QueueTypes, HasFresh
  <1>3. AllPast' <=> AllPast
    BY DEF AllPast, Past
  <1>4. LoopScreen(l)'
    BY <1>1, <1>2, <1>3 DEF LoopScreen, LoopIs, CallIs
  <1>5. (\A t \in Threads : t # l => call'[t] = call[t]) /\ call'[l].pc = "out"
    BY <1>1 DEF CallIs
  <1> QED BY <1>1, <1>2, <1>4, <1>5, LoopGoesOn DEF Running

LEMMA StartedKeeps ==
  ASSUME RemoteInv, NEW l \in Loops, Started(l)
  PROVE  RemoteInv'
  <1>1. /\ loop[l] = "starting" /\ Back(l) /\ call[l].pc \in {"returned", "failed"}
        /\ UNCHANGED <<held, pinned, play, current, state, active, session, armed, at, hook, events, osd>>
    BY DEF Started, Returned, Queues
  <1>2. ~osd /\ (HasFresh => AllPast) /\ (call[l].pc # "returned" => AllPast)
    BY <1>1, LoopCalls DEF LoopScreen
  <1>3. CASE Returned(l) /\ ~browsing' /\ LoopTo(l, "select")
    BY <1>1, <1>2, <1>3, BackKeeps DEF Running
  <1>4. CASE call[l].pc = "failed" /\ LoopTo(l, "browser")
    BY <1>1, <1>2, <1>4, BackKeeps DEF Running
  <1> QED BY <1>3, <1>4 DEF Started

LEMMA BackToBrowserKeeps ==
  ASSUME RemoteInv, NEW l \in Loops, BackToBrowser(l)
  PROVE  RemoteInv'
  <1>1. /\ loop[l] = "browser" /\ Back(l) /\ call[l].pc \in {"out", "returned"}
        /\ browsing' = TRUE /\ LoopTo(l, "select")
        /\ UNCHANGED <<held, pinned, play, current, state, active, session, armed, at, hook, events>>
    BY DEF BackToBrowser, Queues
  <1>2. AllPast
    BY <1>1, LoopCalls DEF LoopScreen
  <1> QED BY <1>1, <1>2, BackKeeps DEF Running

LEMMA SeeAskedKeeps ==
  ASSUME RemoteInv, NEW l \in Loops, SeeAsked(l)
  PROVE  RemoteInv'
  <1>1. LoopAt(l, "select") /\ call[l].pc = "out" /\ Unmoved /\ loop[l] = "select"
    BY DEF SeeAsked, LoopAt
  <1>2. events \in Seq(Events) /\ LoopTypes /\ (browsing => AllPast)
    BY <1>1, LoopCalls DEF LoopScreen
  <1>3. CASE browsing
    <2>1. LoopTo(l, "screen off") /\ UNCHANGED <<osd, hook, events, call>>
      BY <1>3 DEF SeeAsked
    <2>2. LoopIs(l, "screen off") /\ LoopTypes'
      BY <1>2, <2>1, LoopMoves DEF LoopPlaces
    <2> QED BY <1>1, <1>2, <1>3, <2>1, <2>2, TurnsKeeps DEF HasFresh
  <1>4. CASE ~browsing
    BY <1>1, <1>2, <1>4, StopsKeeps DEF SeeAsked
  <1> QED BY <1>3, <1>4

LEMMA ScreenOffKeeps ==
  ASSUME RemoteInv, NEW l \in Loops, ScreenOff(l)
  PROVE  RemoteInv'
  <1>1. /\ loop[l] = "screen off" /\ Back(l) /\ call[l].pc \in {"out", "returned"}
        /\ osd' = FALSE /\ LoopTo(l, "left")
        /\ UNCHANGED <<held, pinned, play, current, state, active, session, armed, at, hook, events>>
    BY DEF ScreenOff, Queues
  <1>2. AllPast
    BY <1>1, LoopCalls DEF LoopScreen
  <1> QED BY <1>1, <1>2, BackKeeps DEF Running

LEMMA LeaveKeeps ==
  ASSUME RemoteInv, NEW l \in Loops, Leave(l)
  PROVE  RemoteInv'
  <1> USE ThreadsAre DEF RemoteInv
  <1>1. /\ loop[l] = "left" /\ ~active' /\ LoopTo(l, "unhold")
        /\ UNCHANGED <<playerVars, session, armed, osd, hook, events, at>>
    BY DEF Leave, Queues
  <1>2. /\ \A k \in Loops \ {l} : loop[k] \notin Running
        /\ \A c \in Callers : at[c].pc \notin Entering \cup Asking /\ call[c].pc = "out"
    BY <1>1, RunsAlone DEF Running
  <1>3. LoopTypes' /\ loop'[l] = "unhold" /\ \A k \in Loops : k # l => loop'[k] = loop[k] /\ loop'[k] \notin Running
    BY <1>1, <1>2, LoopMoves DEF LoopIs, LoopPlaces, RemoteTypes
  <1>4. AllPast /\ ~osd
    BY <1>1, LoopCalls DEF LoopScreen
  <1> USE <1>1, <1>2, <1>3, <1>4 DEF playerVars
  <1>5. RemoteTypes'
    BY DEF RemoteTypes, CallTypes, PlayTypes, AtTypes, QueueTypes
  <1>6. \A k \in Loops : loop'[k] \notin Running
    BY DEF Running
  <1>7. Owners'
    <2>1. \A c \in Callers : at[c].pc = "resume" => at[c].of # l
      BY DEF Owners, OwnsIt
    <2>2. OwnsIt'
      BY <2>1 DEF Owners, OwnsIt
    <2> QED BY <1>6, <2>2 DEF Owners, RunsIt, EntersIt, AsksAlone
  <1>8. Calling'
    BY CallingKept DEF Calling
  <1>9. Playing'
    BY DEF Playing, IsKnown, Awaits, Taken, Going
  <1>10. Screens'
    BY <1>6 DEF Screens, LoopScreen, Running
  <1>11. Pins'
    <2>1. PinnedBy' = PinnedBy
      BY SamePins DEF PinCaller, PinLoop, Running
    <2>2. AllPast'
      BY DEF AllPast, Past
    <2>3. l \in PinnedBy
      BY DEF PinnedBy, Running
    <2>4. pinned > 0 /\ held
      BY <2>3, PinnedIsHeld
    <2> QED BY <2>1, <2>2, <2>4 DEF Pins
  <1>12. Arming'
    BY DEF Arming
  <1> QED BY <1>5, <1>7, <1>8, <1>9, <1>10, <1>11, <1>12

LEMMA UnholdKeeps ==
  ASSUME RemoteInv, NEW l \in Loops, Unhold(l)
  PROVE  RemoteInv'
  <1> USE ThreadsAre DEF RemoteInv
  <1>1. /\ loop[l] = "unhold" /\ LoopTo(l, "resume") /\ Unheld
        /\ UNCHANGED <<play, current, state, call, active, browsing, session, armed, osd, hook, events, at>>
    BY DEF Unhold, Queues
  <1>2. LoopTypes' /\ loop'[l] = "resume" /\ \A k \in Loops : k # l => loop'[k] = loop[k]
    BY <1>1, LoopMoves DEF LoopIs, LoopPlaces, RemoteTypes
  <1> USE <1>1, <1>2
  <1>3. l \in PinnedBy /\ PinnedBy' = PinnedBy \ {l}
    BY DEF PinnedBy, Running
  <1>4. /\ IsFiniteSet(PinnedBy') /\ pinned' = Cardinality(PinnedBy') /\ pinned' \in Nat
        /\ held' <=> pinned' > 0
        /\ \A y \in PinnedBy : y # l => held'
    BY <1>3, PinDropped
  <1>5. RemoteTypes'
    BY <1>4 DEF RemoteTypes, CallTypes, PlayTypes, AtTypes, QueueTypes
  <1>6. \A k \in Loops : loop'[k] \in Running <=> loop[k] \in Running
    BY DEF Running
  <1>7. Owners'
    <2>1. \A c \in Callers : at[c].pc \in Entering \cup {"resume"} => at[c].of # l
      BY DEF Owners, OwnsIt
    <2>2. \A c \in Callers : at[c].pc \notin Asking
      BY DEF Owners, AsksAlone, Between
    <2>3. OwnsIt'
      BY <2>1 DEF Owners, OwnsIt
    <2> QED BY <1>6, <2>2, <2>3 DEF Owners, RunsIt, EntersIt, AsksAlone
  <1>8. Calling'
    BY CallingKept DEF Calling
  <1>9. Playing'
    BY DEF Playing, IsKnown, Awaits, Taken, Going
  <1>10. Screens'
    <2>1. AllPast' <=> AllPast
      BY DEF AllPast, Past
    <2>2. HasFresh' <=> HasFresh
      BY DEF HasFresh
    <2>3. \A k \in Loops : LoopScreen(k)'
      BY <2>1, <2>2 DEF Screens, LoopScreen
    <2> QED BY <1>6, <2>1, <2>3 DEF Screens
  <1>11. Pins'
    <2>1. AllPast' <=> AllPast
      BY DEF AllPast, Past
    <2>2. ASSUME NEW k \in Loops, loop[k] \in Running PROVE held'
      <3>1. k \in PinnedBy /\ k # l
        BY <2>2 DEF PinnedBy, Running
      <3> QED BY <1>4, <3>1
    <2>3. AllPast \/ held'
      BY <2>2 DEF Pins
    <2>4. \A p \in Plays : ~Past(p)' => held'
      BY <2>3 DEF AllPast, Past
    <2>5. \A t \in Threads : call'[t].pc = "publish" => held'
      <3> SUFFICES ASSUME NEW t \in Threads, call[t].pc = "publish" PROVE held'
        OBVIOUS
      <3>1. call[t].start
        BY DEF Calling
      <3>2. t \notin Callers
        BY <3>1 DEF Calling, Asking, Owners, AsksAlone, Between
      <3>3. t \in Loops /\ loop[t] = "starting"
        BY <3>1, <3>2 DEF Calling
      <3> QED BY <2>2, <3>3 DEF Running
    <2>6. \A k \in Loops : loop'[k] = "unhold" => AllPast' \/ \E m \in Loops : loop'[m] \in Running
      BY <1>6, <2>1 DEF Pins
    <2>7. \A c \in Callers : at'[c].pc = "unhold" => AllPast'
      BY <2>1 DEF Pins
    <2> QED BY <1>4, <2>4, <2>5, <2>6, <2>7 DEF Pins
  <1>12. Arming'
    BY DEF Arming
  <1> QED BY <1>5, <1>7, <1>8, <1>9, <1>10, <1>11, <1>12

LEMMA RearmKeeps ==
  ASSUME RemoteInv, NEW l \in Loops, Rearm(l)
  PROVE  RemoteInv'
  <1> USE ThreadsAre DEF RemoteInv
  <1>1. /\ loop[l] = "resume" /\ LoopTo(l, "none") /\ armed' /\ at' = DoneClosed(l, at)
        /\ UNCHANGED <<playerVars, active, browsing, session, osd, hook, events>>
    BY DEF Rearm, Queues
  <1>2. LoopTypes' /\ loop'[l] = "none" /\ \A k \in Loops : k # l => loop'[k] = loop[k]
    BY <1>1, LoopMoves DEF LoopIs, LoopPlaces, RemoteTypes
  <1>3. AtTypes' /\ Wakes(l, at)
    BY <1>1, DoneMoves DEF RemoteTypes, AtTypes
  <1>4. \A d \in Callers : \/ at'[d] = at[d]
                           \/ /\ at[d].pc \in {"exit", "exit and stop"}
                              /\ at'[d].pc \in {"idle", "exited"}
    BY <1>3 DEF Wakes
  <1>5. \A c \in Callers : at[c].pc \notin Asking
    BY <1>1 DEF Owners, AsksAlone, Between
  <1> USE <1>1, <1>2, <1>4 DEF playerVars
  <1>6. RemoteTypes'
    BY <1>3 DEF RemoteTypes, CallTypes, PlayTypes, QueueTypes
  <1>7. \A k \in Loops : loop'[k] \in Running <=> loop[k] \in Running
    BY DEF Running
  <1>8. Owners'
    <2>1. \A c \in Callers : at[c].pc \in Entering \cup {"resume"} => at[c].of # l
      BY DEF Owners, OwnsIt
    <2>2. \A c \in Callers : at'[c].pc \in Entering \cup {"resume"} \cup Asking => at'[c] = at[c]
      BY DEF Entering, Asking
    <2>3. \A c \in Callers : at'[c].pc \notin Asking
      BY <1>5, <2>2
    <2>4. EntersIt'
      BY <1>7, <2>2 DEF Owners, EntersIt
    <2>5. OwnsIt'
      <3> SUFFICES ASSUME NEW d \in Callers, at'[d].pc \in Entering \cup {"resume"}
                   PROVE  /\ at'[d].of \in Loops /\ loop'[at'[d].of] = "none"
                          /\ \A e \in Callers : at'[e].pc \in Entering \cup {"resume"} /\ at'[e].of = at'[d].of
                                              => e = d
        BY DEF OwnsIt
      <3>1. at'[d] = at[d] /\ \A e \in Callers : at'[e].pc \in Entering \cup {"resume"} => at'[e] = at[e]
        BY <2>2
      <3>2. /\ at[d].of \in Loops /\ loop[at[d].of] = "none" /\ at[d].of # l
            /\ \A e \in Callers : at[e].pc \in Entering \cup {"resume"} /\ at[e].of = at[d].of => e = d
        BY <2>1, <3>1 DEF Owners, OwnsIt
      <3> QED BY <3>1, <3>2
    <2> QED BY <1>7, <2>3, <2>4, <2>5 DEF Owners, RunsIt, AsksAlone
  <1>9. Calling'
    <2>1. \A d \in Callers : call[d].pc # "out" => at'[d].pc = at[d].pc
      BY DEF Calling, Asking
    <2> QED BY <2>1, CallingKept DEF Calling
  <1>10. Playing'
    BY DEF Playing, IsKnown, Awaits, Taken, Going
  <1>11. Screens'
    <2>1. AllPast' <=> AllPast
      BY DEF AllPast, Past
    <2>2. HasFresh' <=> HasFresh
      BY DEF HasFresh
    <2>3. \A k \in Loops : LoopScreen(k)'
      BY <2>1, <2>2 DEF Screens, LoopScreen
    <2> QED BY <1>7, <2>1, <2>3 DEF Screens
  <1>12. Pins'
    <2>1. \A d \in Callers : PinCaller(d)' <=> PinCaller(d)
      BY DEF PinCaller
    <2>2. PinnedBy' = PinnedBy
      BY <2>1, SamePins DEF PinLoop, Running
    <2>3. \A d \in Callers : at'[d].pc = "unhold" => at[d].pc = "unhold"
      OBVIOUS
    <2> QED BY <1>7, <2>2, <2>3, PinsKept DEF Past, Going
  <1>13. Arming'
    BY DEF Arming
  <1> QED BY <1>6, <1>8, <1>9, <1>10, <1>11, <1>12, <1>13

LEMMA LoopKeeps ==
  ASSUME RemoteInv, NEW l \in Loops, LoopSteps(l)
  PROVE  RemoteInv'
  BY HandleKeyKeeps, HandleEventKeeps, ReplayKeeps, StartedKeeps, BackToBrowserKeeps, SeeAskedKeeps,
     ScreenOffKeeps, LeaveKeeps, UnholdKeeps, RearmKeeps
  DEF LoopSteps

-----------------------------------------------------------------------------
(* Everything else a step may be.                                           *)

(* The queues and the browser.                                              *)
LEMMA QueueKeeps ==
  ASSUME RemoteInv, QueueTypes', HasFresh' => HasFresh, osd' => osd,
         UNCHANGED <<held, pinned, play, current, call, active, browsing, session, loop, armed, at>>
  PROVE  RemoteInv'
  <1> USE DEF RemoteInv
  <1>1. RemoteTypes'
    BY DEF RemoteTypes, CallTypes, PlayTypes, LoopTypes, AtTypes
  <1>2. Owners'
    BY DEF Owners, RunsIt, EntersIt, OwnsIt, AsksAlone, Between
  <1>3. Calling'
    BY CallingKept
  <1>4. Playing'
    BY DEF Playing, IsKnown, Awaits, Taken, Going
  <1>5. Screens'
    BY ScreensKept DEF AllPast, Past
  <1>6. Pins'
    <2>1. PinnedBy' = PinnedBy
      BY SamePins DEF PinCaller, PinLoop
    <2> QED BY <2>1, PinsKept DEF Past, Going
  <1>7. Arming'
    BY DEF Arming
  <1> QED BY <1>1, <1>2, <1>3, <1>4, <1>5, <1>6, <1>7

LEMMA OtherKeeps ==
  ASSUME RemoteInv,
         PressKey \/ Refresh \/ OsdExits \/ (OwnerStarts /\ UNCHANGED remoteVars) \/ UNCHANGED vars
  PROVE  RemoteInv'
  <1>1. events \in Seq(Events) /\ hook \in {"none", "fresh", "stale"}
    BY DEF RemoteInv, RemoteTypes, QueueTypes
  <1>2. CASE Refresh
    <2>1. events' \in Seq(Events) /\ (HasFresh' => HasFresh)
      BY <1>1, <1>2, PostedQueue DEF Refresh, Events
    <2> QED BY <1>1, <1>2, <2>1, QueueKeeps DEF playerVars, Refresh, QueueTypes, Session
  <1>3. CASE PressKey
    BY <1>1, <1>3, QueueKeeps DEF playerVars, PressKey, QueueTypes, Session, HasFresh
  <1>4. CASE OsdExits
    BY <1>1, <1>4, QueueKeeps DEF playerVars, OsdExits, QueueTypes, Session, Queues, HasFresh
  <1>5. CASE UNCHANGED vars
    BY <1>1, <1>5, QueueKeeps DEF playerVars, vars, remoteVars, QueueTypes, HasFresh
  <1>6. CASE OwnerStarts /\ UNCHANGED remoteVars
    BY <1>1, <1>6, QueueKeeps DEF OwnerStarts, remoteVars, Session, QueueTypes, HasFresh
  <1> QED BY <1>2, <1>3, <1>4, <1>5, <1>6

(* A playback goes on: it is past drawing for good, and its last deferred
   calls give the display back.                                             *)
PastPlaces == {"release", "restoring", "over"}

LEMMA PlaysOn ==
  ASSUME RemoteInv, NEW p \in Plays, NEW pc, PlayTypes', PlayIs(p, pc), QueueTypes',
         play[p].pc # "over",
         play[p].pc \in PastPlaces => pc \in {"restoring", "over"},
         play[p].pc = "restoring" => pc = "over",
         \/ HasFresh' => HasFresh
         \/ play[p].pc = "end" /\ pc = "release",
         \/ held' = held /\ (play[p].pc # "restoring" => pc \notin {"restoring", "over"})
         \/ play[p].pc = "release" /\ (held' <=> held /\ pinned > 0),
         UNCHANGED <<pinned, current, call, Session, osd, at>>
  PROVE  RemoteInv'
  <1> USE ThreadsAre DEF RemoteInv, Session, PlayIs
  <1>1. RemoteTypes'
    BY DEF RemoteTypes, CallTypes, LoopTypes, AtTypes
  <1>2. Owners'
    BY DEF Owners, RunsIt, EntersIt, OwnsIt, AsksAlone, Between
  <1>3. Calling'
    BY CallingKept
  <1>4. \A q \in Plays : Going(q)' => Going(q)
    BY DEF Going, PastPlaces
  <1>5. \A q \in Plays : Past(q) => Past(q)'
    BY DEF Past, PastPlaces
  <1>6. AllPast => AllPast'
    BY <1>5 DEF AllPast
  <1>7. Playing'
    BY <1>4, PlayingKept DEF Taken
  <1>8. Screens'
    <2>1. CASE HasFresh' => HasFresh
      BY <1>6, <2>1, ScreensKept
    <2>2. CASE play[p].pc = "end" /\ pc = "release"
      <3>1. Going(p) /\ ~Past(p)
        BY <2>2 DEF Going, Past
      <3>2. \A q \in Plays : q # p => ~Going(q)
        BY <3>1, OneGoing
      <3>3. AllPast'
        BY <2>2, <3>2 DEF AllPast, Past, Going
      <3>4. ~AllPast
        BY <3>1 DEF AllPast
      <3>5. ~osd
        BY <3>4 DEF Screens
      <3>6. \A l \in Loops : LoopScreen(l)'
        BY <3>3, <3>4, <3>5 DEF Screens, LoopScreen
      <3> QED BY <3>5, <3>6 DEF Screens
    <2> QED BY <2>1, <2>2
  <1>9. Pins'
    <2>1. PinnedBy' = PinnedBy
      BY SamePins DEF PinCaller, PinLoop
    <2>2. CASE held' = held /\ (play[p].pc # "restoring" => pc \notin {"restoring", "over"})
      <3>1. \A q \in Plays : Going(q) => Going(q)'
        BY <2>2 DEF Going
      <3> QED BY <1>5, <2>1, <2>2, <3>1, PinsKept
    <2>3. CASE play[p].pc = "release" /\ (held' <=> held /\ pinned > 0)
      <3>1. Going(p)
        BY <2>3 DEF Going
      <3>2. \A q \in Plays : q # p => ~Going(q)
        BY <3>1, OneGoing
      <3>3. \A q \in Plays : Past(q)'
        BY <2>3, <3>2 DEF Past, Going, PastPlaces
      <3>4. \A t \in Threads : call[t].pc # "publish"
        BY <3>1, NoneGoing
      <3>5. AllPast'
        BY <3>3 DEF AllPast
      <3>6. (held' => pinned > 0) /\ (pinned > 0 => held')
        BY <2>3 DEF Pins
      <3> QED BY <2>1, <3>3, <3>4, <3>5, <3>6 DEF Pins
    <2> QED BY <2>2, <2>3
  <1>10. Arming'
    BY DEF Arming
  <1> QED BY <1>1, <1>2, <1>3, <1>7, <1>8, <1>9, <1>10

LEMMA RunsKeeps ==
  ASSUME RemoteInv, NEW p \in Plays, Runs(p)
  PROVE  RemoteInv'
  <1>0. PlayTypes /\ events \in Seq(Events) /\ hook \in {"none", "fresh", "stale"} /\ QueueTypes
        /\ play[p].fails \in Nat /\ play[p].pc \in PlayPlaces
    BY DEF RemoteInv, RemoteTypes, QueueTypes, PlayTypes
  <1>1. CASE Hook(p)
    <2>1. play[p].pc = "end" /\ UNCHANGED <<held, pinned, current, call, Session, osd, hook, at>>
          /\ PlayTypes' /\ PlayIs(p, "release")
      BY <1>0, <1>1, PlayMoves DEF Hook, Hooked, Quiet, PlayPlaces
    <2>2. events' \in Seq(Events)
      BY <1>0, <1>1, PostedQueue DEF Hook, Events
    <2>3. QueueTypes'
      BY <1>0, <2>1, <2>2 DEF QueueTypes
    <2> QED BY <2>1, <2>3, PlaysOn DEF PastPlaces
  <1>2. CASE PlaySteps(p) /\ UNCHANGED remoteVars
    <2>1. /\ UNCHANGED <<Session, osd, at>> /\ QueueTypes' /\ (HasFresh' => HasFresh)
      BY <1>0, <1>2 DEF remoteVars, Session, QueueTypes, HasFresh
    <2>2. ASSUME play[p].pc \notin PastPlaces, NEW pc \in PlayPlaces \ PastPlaces,
                 PlayTypes', PlayIs(p, pc), Quiet
          PROVE  RemoteInv'
      BY <2>1, <2>2, PlaysOn DEF Quiet, PastPlaces
    <2>3. \A pc \in PlayPlaces : To(p, pc) => PlayTypes' /\ PlayIs(p, pc)
      BY <1>0, PlayMoves
    <2>4. CASE Top(p)
      <3>1. play[p].pc = "top" /\ Quiet /\ \E pc \in {"end", "render", "draw"} : To(p, pc)
        BY <2>4 DEF Top
      <3> QED BY <2>2, <2>3, <3>1 DEF PlayPlaces, PastPlaces
    <2>5. CASE Rendered(p) \/ Page(p) \/ Stopped(p) \/ Paused(p)
      <3>1. /\ play[p].pc \in {"render", "page", "draw", "drawPage", "pause"} /\ Quiet
            /\ \E pc \in {"page", "end", "drawPage", "top"} : To(p, pc)
        BY <2>5 DEF Rendered, Page, Stopped, Paused, Drawing
      <3> QED BY <2>2, <2>3, <3>1 DEF PlayPlaces, PastPlaces
    <2>6. ASSUME play[p].pc \in {"draw", "drawPage", "render"}, Quiet,
                 NEW pc \in {"top", "page", "end", "pause"}, NEW n \in Nat,
                 play' = [play EXCEPT ![p].pc = pc, ![p].fails = n]
          PROVE  RemoteInv'
      <3>1. PlayTypes' /\ PlayIs(p, pc)
        BY <1>0, <2>6, PlayMoves DEF PlayPlaces
      <3> QED BY <2>2, <2>6, <3>1 DEF PlayPlaces, PastPlaces
    <2>7. CASE Played(p)
      <3>1. PICK pc \in {"top", "page"} :
              play' = [play EXCEPT ![p].pc = pc, ![p].fails = IF pc = "top" THEN 0 ELSE play[p].fails]
        BY <2>7 DEF Played
      <3>2. Quiet /\ play[p].pc \in {"draw", "drawPage"}
        BY <2>7 DEF Played, Drawing
      <3>3. (IF pc = "top" THEN 0 ELSE play[p].fails) \in Nat
        BY <1>0
      <3> QED BY <2>6, <3>1, <3>2, <3>3
    <2>8. CASE Fails(p)
      <3> DEFINE n == play[p].fails + 1
                 pc == IF n >= Limit THEN "end" ELSE "pause"
      <3>1. play' = [play EXCEPT ![p].pc = pc, ![p].fails = n] /\ Quiet
            /\ play[p].pc \in {"draw", "drawPage", "render"}
        BY <2>8 DEF Fails, Drawing
      <3>2. n \in Nat /\ pc \in {"end", "pause"}
        BY <1>0
      <3> HIDE DEF n, pc
      <3> QED BY <2>6, <3>1, <3>2
    <2>9. CASE Release(p)
      <3>1. play[p].pc = "release" /\ UNCHANGED <<pinned, current, call>>
        BY <2>9 DEF Release, Released
      <3>2. held' <=> held /\ pinned > 0
        BY <2>9 DEF Release, Released
      <3>3. \E pc \in {"restoring", "over"} : PlayTypes' /\ PlayIs(p, pc)
        <4>1. \/ play' = [play EXCEPT ![p] = [@ EXCEPT !.pc = "restoring"]]
              \/ play' = [play EXCEPT ![p] = Fresh]
          BY <2>9 DEF Release
        <4> QED BY <1>0, <4>1, PlayMoves DEF PlayPlaces
      <3> QED BY <2>1, <3>1, <3>2, <3>3, PlaysOn DEF PastPlaces
    <2>10. CASE Restored(p)
      <3>1. play[p].pc = "restoring" /\ UNCHANGED <<held, pinned, current, call>>
            /\ play' = [play EXCEPT ![p] = Fresh]
        BY <2>10 DEF Restored, Quiet
      <3>2. PlayTypes' /\ PlayIs(p, "over")
        BY <1>0, <3>1, PlayMoves DEF PlayPlaces
      <3> QED BY <2>1, <3>1, <3>2, PlaysOn DEF PastPlaces
    <2> QED BY <1>2, <2>4, <2>5, <2>7, <2>8, <2>9, <2>10 DEF PlaySteps
  <1> QED BY <1>1, <1>2 DEF Runs

-----------------------------------------------------------------------------
(* Inside a call of the player.                                             *)

LEMMA CallPuts ==
  ASSUME CallTypes, NEW t \in Threads, NEW pc \in CallPlaces, NEW q \in Plays \cup {NoPlay},
         call' = [call EXCEPT ![t].pc = pc, ![t].of = q]
  PROVE  CallTypes' /\ CallIs(t, pc, call[t].start, q)
  BY DEF CallTypes, CallIs

(* Before the playback is published: what is left to show is whose it is.   *)
LEMMA CallGoesOn ==
  ASSUME RemoteInv, NEW t \in Threads, NEW pc \in {"wait", "acquire", "publish", "returned", "failed"},
         NEW q, CallTypes', CallIs(t, pc, call[t].start, q), PlayTypes',
         call[t].pc \in {"take", "wait", "acquire"},
         pc \in {"acquire", "publish", "failed"} => call[t].start,
         pc = "returned" => ~call[t].start,
         \A p \in Plays : play'[p].pc = play[p].pc,
         Playing', current' \in Plays \cup {NoPlay},
         held' = held \/ held' = TRUE, pc = "publish" <=> held' = TRUE /\ call[t].pc = "acquire" /\ pc # "failed",
         pc # "publish" => held' = held,
         UNCHANGED pinned, UNCHANGED remoteVars
  PROVE  RemoteInv'
  <1> USE ThreadsAre DEF RemoteInv, remoteVars
  <1>1. RemoteTypes'
    BY DEF RemoteTypes, LoopTypes, AtTypes, QueueTypes
  <1>2. Owners'
    BY DEF Owners, RunsIt, EntersIt, OwnsIt, AsksAlone, Between
  <1>3. /\ call'[t].pc = pc /\ (call'[t].start <=> call[t].start)
        /\ \A u \in Threads : u # t => call'[u] = call[u]
    BY DEF CallIs
  <1>4. Calling'
    <2>1. \A u \in Threads : call'[u].pc # "out" => call[u].pc # "out" /\ (call'[u].start <=> call[u].start)
      BY <1>3
    <2>2. \A u \in Threads : call'[u].pc \in {"acquire", "publish", "failed"} => call'[u].start
      BY <1>3 DEF Calling
    <2> QED BY <2>1, <2>2 DEF Calling
  <1>5. AllPast' <=> AllPast
    BY DEF AllPast, Past
  <1>6. Screens'
    <2>1. HasFresh' <=> HasFresh
      BY DEF HasFresh
    <2>2. \A l \in Loops : LoopScreen(l)'
      <3> SUFFICES ASSUME NEW l \in Loops PROVE LoopScreen(l)'
        OBVIOUS
      <3>1. LoopScreen(l) /\ l \in Threads
        BY DEF Screens
      <3>2. CASE l # t
        BY <1>3, <1>5, <2>1, <3>1, <3>2 DEF LoopScreen
      <3>3. CASE l = t
        BY <1>3, <1>5, <2>1, <3>1, <3>3 DEF LoopScreen
      <3> QED BY <3>2, <3>3
    <2> QED BY <1>5, <2>1, <2>2 DEF Screens
  <1>7. Pins'
    <2>1. PinnedBy' = PinnedBy
      BY SamePins DEF PinCaller, PinLoop
    <2>2. \A p \in Plays : (Past(p)' <=> Past(p)) /\ (Going(p)' <=> Going(p))
      BY DEF Past, Going
    <2>3. CASE pc # "publish"
      <3>1. \A u \in Threads : call'[u].pc = "publish" <=> call[u].pc = "publish"
        BY <1>3, <2>3
      <3> QED BY <2>1, <2>2, <2>3, <3>1, PinsKept
    <2>4. CASE pc = "publish"
      <3>1. held'
        BY <2>4
      <3>2. call'[t].pc = "publish"
        BY <1>3, <2>4
      <3> QED BY <1>5, <2>1, <3>1, <3>2 DEF Pins
    <2> QED BY <2>3, <2>4
  <1>8. Arming'
    BY DEF Arming
  <1> QED BY <1>1, <1>2, <1>4, <1>6, <1>7, <1>8, Zenon

LEMMA TakeKeeps ==
  ASSUME RemoteInv, NEW t \in Threads, Take(t), UNCHANGED remoteVars
  PROVE  RemoteInv'
  <1>0. CallTypes /\ PlayTypes /\ Playing /\ call[t].pc = "take" /\ current' = NoPlay
        /\ UNCHANGED <<held, pinned, state>> /\ current \in Plays \cup {NoPlay}
        /\ call[t].start \in BOOLEAN
    BY DEF RemoteInv, RemoteTypes, Take, CallTypes
  <1>1. \A u \in Threads : u # t => call[u].pc = "out"
    BY <1>0, OneCall DEF RemoteInv
  <1>2. CASE current = NoPlay
    <2>1. PICK pc \in {"acquire", "returned"} :
            /\ CallTypes' /\ CallIs(t, pc, call[t].start, call[t].of)
            /\ pc = "acquire" <=> call[t].start
      BY <1>0, <1>2, CallMoves DEF Take, AfterStop, CallPlaces
    <2>2. UNCHANGED play
      BY <1>2 DEF Take
    <2>3. \A p \in Plays : ~Going(p)
      BY <1>0, <1>1, <1>2, ThreadsAre DEF Playing, IsKnown
    <2>4. Playing'
      <3>1. \A p \in Plays : ~Going(p)'
        BY <2>2, <2>3 DEF Going
      <3>2. \A u \in Threads : call'[u].pc # "wait"
        BY <1>1, <2>1 DEF CallIs
      <3> QED BY <1>0, <3>1, <3>2 DEF Playing, IsKnown, Awaits
    <2>5. PlayTypes'
      BY <1>0, <2>2 DEF PlayTypes
    <2> QED BY <1>0, <2>1, <2>2, <2>4, <2>5, CallGoesOn
  <1>3. CASE current # NoPlay
    <2>1. CallTypes' /\ CallIs(t, "wait", call[t].start, current)
      BY <1>0, <1>3, CallPuts DEF Take, CallPlaces
    <2>2. PlayTypes' /\ PlayIs(current, play[current].pc)
      <3>1. play[current].pc \in PlayPlaces /\ current \in Plays
        BY <1>0, <1>3 DEF PlayTypes
      <3> QED BY <1>0, <1>3, <3>1, PlayMoves DEF Take
    <2>3. \A p \in Plays : play'[p].pc = play[p].pc
      BY <2>2 DEF PlayIs
    <2>4. Playing'
      <3>1. \A p \in Plays : Going(p) => p = current
        BY <1>0, <1>1, ThreadsAre DEF Playing, IsKnown
      <3>2. call'[t].pc = "wait" /\ call'[t].of = current /\ \A u \in Threads : u # t => call'[u].pc = "out"
        BY <1>1, <2>1 DEF CallIs
      <3>3. \A p \in Plays : Going(p)' => p = current
        BY <2>3, <3>1 DEF Going
      <3> QED BY <1>0, <1>3, <3>2, <3>3 DEF Playing, IsKnown, Awaits
    <2> QED BY <1>0, <2>1, <2>2, <2>3, <2>4, CallGoesOn
  <1> QED BY <1>2, <1>3

LEMMA WaitedKeeps ==
  ASSUME RemoteInv, Outlasts \subseteq {"restoring"}, NEW t \in Threads, Waited(t), UNCHANGED remoteVars
  PROVE  RemoteInv'
  <1>0. CallTypes /\ PlayTypes /\ Playing /\ call[t].pc = "wait" /\ UNCHANGED <<held, pinned, play, current>>
        /\ current \in Plays \cup {NoPlay}
    BY DEF RemoteInv, RemoteTypes, Waited
  <1>1. PICK pc \in {"acquire", "returned"} :
          /\ CallTypes' /\ CallIs(t, pc, call[t].start, NoPlay)
          /\ pc = "acquire" <=> call[t].start
    BY <1>0, CallPuts DEF Waited, AfterStop, CallPlaces
  <1>2. ~Going(call[t].of) /\ current = NoPlay
    BY <1>0 DEF Waited, Going, Playing, Taken
  <1>3. \A u \in Threads : u # t => call[u].pc = "out"
    BY <1>0, OneCall DEF RemoteInv
  <1>4. \A p \in Plays : ~Going(p)
    BY <1>0, <1>2, <1>3, ThreadsAre DEF Playing, IsKnown
  <1>5. Playing'
    <2>1. \A p \in Plays : ~Going(p)'
      BY <1>0, <1>4 DEF Going
    <2>2. \A u \in Threads : call'[u].pc # "wait"
      BY <1>1, <1>3 DEF CallIs
    <2> QED BY <1>0, <1>2, <2>1, <2>2 DEF Playing, IsKnown, Awaits
  <1>6. PlayTypes'
    BY <1>0 DEF PlayTypes
  <1> QED BY <1>0, <1>1, <1>5, <1>6, CallGoesOn

LEMMA AcquireKeeps ==
  ASSUME RemoteInv, NEW t \in Threads, Acquire(t), UNCHANGED remoteVars
  PROVE  RemoteInv'
  <1>0. CallTypes /\ PlayTypes /\ Playing /\ call[t].pc = "acquire" /\ UNCHANGED <<pinned, play, current>>
        /\ current \in Plays \cup {NoPlay} /\ call[t].start
    BY DEF RemoteInv, RemoteTypes, Acquire, Calling
  <1>1. /\ GoOn(t, "publish") => CallTypes' /\ CallIs(t, "publish", call[t].start, call[t].of)
        /\ GoOn(t, "failed") => CallTypes' /\ CallIs(t, "failed", call[t].start, call[t].of)
    BY <1>0, CallMoves DEF CallPlaces
  <1>2. PICK pc \in {"publish", "failed"} :
          /\ CallTypes' /\ CallIs(t, pc, call[t].start, call[t].of)
          /\ pc = "publish" => held' = TRUE
          /\ pc = "failed" => held' = held
    BY <1>1 DEF Acquire, AcquireOk, NotAcquired
  <1>3. current = NoPlay /\ (\A p \in Plays : ~Going(p)) /\ \A u \in Threads : u # t => call[u].pc = "out"
    BY <1>0, NoneGoing, OneCall DEF RemoteInv
  <1>4. Playing'
    <2>1. \A p \in Plays : ~Going(p)'
      BY <1>0, <1>3 DEF Going
    <2>2. \A u \in Threads : call'[u].pc # "wait"
      BY <1>2, <1>3 DEF CallIs
    <2> QED BY <1>0, <1>3, <2>1, <2>2 DEF Playing, IsKnown, Awaits
  <1>5. PlayTypes'
    BY <1>0 DEF PlayTypes
  <1> QED BY <1>0, <1>2, <1>4, <1>5, CallGoesOn

LEMMA PublishKeeps ==
  ASSUME RemoteInv, NEW t \in Threads, Publish(t), UNCHANGED remoteVars
  PROVE  RemoteInv'
  <1> USE ThreadsAre DEF RemoteInv, remoteVars
  <1>0. CallTypes /\ PlayTypes /\ call[t].pc = "publish" /\ UNCHANGED <<held, pinned>> /\ call[t].start /\ held
    BY DEF RemoteTypes, Publish, Calling, Pins
  <1>1. /\ current = NoPlay /\ AllPast /\ (\A p \in Plays : ~Going(p))
        /\ \A u \in Threads : u # t => call[u].pc = "out"
    BY <1>0, NoneGoing, OneCall
  <1>2. PICK p \in Plays : current' = p /\ play' = [play EXCEPT ![p] = [Fresh EXCEPT !.pc = "top"]]
    BY DEF Publish
  <1>3. PlayTypes' /\ PlayIs(p, "top")
    BY <1>0, <1>2, PlayMoves DEF PlayPlaces
  <1>4. CallTypes' /\ CallIs(t, "returned", call[t].start, call[t].of)
    BY <1>0, CallMoves DEF Publish, CallPlaces
  <1>5. /\ call'[t].pc = "returned" /\ call'[t].start
        /\ \A u \in Threads : u # t => call'[u] = call[u] /\ call'[u].pc = "out"
    BY <1>0, <1>1, <1>4 DEF CallIs
  <1>6. RemoteTypes'
    BY <1>0, <1>2, <1>3, <1>4 DEF RemoteTypes, LoopTypes, AtTypes, QueueTypes
  <1>7. Owners'
    BY DEF Owners, RunsIt, EntersIt, OwnsIt, AsksAlone, Between
  <1>8. Calling'
    <2>1. \A u \in Threads : call'[u].pc # "out" => call[u].pc # "out" /\ (call'[u].start <=> call[u].start)
      BY <1>0, <1>5
    <2>2. \A u \in Threads : call'[u].pc \in {"acquire", "publish", "failed"} => call'[u].start
      BY <1>5
    <2> QED BY <2>1, <2>2 DEF Calling
  <1>9. Playing'
    <2>1. \A q \in Plays : Going(q)' => q = p
      BY <1>1, <1>3 DEF PlayIs, Going
    <2>2. \A u \in Threads : ~Taken(u)' /\ call'[u].pc # "wait"
      BY <1>5 DEF Taken
    <2> QED BY <1>2, <2>1, <2>2 DEF Playing, IsKnown, Awaits
  (* Who publishes is a loop that starts a playback, or a handler while there
     is no session.                                                          *)
  <1>10. \/ t \in Loops /\ loop[t] = "starting"
         \/ Between /\ \A c \in Callers : at[c].pc \notin Entering
    <2>1. CASE t \in Callers
      <3>1. at[t].pc = "play"
        BY <1>0, <2>1 DEF Calling
      <3>2. Between
        BY <2>1, <3>1 DEF Owners, AsksAlone, Asking
      <3> QED BY <3>2 DEF Owners, EntersIt, Between
    <2>2. CASE t \in Loops
      BY <1>0, <2>2 DEF Calling
    <2> QED BY <2>1, <2>2
  <1>11. Screens'
    <2>1. CASE t \in Loops /\ loop[t] = "starting"
      <3>1. /\ ~osd /\ ~HasFresh
        BY <1>0, <2>1 DEF Screens, LoopScreen
      <3>2. ~HasFresh' /\ ~osd'
        BY <3>1 DEF HasFresh
      <3>3. \A k \in Loops : k # t => loop[k] \notin Running
        BY <2>1 DEF Owners, RunsIt, Running
      <3>4. \A k \in Loops : LoopScreen(k)'
        BY <1>5, <2>1, <3>2, <3>3 DEF LoopScreen, Running
      <3> QED BY <3>2, <3>4 DEF Screens
    <2>2. CASE Between
      <3>1. \A k \in Loops : loop[k] = "none" /\ loop'[k] = "none"
        BY <2>2 DEF Between
      <3>2. ~osd'
        BY <3>1 DEF Screens, Running
      <3> QED BY <3>1, <3>2 DEF Screens, LoopScreen
    <2> QED BY <1>10, <2>1, <2>2
  <1>12. Pins'
    <2>1. PinnedBy' = PinnedBy
      BY SamePins DEF PinCaller, PinLoop
    <2>2. Going(p)' /\ held'
      BY <1>0, <1>3 DEF Going, PlayIs
    <2>3. \A c \in Callers : at'[c].pc # "unhold"
      <3>1. CASE t \in Loops /\ loop[t] = "starting"
        BY <3>1, RunsAlone DEF Running, Entering
      <3> QED BY <1>10, <3>1 DEF Entering
    <2>4. \A l \in Loops : loop'[l] = "unhold" => \E k \in Loops : loop'[k] \in Running
      BY <1>10 DEF Between, Running
    <2> QED BY <1>0, <2>1, <2>2, <2>3, <2>4 DEF Pins
  <1>13. Arming'
    BY DEF Arming
  <1> QED BY <1>6, <1>7, <1>8, <1>9, <1>11, <1>12, <1>13

LEMMA InsideKeeps ==
  ASSUME RemoteInv, Outlasts \subseteq {"restoring"}, NEW t \in Threads, Inside(t)
  PROVE  RemoteInv'
  BY TakeKeeps, WaitedKeeps, AcquireKeeps, PublishKeeps DEF Inside, CallSteps

-----------------------------------------------------------------------------
(* The invariant and what follows from it.                                  *)

LEMMA RemoteStarts == Init => RemoteInv
  <1> SUFFICES ASSUME Init PROVE RemoteInv
    OBVIOUS
  <1> USE ThreadsAre DEF Init, PlayerInit
  <1>1. RemoteTypes
    <2>1. QueueTypes
      BY EmptySeq DEF QueueTypes
    <2>2. AtTypes /\ LoopTypes
      BY DEF AtTypes, LoopTypes, Places, LoopPlaces
    <2>3. CallTypes /\ PlayTypes
      BY DEF CallTypes, PlayTypes, CallPlaces, PlayPlaces, Fresh
    <2> QED BY <2>1, <2>2, <2>3 DEF RemoteTypes
  <1>2. /\ \A c \in Callers : at[c].pc = "idle"
        /\ \A l \in Loops : loop[l] = "none"
        /\ \A t \in Threads : call[t].pc = "out"
        /\ \A p \in Plays : play[p].pc = "over"
    BY DEF Fresh
  <1>3. Owners /\ Calling /\ Playing
    BY <1>2 DEF Owners, RunsIt, EntersIt, OwnsIt, AsksAlone, Calling, Playing, IsKnown, Awaits, Taken,
                Going, Entering, Asking, Running
  <1>4. Screens /\ Arming
    BY <1>2 DEF Screens, LoopScreen, Arming
  <1>5. Pins
    <2>1. PinnedBy = {}
      BY <1>2 DEF PinnedBy, Running
    <2>2. \A p \in Plays : Past(p)
      BY <1>2 DEF Past
    <2> QED BY <1>2, <2>1, <2>2, FS_EmptySet DEF Pins
  <1> QED BY <1>1, <1>3, <1>4, <1>5 DEF RemoteInv

LEMMA RemoteKeeps ==
  ~Intrudes /\ Outlasts \subseteq {"restoring"} => (RemoteInv /\ [Next]_vars => RemoteInv')
  BY CallerKeeps, InsideKeeps, LoopKeeps, RunsKeeps, OtherKeeps DEF Next

LEMMA RemoteDraws == RemoteInv => OneDrawsAndHolds
  <1> SUFFICES ASSUME RemoteInv PROVE OneDrawsAndHolds
    OBVIOUS
  <1> USE DEF RemoteInv
  <1> DEFINE D == {p \in Plays : Drawing(p)}
  <1>1. \A p \in Plays : Drawing(p) => Going(p) /\ ~Past(p)
    BY DEF Drawing, Going, Past
  <1>2. osd => D = {}
    BY <1>1 DEF Screens, AllPast
  <1>3. Cardinality(D) \in {0, 1} /\ (D = {} => Cardinality(D) = 0)
    <2>1. CASE D = {}
      BY <2>1, FS_EmptySet
    <2>2. CASE D # {}
      <3>1. PICK p \in D : TRUE
        BY <2>2
      <3>2. D = {p}
        BY <1>1, <3>1, OneGoing
      <3> QED BY <2>2, <3>2, FS_Singleton
    <2> QED BY <2>1, <2>2
  <1>4. OneDraws
    <2> HIDE DEF D
    <2>1. Cardinality(D) + (IF osd THEN 1 ELSE 0) <= 1
      BY <1>2, <1>3
    <2> QED BY <2>1 DEF OneDraws, D
  <1>5. osd => held
    <2> SUFFICES ASSUME osd PROVE held
      OBVIOUS
    <2>1. PinnedBy # {}
      BY DEF Screens, PinnedBy
    <2> QED BY <2>1, PinnedIsHeld
  <1>6. (\E p \in Plays : Drawing(p)) => held
    BY <1>1 DEF Pins
  <1> QED BY <1>4, <1>5, <1>6 DEF OneDrawsAndHolds, DrawsOnlyWhenHeld

-----------------------------------------------------------------------------
(* BirdDogRunner: while bdplay has the display it does not run, and while
   bdplay has not, it runs, unless bdplay gave up on it.                    *)
RunnerInv ==
  /\ held \in BOOLEAN /\ runner \in {"runs", "ours", "left"}
  /\ runner = "runs" => ~held
  /\ runner = "ours" => held
  /\ runner = "left" => gaveUp

DisplayStep == \/ AcquireOk \/ NotAcquired \/ Released \/ Unheld \/ OwnerStarts
               \/ UNCHANGED <<held, runner, gaveUp>>

LEMMA RunnerOn == RunnerInv /\ DisplayStep => RunnerInv'
  <1> SUFFICES ASSUME RunnerInv, DisplayStep PROVE RunnerInv'
    OBVIOUS
  <1> USE DEF RunnerInv
  <1>1. CASE AcquireOk
    BY <1>1 DEF AcquireOk
  <1>2. CASE NotAcquired
    BY <1>2 DEF NotAcquired
  <1>3. CASE Released
    BY <1>3 DEF Released, Restart
  <1>4. CASE Unheld
    BY <1>4 DEF Unheld, Restart
  <1>5. CASE OwnerStarts \/ UNCHANGED <<held, runner, gaveUp>>
    BY <1>5 DEF OwnerStarts
  <1> QED BY <1>1, <1>2, <1>3, <1>4, <1>5 DEF DisplayStep

(* Nothing touches the display but its own operations, and the owner.       *)
LEMMA OnlyTheDisplay == [Next]_vars => DisplayStep
  <1> SUFFICES ASSUME [Next]_vars PROVE DisplayStep
    OBVIOUS
  <1> USE DEF DisplayStep
  <1>1. ASSUME NEW c \in Callers, CallerSteps(c) PROVE DisplayStep
    <2>1. CASE Hold(c)
      BY <2>1 DEF Hold, Held
    <2>2. CASE Undo(c)
      BY <2>2 DEF Undo
    <2>3. CASE AskPlay(c) \/ Post(c) \/ AskEject(c) \/ AskExit(c) \/ AskStop(c) \/ Answered(c)
      BY <2>3 DEF AskPlay, Post, AskEject, AskExit, AskStop, Answered, playerVars
    <2>4. CASE Enter(c) \/ Suspend(c) \/ Hush(c) \/ Browse(c) \/ Abandon(c) \/ Resume(c)
      BY <2>4 DEF Enter, Suspend, Hush, Browse, Abandon, Resume, playerVars
    <2> QED BY <1>1, <2>1, <2>2, <2>3, <2>4 DEF CallerSteps
  <1>2. ASSUME NEW t \in Threads, Inside(t) PROVE DisplayStep
    BY <1>2 DEF Inside, CallSteps, Take, Waited, Acquire, Publish
  <1>3. ASSUME NEW l \in Loops, LoopSteps(l) PROVE DisplayStep
    <2>1. CASE Unhold(l)
      BY <2>1 DEF Unhold
    <2>2. CASE HandleKey(l) \/ HandleEvent(l) \/ Replay(l) \/ SeeAsked(l)
      BY <2>2 DEF HandleKey, HandleEvent, Replay, SeeAsked, Unmoved
    <2>3. CASE Started(l) \/ BackToBrowser(l) \/ ScreenOff(l) \/ Leave(l) \/ Rearm(l)
      BY <2>3 DEF Started, BackToBrowser, ScreenOff, Leave, Rearm, playerVars
    <2> QED BY <1>3, <2>1, <2>2, <2>3 DEF LoopSteps
  <1>4. ASSUME NEW p \in Plays, Runs(p) PROVE DisplayStep
    BY <1>4 DEF Runs, Hook, Hooked, PlaySteps, Top, Rendered, Page, Stopped, Played, Fails, Paused,
                Release, Restored, Quiet
  <1>5. CASE PressKey \/ Refresh \/ OsdExits \/ UNCHANGED vars
    BY <1>5 DEF PressKey, Refresh, OsdExits, vars, playerVars
  <1> QED BY <1>1, <1>2, <1>3, <1>4, <1>5 DEF Next

LEMMA RunnerHolds == Spec => []RunnerInv
  <1>1. Init => RunnerInv
    BY DEF Init, PlayerInit, RunnerInv
  <1>2. RunnerInv /\ [Next]_vars => RunnerInv'
    BY RunnerOn, OnlyTheDisplay
  <1> QED BY <1>1, <1>2, PTL DEF Spec

LEMMA RemoteSettles == RemoteInv /\ RunnerInv => HandsBack
  <1> SUFFICES ASSUME RemoteInv, RunnerInv, Settled
               PROVE ~held /\ pinned = 0 /\ armed /\ ~osd /\ (runner = "runs" \/ gaveUp)
    BY DEF HandsBack
  <1> USE ThreadsAre DEF RemoteInv
  <1>1. /\ \A c \in Callers : at[c].pc = "idle" /\ call[c].pc = "out"
        /\ \A l \in Loops : loop[l] = "none" /\ call[l].pc = "out"
        /\ \A p \in Plays : ~Going(p)
    BY DEF Settled, Between, Calling, Asking, Alive, Going
  <1>2. PinnedBy = {}
    BY <1>1 DEF PinnedBy, Running
  <1>3. pinned = 0
    BY <1>2, FS_EmptySet DEF Pins
  <1>4. ~held
    BY <1>1, <1>3 DEF Pins
  <1>5. armed
    BY <1>1 DEF Arming
  <1>6. ~osd
    BY <1>1 DEF Screens, Running
  <1>7. runner = "runs" \/ gaveUp
    BY <1>4 DEF RunnerInv
  <1> QED BY <1>3, <1>4, <1>5, <1>6, <1>7

(* One kmssink at a time, on a display that is held: whatever the handlers,
   keys, events, failures and ends of playbacks, for any number of them, if no
   handler calls the player during a session and no rendering outlasts Stop
   (player/player.go, player/remote.go, player/screen.go).                  *)
THEOREM DrawsAlone ==
  ~Intrudes /\ Outlasts \subseteq {"restoring"} => (Spec => []OneDrawsAndHolds)
  <1> SUFFICES ASSUME ~Intrudes, Outlasts \subseteq {"restoring"} PROVE Spec => []OneDrawsAndHolds
    OBVIOUS
  <1>1. RemoteInv /\ [Next]_vars => RemoteInv'
    BY RemoteKeeps
  <1> QED BY <1>1, RemoteStarts, RemoteDraws, PTL DEF Spec

(* Once nothing is left of the sessions, the playbacks and the calls, the
   display is not held, no pin is left and the trigger is armed, whichever
   step failed on the way, and BirdDogRunner runs, unless bdplay gave up on
   it: PPApp outlived its stop, or its start failed, and nobody has started
   it since (player/display.go:90-110, 146-152, player/remote.go).          *)
THEOREM GoesBack ==
  ~Intrudes /\ Outlasts \subseteq {"restoring"} => (Spec => []HandsBack)
  <1> SUFFICES ASSUME ~Intrudes, Outlasts \subseteq {"restoring"} PROVE Spec => []HandsBack
    OBVIOUS
  <1>1. RemoteInv /\ [Next]_vars => RemoteInv'
    BY RemoteKeeps
  <1> QED BY <1>1, RemoteStarts, RunnerHolds, RemoteSettles, PTL DEF Spec


-----------------------------------------------------------------------------
(* Who waits for whom: a handler in Exit for the end of a session, Stop for *)
(* the end of a playback.  Either would wait for ever if what it waits for  *)
(* were over already, or had not been told; and this must not depend on the *)
(* handlers keeping out of one another's way.                               *)

Waiters == {"exit", "exit and stop"}
Ends    == Entering \cup {"resume"}

(* A session has somebody who will close its doneCh: its loop, or the       *)
(* handler that enters it.                                                  *)
IsLed(l) == loop[l] # "none" \/ \E c \in Callers : at[c].pc \in Ends /\ at[c].of = l

ExitIsAnswered ==
  \A c \in Callers : at[c].pc \in Waiters =>
    at[c].of \in Loops /\ asked[at[c].of] /\ IsLed(at[c].of)

StopIsHeard ==
  \A t \in Threads : call[t].pc = "wait" =>
    call[t].of \in Plays /\ (play[call[t].of].stop \/ ~Alive(call[t].of))

WaitsAreAnswered == ExitIsAnswered /\ StopIsHeard

(* While it is active, the session is run or being entered, not yet left.   *)
ActiveIsLed ==
  active => /\ session \in Loops
            /\ \/ loop[session] \in Running
               \/ \E c \in Callers : at[c].pc \in Entering /\ at[c].of = session

ExitInv ==
  /\ AtTypes /\ LoopTypes /\ asked \in [Loops -> BOOLEAN] /\ session \in Loops \cup {NoLoop}
  /\ ActiveIsLed /\ ExitIsAnswered

StopInv == CallTypes /\ PlayTypes /\ current \in Plays \cup {NoPlay} /\ StopIsHeard


LEMMA WaitsStart == Init => ExitInv /\ StopInv
  <1> SUFFICES ASSUME Init PROVE ExitInv /\ StopInv
    OBVIOUS
  <1> USE ThreadsAre DEF Init, PlayerInit
  <1>1. AtTypes /\ LoopTypes /\ CallTypes /\ PlayTypes
    BY RemoteStarts DEF RemoteInv, RemoteTypes
  <1>2. (\A c \in Callers : at[c].pc = "idle") /\ (\A t \in Threads : call[t].pc = "out")
    OBVIOUS
  <1>3. ExitInv
    BY <1>1, <1>2 DEF ExitInv, ActiveIsLed, ExitIsAnswered, Waiters
  <1>4. StopInv
    BY <1>1, <1>2 DEF StopInv, StopIsHeard
  <1> QED BY <1>3, <1>4

(* A handler goes on that does not wait; if it leads a session it keeps it. *)
LEMMA LeaderKept ==
  ASSUME ExitInv, NEW c \in Callers, NEW pc, NEW k, AtTypes', AtIs(c, pc, k),
         pc \notin Waiters,
         at[c].pc \in Ends => k = at[c].of /\ pc \in Ends,
         active' => active /\ (at[c].pc \in Entering => pc \in Entering),
         UNCHANGED <<session, asked, loop>>
  PROVE  ExitInv'
  <1> USE DEF ExitInv, AtIs, Ends
  <1>1. \A l \in Loops : IsLed(l) => IsLed(l)'
    BY DEF IsLed
  <1>2. ExitIsAnswered'
    BY <1>1 DEF ExitIsAnswered
  <1>3. ActiveIsLed'
    BY DEF ActiveIsLed
  <1> QED BY <1>2, <1>3 DEF LoopTypes

(* A loop goes on, and runs its session until active says it does not.      *)
LEMMA LedOn ==
  ASSUME ExitInv, NEW l \in Loops, NEW pc, LoopTypes', LoopIs(l, pc), pc # "none",
         active' => active /\ (loop[l] \in Running => pc \in Running),
         UNCHANGED <<session, asked, at>>
  PROVE  ExitInv'
  <1> USE DEF ExitInv, LoopIs
  <1>1. \A k \in Loops : IsLed(k) => IsLed(k)'
    BY DEF IsLed
  <1>2. ExitIsAnswered'
    BY <1>1 DEF ExitIsAnswered
  <1>3. ActiveIsLed'
    BY DEF ActiveIsLed
  <1> QED BY <1>2, <1>3 DEF AtTypes

LEMMA ExitKept ==
  ASSUME ExitInv, UNCHANGED <<session, asked, at, loop, active>> PROVE ExitInv'
  BY DEF ExitInv, AtTypes, LoopTypes, ActiveIsLed, ExitIsAnswered, IsLed

-----------------------------------------------------------------------------
(* A session ends for everybody who waits for it at once: doneCh is closed. *)
LEMMA Closing ==
  ASSUME AtTypes, NEW k \in Loops \cup {NoLoop}, NEW now, now \in [Callers -> [pc : Places, of : Loops \cup {NoLoop}]],
         at' = DoneClosed(k, now)
  PROVE  /\ AtTypes'
         /\ \A c \in Callers :
              \/ at'[c] = now[c] /\ ~(now[c].pc \in Waiters /\ now[c].of = k)
              \/ now[c].pc \in Waiters /\ at'[c].pc \in {"idle", "exited"}
  <1>1. \A c \in Callers : at'[c] =
          IF now[c].pc \in Waiters /\ now[c].of = k
          THEN [pc |-> IF now[c].pc = "exit" THEN "idle" ELSE "exited", of |-> NoLoop]
          ELSE now[c]
    BY DEF DoneClosed, Waiters
  <1>2. at' \in [Callers -> [pc : Places, of : Loops \cup {NoLoop}]]
    <2> DEFINE f == [c \in Callers |->
          IF now[c].pc \in Waiters /\ now[c].of = k
          THEN [pc |-> IF now[c].pc = "exit" THEN "idle" ELSE "exited", of |-> NoLoop]
          ELSE now[c]]
    <2>1. at' = f
      BY DEF DoneClosed, Waiters
    <2>2. f \in [Callers -> [pc : Places, of : Loops \cup {NoLoop}]]
      BY DEF Places
    <2> QED BY <2>1, <2>2
  <1>3. AtTypes'
    BY <1>2 DEF AtTypes
  <1>4. ASSUME NEW c \in Callers
        PROVE  \/ at'[c] = now[c] /\ ~(now[c].pc \in Waiters /\ now[c].of = k)
               \/ now[c].pc \in Waiters /\ at'[c].pc \in {"idle", "exited"}
    <2>1. CASE now[c].pc \in Waiters /\ now[c].of = k
      <3>1. at'[c] = [pc |-> IF now[c].pc = "exit" THEN "idle" ELSE "exited", of |-> NoLoop]
        BY <1>1, <2>1
      <3> QED BY <2>1, <3>1
    <2>2. CASE ~(now[c].pc \in Waiters /\ now[c].of = k)
      BY <1>1, <2>2
    <2> QED BY <2>1, <2>2
  <1> QED BY <1>3, <1>4

LEMMA RearmEnds ==
  ASSUME ExitInv, NEW l \in Loops, Rearm(l) PROVE ExitInv'
  <1> USE DEF ExitInv
  <1>1. /\ loop[l] = "resume" /\ at' = DoneClosed(l, at) /\ LoopTo(l, "none")
        /\ UNCHANGED <<active, session, asked>>
    BY DEF Rearm
  <1>2. LoopTypes' /\ LoopIs(l, "none")
    BY <1>1, LoopMoves DEF LoopPlaces
  <1>3. /\ AtTypes'
        /\ \A c \in Callers :
             \/ at'[c] = at[c] /\ ~(at[c].pc \in Waiters /\ at[c].of = l)
             \/ at[c].pc \in Waiters /\ at'[c].pc \in {"idle", "exited"}
    BY <1>1, Closing DEF AtTypes
  <1>4. \A c \in Callers : at[c].pc \in Ends => at'[c] = at[c]
    BY <1>3 DEF Waiters, Ends, Entering
  <1>5. \A k \in Loops \ {l} : IsLed(k) => IsLed(k)'
    BY <1>2, <1>4 DEF IsLed, LoopIs
  <1>6. ExitIsAnswered'
    BY <1>1, <1>3, <1>5 DEF ExitIsAnswered, Waiters
  <1>7. ActiveIsLed'
    BY <1>1, <1>2, <1>4 DEF ActiveIsLed, LoopIs, Running, Ends
  <1> QED BY <1>1, <1>2, <1>3, <1>6, <1>7

LEMMA ResumeEnds ==
  ASSUME ExitInv, NEW c \in Callers, Resume(c) PROVE ExitInv'
  <1> USE DEF ExitInv
  <1> DEFINE now == [at EXCEPT ![c] = [pc |-> "idle", of |-> NoLoop]]
  <1>1. /\ at[c].pc = "resume" /\ at' = DoneClosed(at[c].of, now)
        /\ UNCHANGED <<active, session, asked, loop>>
    BY DEF Resume, At
  <1>2. /\ now \in [Callers -> [pc : Places, of : Loops \cup {NoLoop}]]
        /\ now[c].pc = "idle" /\ \A d \in Callers \ {c} : now[d] = at[d]
    BY DEF AtTypes, Places
  <1>3. at[c].of \in Loops \cup {NoLoop}
    BY DEF AtTypes
  <1> HIDE DEF now
  <1>4. /\ AtTypes'
        /\ \A d \in Callers :
             \/ at'[d] = now[d] /\ ~(now[d].pc \in Waiters /\ now[d].of = at[c].of)
             \/ now[d].pc \in Waiters /\ at'[d].pc \in {"idle", "exited"}
    BY <1>1, <1>2, <1>3, Closing
  <1>5. \A d \in Callers \ {c} : at[d].pc \in Ends => at'[d] = at[d]
    BY <1>2, <1>4 DEF Waiters, Ends, Entering
  <1>6. \A k \in Loops \ {at[c].of} : IsLed(k) => IsLed(k)'
    BY <1>1, <1>5 DEF IsLed
  <1>7. ASSUME NEW d \in Callers, at'[d].pc \in Waiters
        PROVE  d # c /\ at'[d] = at[d] /\ at[d].of # at[c].of
    BY <1>2, <1>4, <1>7 DEF Waiters
  <1>8. ExitIsAnswered'
    BY <1>1, <1>6, <1>7 DEF ExitIsAnswered
  <1>9. ActiveIsLed'
    BY <1>1, <1>5 DEF ActiveIsLed, Ends, Entering
  <1> QED BY <1>1, <1>4, <1>8, <1>9 DEF LoopTypes

-----------------------------------------------------------------------------
(* Entering: a session that is entered anew is nobody's yet.                *)
LEMMA EnterLeads ==
  ASSUME ExitInv, NEW c \in Callers, Enter(c) PROVE ExitInv'
  <1> USE DEF ExitInv
  <1> DEFINE l == CHOOSE k \in Loops : Idle(k)
  <1>1. /\ at[c].pc = "idle" /\ ~active /\ (\E k \in Loops : Idle(k))
        /\ session' = l /\ asked' = [asked EXCEPT ![l] = FALSE]
        /\ at' = [at EXCEPT ![c] = [pc |-> "suspend", of |-> l]]
        /\ loop' = loop
    BY DEF Enter, At
  <1>2. l \in Loops /\ Idle(l)
    BY <1>1
  <1> HIDE DEF l
  <1>3. AtTypes' /\ AtIs(c, "suspend", l)
    BY <1>1, <1>2, AtMoves DEF Places
  <1>4. asked' \in [Loops -> BOOLEAN] /\ \A k \in Loops \ {l} : asked'[k] = asked[k]
    BY <1>1, <1>2
  <1>5. \A k \in Loops : IsLed(k) => IsLed(k)'
    BY <1>1, <1>3 DEF IsLed, AtIs, Ends, Entering
  <1>6. \A d \in Callers : at[d].of # l
    BY <1>2 DEF Idle
  <1>7. ExitIsAnswered'
    BY <1>3, <1>4, <1>5, <1>6 DEF ExitIsAnswered, AtIs, Waiters
  <1>8. ActiveIsLed'
    BY <1>1, <1>2, <1>3 DEF ActiveIsLed, AtIs, Entering
  <1> QED BY <1>1, <1>2, <1>3, <1>4, <1>7, <1>8 DEF LoopTypes

LEMMA BrowseLeads ==
  ASSUME ExitInv, NEW c \in Callers, Browse(c) PROVE ExitInv'
  <1> USE DEF ExitInv
  <1>1. at[c].pc = "screen" /\ UNCHANGED <<active, session, asked>>
    BY DEF Browse
  <1>2. CASE GoTo(c, "unhold") /\ UNCHANGED loop
    <2>1. AtTypes' /\ AtIs(c, "unhold", at[c].of)
      BY <1>2, AtMoves DEF Places
    <2>2. /\ "unhold" \notin Waiters /\ "unhold" \in Ends /\ "unhold" \in Entering
          /\ active' => active
          /\ UNCHANGED <<session, asked, loop>>
      BY <1>1, <1>2 DEF Waiters, Ends, Entering
    <2> HIDE DEF ExitInv
    <2> QED BY <2>1, <2>2, LeaderKept
  <1>3. CASE LoopTo(at[c].of, "select") /\ Home(c)
    <2>1. AtTypes' /\ AtIs(c, "idle", NoLoop)
      BY <1>3, AtMoves DEF Places
    <2>2. LoopTypes' /\ \A k \in Loops : loop'[k] = IF k = at[c].of THEN "select" ELSE loop[k]
      BY <1>3 DEF LoopTo, LoopTypes, LoopPlaces
    <2>3. \A k \in Loops : IsLed(k) => IsLed(k)'
      BY <2>1, <2>2 DEF IsLed, AtIs
    <2>4. ExitIsAnswered'
      BY <1>1, <2>1, <2>3 DEF ExitIsAnswered, AtIs, Waiters
    <2>5. ActiveIsLed'
      BY <1>1, <2>1, <2>2 DEF ActiveIsLed, AtIs, Running
    <2> QED BY <1>1, <2>1, <2>2, <2>4, <2>5
  <1> QED BY <1>2, <1>3 DEF Browse

(* Exit waits for a session that is active, and so is led.                  *)
LEMMA AskExitWaits ==
  ASSUME ExitInv, NEW c \in Callers, AskExit(c) PROVE ExitInv'
  <1> USE DEF ExitInv
  <1>1. PICK op \in {"exit", "exit and stop"} : at' = [at EXCEPT ![c] = [pc |-> op, of |-> session]]
    BY DEF AskExit
  <1>2. /\ at[c].pc = "idle" /\ active /\ session \in Loops
        /\ asked' = [asked EXCEPT ![session] = TRUE]
        /\ UNCHANGED <<active, session, loop>>
    BY DEF AskExit, At, ActiveIsLed
  <1>3. AtTypes' /\ AtIs(c, op, session)
    BY <1>1, <1>2, AtMoves DEF Places
  <1>4. asked' \in [Loops -> BOOLEAN] /\ asked'[session] /\ \A k \in Loops : asked[k] => asked'[k]
    BY <1>2
  <1>5. \A k \in Loops : IsLed(k) => IsLed(k)'
    BY <1>2, <1>3 DEF IsLed, AtIs, Ends, Entering
  <1>6. IsLed(session)
    BY <1>2 DEF ActiveIsLed, IsLed, Running, Ends
  <1>7. ExitIsAnswered'
    <2>1. \E k \in Loops : at'[c].of = k /\ asked'[k] /\ IsLed(k)'
      BY <1>2, <1>3, <1>4, <1>5, <1>6 DEF AtIs
    <2>2. ASSUME NEW d \in Callers \ {c}, at'[d].pc \in Waiters
          PROVE  \E k \in Loops : at'[d].of = k /\ asked'[k] /\ IsLed(k)'
      <3>1. at'[d] = at[d] /\ at[d].of \in Loops /\ asked[at[d].of] /\ IsLed(at[d].of)
        BY <1>3, <2>2 DEF AtIs, ExitIsAnswered
      <3> QED BY <1>4, <1>5, <3>1
    <2>3. \A d \in Callers : at'[d].pc \in Waiters =>
            \E k \in Loops : at'[d].of = k /\ asked'[k] /\ IsLed(k)'
      BY <2>1, <2>2
    <2>4. ASSUME NEW d \in Callers, at'[d].pc \in Waiters
          PROVE  (at[d].of \in Loops /\ asked[at[d].of] /\ IsLed(at[d].of))'
      <3>1. PICK k \in Loops : at'[d].of = k /\ asked'[k] /\ IsLed(k)'
        BY <2>3, <2>4
      <3>2. loop'[k] # "none" \/ \E e \in Callers : at'[e].pc \in Ends /\ at'[e].of = k
        BY <3>1 DEF IsLed
      <3>3. loop'[at'[d].of] # "none" \/ \E e \in Callers : at'[e].pc \in Ends /\ at'[e].of = at'[d].of
        BY <3>1, <3>2
      <3> QED BY <3>1, <3>3 DEF IsLed
    <2> QED BY <2>4 DEF ExitIsAnswered
  <1>8. ActiveIsLed'
    BY <1>2, <1>3 DEF ActiveIsLed, AtIs, Entering
  <1> QED BY <1>2, <1>3, <1>4, <1>7, <1>8 DEF LoopTypes

LEMMA CallerWaits ==
  ASSUME ExitInv, NEW c \in Callers, CallerSteps(c) PROVE ExitInv'
  <1>0. AtTypes /\ at[c].of \in Loops \cup {NoLoop}
    BY DEF ExitInv, AtTypes
  <1>1. ASSUME NEW pc \in Places, GoTo(c, pc), pc \notin Waiters,
               at[c].pc \in Ends => pc \in Ends,
               active' => active /\ (at[c].pc \in Entering => pc \in Entering),
               UNCHANGED <<session, asked, loop>>
        PROVE  ExitInv'
    BY <1>0, <1>1, AtMoves, LeaderKept
  <1>2. ASSUME Home(c), at[c].pc \notin Ends, UNCHANGED <<active, session, asked, loop>>
        PROVE  ExitInv'
    <2>1. AtTypes' /\ AtIs(c, "idle", NoLoop)
      BY <1>0, <1>2, AtMoves DEF Places
    <2> QED BY <1>2, <2>1, LeaderKept DEF Waiters, Ends
  <1> USE DEF Session, Waiters, Ends, Entering, At, Places
  <1>3. CASE AskPlay(c)
    BY <1>1, <1>3 DEF AskPlay
  <1>4. CASE AskEject(c) \/ AskStop(c)
    <2>1. /\ at[c].pc \in {"idle", "exited"} /\ GoTo(c, "stop")
          /\ UNCHANGED <<active, session, asked, loop>>
      BY <1>4 DEF AskEject, AskStop
    <2> QED BY <1>1, <2>1
  <1>5. CASE Post(c) \/ Answered(c)
    BY <1>2, <1>5 DEF Post, Answered
  <1>6. CASE Suspend(c) \/ Hold(c) \/ Hush(c) \/ Undo(c)
    <2>1. ASSUME NEW pc \in Ends \ {"resume"}, at[c].pc \in Entering, GoTo(c, pc),
                 UNCHANGED <<active, session, asked, loop>>
          PROVE  ExitInv'
      BY <1>1, <2>1
    <2>2. CASE Suspend(c)
      BY <2>1, <2>2 DEF Suspend
    <2>3. CASE Hold(c)
      BY <2>1, <2>3 DEF Hold
    <2>4. CASE Hush(c)
      BY <2>1, <2>4 DEF Hush
    <2>5. CASE Undo(c)
      BY <2>1, <2>5 DEF Undo
    <2> QED BY <1>6, <2>2, <2>3, <2>4, <2>5
  <1>7. CASE Abandon(c)
    BY <1>1, <1>7 DEF Abandon
  <1> QED BY <1>3, <1>4, <1>5, <1>6, <1>7, AskExitWaits, EnterLeads, BrowseLeads, ResumeEnds
          DEF CallerSteps

LEMMA LoopWaits ==
  ASSUME ExitInv, NEW l \in Loops, LoopSteps(l) PROVE ExitInv'
  <1>1. ASSUME NEW pc \in LoopPlaces, LoopTo(l, pc), pc # "none",
               active' => active /\ (loop[l] \in Running => pc \in Running),
               UNCHANGED <<session, asked, at>>
        PROVE  ExitInv'
    <2>1. LoopTypes' /\ LoopIs(l, pc)
      BY <1>1, LoopMoves DEF ExitInv
    <2> QED BY <1>1, <2>1, LedOn
  <1> USE DEF LoopPlaces, Running, LoopAt, Unmoved, StartsPlaying, StopsPlaying
  <1>2. CASE HandleKey(l)
    BY <1>1, <1>2, ExitKept DEF HandleKey, BrowsingKey, PlayingKey, Stays
  <1>3. CASE HandleEvent(l)
    BY <1>1, <1>3 DEF HandleEvent
  <1>4. CASE Replay(l) \/ SeeAsked(l) \/ Started(l) \/ BackToBrowser(l) \/ ScreenOff(l)
    <2>1. /\ loop[l] \in Running /\ UNCHANGED <<active, session, asked, at>>
          /\ \E pc \in Running : LoopTo(l, pc)
      <3>1. CASE Replay(l)
        BY <3>1 DEF Replay
      <3>2. CASE SeeAsked(l)
        BY <3>2 DEF SeeAsked
      <3>3. CASE Started(l)
        BY <3>3 DEF Started
      <3>4. CASE BackToBrowser(l) \/ ScreenOff(l)
        BY <3>4 DEF BackToBrowser, ScreenOff
      <3> QED BY <1>4, <3>1, <3>2, <3>3, <3>4
    <2> QED BY <1>1, <2>1
  <1>6. CASE Leave(l)
    BY <1>1, <1>6 DEF Leave
  <1>7. CASE Unhold(l)
    BY <1>1, <1>7 DEF Unhold
  <1> QED BY <1>2, <1>3, <1>4, <1>6, <1>7, RearmEnds DEF LoopSteps

LEMMA ExitKeeps ==
  ExitInv /\ [Next]_vars => ExitInv'
  <1> SUFFICES ASSUME ExitInv, [Next]_vars PROVE ExitInv'
    OBVIOUS
  <1>1. ASSUME NEW t \in Threads, Inside(t) PROVE ExitInv'
    BY <1>1, ExitKept DEF Inside, remoteVars
  <1>2. ASSUME NEW p \in Plays, Runs(p) PROVE ExitInv'
    BY <1>2, ExitKept DEF Runs, Hook, Session, remoteVars
  <1>3. CASE PressKey \/ Refresh \/ OsdExits \/ UNCHANGED vars
             \/ (OwnerStarts /\ UNCHANGED remoteVars)
    BY <1>3, ExitKept DEF PressKey, Refresh, OsdExits, OwnerStarts, vars, remoteVars, Session
  <1> QED BY <1>1, <1>2, <1>3, CallerWaits, LoopWaits DEF Next


-----------------------------------------------------------------------------
(* Stop closes the stop channel of what it waits for, and a playback that   *)
(* is waited for is not started anew under the one who waits.               *)
LEMMA StopKept ==
  ASSUME StopInv, CallTypes', PlayTypes', current' \in Plays \cup {NoPlay},
         \A t \in Threads : call'[t].pc = "wait" => call[t].pc = "wait" /\ call'[t].of = call[t].of,
         \A p \in Plays : play[p].stop \/ ~Alive(p) => play'[p].stop \/ play'[p].pc = "over"
  PROVE  StopInv'
  BY DEF StopInv, StopIsHeard, Alive

LEMMA StopSame ==
  ASSUME StopInv, UNCHANGED <<play, call, current>> PROVE StopInv'
  BY DEF StopInv, StopIsHeard, Alive, CallTypes, PlayTypes

(* The player is called, or a call is over.                                 *)
LEMMA StopCalled ==
  ASSUME StopInv, NEW t \in Threads, NEW s \in BOOLEAN, Calls(t, s) \/ Back(t),
         UNCHANGED <<play, current>>
  PROVE  StopInv'
  <1>1. CallTypes /\ PlayTypes
    BY DEF StopInv
  <1>2. CallTypes' /\ (CallIs(t, "take", s, NoPlay) \/ CallIs(t, "out", FALSE, NoPlay))
    BY <1>1, CallMoves DEF CallPlaces
  <1>3. PlayTypes' /\ current' \in Plays \cup {NoPlay}
    BY DEF StopInv, PlayTypes
  <1>4. \A u \in Threads : call'[u].pc = "wait" => call[u].pc = "wait" /\ call'[u].of = call[u].of
    BY <1>2 DEF CallIs
  <1>5. \A p \in Plays : play[p].stop \/ ~Alive(p) => play'[p].stop \/ play'[p].pc = "over"
    BY DEF Alive
  <1> QED BY <1>2, <1>3, <1>4, <1>5, StopKept

LEMMA StopOfCaller ==
  ASSUME StopInv, NEW c \in Callers, CallerSteps(c) PROVE StopInv'
  <1>1. c \in Threads
    BY ThreadsAre
  <1>2. /\ UNCHANGED <<play, current>>
        /\ UNCHANGED call \/ \E s \in BOOLEAN : Calls(c, s) \/ Back(c)
    <2> USE DEF playerVars
    <2>1. CASE AskPlay(c) \/ Post(c) \/ AskEject(c) \/ AskExit(c) \/ AskStop(c) \/ Answered(c)
      BY <2>1 DEF AskPlay, Post, AskEject, AskExit, AskStop, Answered
    <2>2. CASE Enter(c) \/ Suspend(c) \/ Hold(c) \/ Hush(c) \/ Browse(c)
      BY <2>2 DEF Enter, Suspend, Hold, Hush, Browse
    <2>3. CASE Undo(c) \/ Abandon(c) \/ Resume(c)
      BY <2>3 DEF Undo, Abandon, Resume
    <2> QED BY <2>1, <2>2, <2>3 DEF CallerSteps
  <1> QED BY <1>1, <1>2, StopSame, StopCalled

LEMMA StopOfLoop ==
  ASSUME StopInv, NEW l \in Loops, LoopSteps(l) PROVE StopInv'
  <1>1. l \in Threads
    BY ThreadsAre
  <1>2. /\ UNCHANGED <<play, current>>
        /\ UNCHANGED call \/ \E s \in BOOLEAN : Calls(l, s) \/ Back(l)
    <2> USE DEF playerVars, Unmoved, StartsPlaying, StopsPlaying
    <2>1. CASE HandleKey(l)
      BY <2>1 DEF HandleKey, BrowsingKey, PlayingKey, Stays
    <2>2. CASE HandleEvent(l) \/ Replay(l) \/ SeeAsked(l)
      BY <2>2 DEF HandleEvent, Replay, SeeAsked
    <2>3. CASE Started(l) \/ BackToBrowser(l) \/ ScreenOff(l)
      BY <2>3 DEF Started, BackToBrowser, ScreenOff
    <2>4. CASE Leave(l) \/ Unhold(l) \/ Rearm(l)
      BY <2>4 DEF Leave, Unhold, Rearm
    <2> QED BY <2>1, <2>2, <2>3, <2>4 DEF LoopSteps
  <1> QED BY <1>1, <1>2, StopSame, StopCalled

(* A playback keeps its stop channel as it is until it is over.             *)
LEMMA StopOfPlay ==
  ASSUME StopInv, NEW p \in Plays, PlaySteps(p) \/ Hooked(p) PROVE StopInv'
  <1> USE DEF PlayPlaces
  <1>1. PlayTypes /\ CallTypes /\ play[p].fails \in Nat /\ play[p].stop \in BOOLEAN
        /\ current \in Plays \cup {NoPlay}
    BY DEF StopInv, PlayTypes
  <1>2. /\ UNCHANGED <<call, current>>
        /\ PlayTypes' /\ \A q \in Plays \ {p} : play'[q] = play[q]
        /\ play[p].pc # "over"
        /\ play'[p].stop = play[p].stop \/ play'[p].pc = "over"
    <2>1. /\ play \in [Plays -> [pc : PlayPlaces, stop : BOOLEAN, fails : Nat]]
          /\ play[p] \in [pc : PlayPlaces, stop : BOOLEAN, fails : Nat]
      BY <1>1 DEF PlayTypes
    <2>2. ASSUME NEW pc \in PlayPlaces, To(p, pc)
          PROVE  /\ PlayTypes' /\ \A q \in Plays \ {p} : play'[q] = play[q]
                 /\ play'[p].stop = play[p].stop
      <3>1. PlayTypes' /\ PlayIs(p, pc)
        BY <1>1, <2>2, PlayMoves
      <3>2. play'[p] = [play[p] EXCEPT !.pc = pc]
        BY <2>1, <2>2 DEF To
      <3>3. play'[p].stop = play[p].stop
        BY <2>1, <3>2
      <3> QED BY <3>1, <3>3 DEF PlayIs
    <2>3. ASSUME NEW pc \in PlayPlaces, NEW n \in Nat,
                 play' = [play EXCEPT ![p].pc = pc, ![p].fails = n]
          PROVE  /\ PlayTypes' /\ \A q \in Plays \ {p} : play'[q] = play[q]
                 /\ play'[p].stop = play[p].stop
      <3>1. PlayTypes' /\ PlayIs(p, pc)
        BY <1>1, <2>3, PlayMoves
      <3>2. play'[p] = [[play[p] EXCEPT !.pc = pc] EXCEPT !.fails = n]
        BY <2>1, <2>3
      <3>3. play'[p].stop = play[p].stop
        BY <2>1, <3>2
      <3> QED BY <3>1, <3>3 DEF PlayIs
    <2>4. ASSUME play' = [play EXCEPT ![p] = Fresh]
          PROVE  /\ PlayTypes' /\ \A q \in Plays \ {p} : play'[q] = play[q]
                 /\ play'[p].pc = "over"
      BY <1>1, <2>4, PlayMoves DEF PlayIs
    <2>5. CASE Top(p) \/ Page(p) \/ Paused(p)
      <3>1. /\ play[p].pc # "over" /\ UNCHANGED <<call, current>>
            /\ \E pc \in PlayPlaces : To(p, pc)
        BY <2>5 DEF Top, Page, Paused, Quiet
      <3> QED BY <2>2, <3>1
    <2>6. CASE Rendered(p) \/ Stopped(p) \/ Hooked(p)
      <3>1. /\ play[p].pc # "over" /\ UNCHANGED <<call, current>>
            /\ \E pc \in PlayPlaces : To(p, pc)
        BY <2>6 DEF Rendered, Stopped, Hooked, Drawing, Quiet
      <3> QED BY <2>2, <3>1
    <2>7. CASE Played(p)
      <3>1. PICK pc \in {"top", "page"} :
              play' = [play EXCEPT ![p].pc = pc, ![p].fails = IF pc = "top" THEN 0 ELSE @]
        BY <2>7 DEF Played
      <3>2. play' = [play EXCEPT ![p].pc = pc, ![p].fails = IF pc = "top" THEN 0 ELSE play[p].fails]
        BY <1>1, <3>1 DEF PlayTypes
      <3>3. play[p].pc # "over" /\ UNCHANGED <<call, current>>
        BY <2>7 DEF Played, Drawing, Quiet
      <3>4. (IF pc = "top" THEN 0 ELSE play[p].fails) \in Nat
        BY <1>1
      <3> QED BY <2>3, <3>2, <3>3, <3>4
    <2>8. CASE Fails(p)
      <3>1. /\ play[p].pc # "over" /\ UNCHANGED <<call, current>>
            /\ \E pc \in PlayPlaces, n \in Nat : play' = [play EXCEPT ![p].pc = pc, ![p].fails = n]
        <4> DEFINE n == play[p].fails + 1
                   pc == IF n >= Limit THEN "end" ELSE "pause"
        <4>1. n \in Nat /\ pc \in PlayPlaces
          BY <1>1
        <4>2. play' = [play EXCEPT ![p].pc = pc, ![p].fails = n]
          BY <2>8 DEF Fails
        <4> HIDE DEF n, pc
        <4> QED BY <2>8, <4>1, <4>2 DEF Fails, Drawing, Quiet
      <3> QED BY <2>3, <3>1
    <2>9. CASE Release(p)
      <3>1. play[p].pc = "release" /\ UNCHANGED <<call, current>>
            /\ play' = [play EXCEPT ![p] = IF held /\ pinned = 0
                                           THEN [@ EXCEPT !.pc = "restoring"] ELSE Fresh]
        BY <2>9 DEF Release
      <3>2. CASE held /\ pinned = 0
        <4>1. To(p, "restoring")
          BY <2>1, <3>1, <3>2 DEF To
        <4> QED BY <2>2, <3>1, <4>1
      <3>3. CASE ~(held /\ pinned = 0)
        BY <2>4, <3>1, <3>3
      <3> QED BY <3>2, <3>3
    <2>10. CASE Restored(p)
      <3>1. play[p].pc = "restoring" /\ UNCHANGED <<call, current>>
            /\ play' = [play EXCEPT ![p] = Fresh]
        BY <2>10 DEF Restored, Quiet
      <3> QED BY <2>4, <3>1
    <2> QED BY <2>5, <2>6, <2>7, <2>8, <2>9, <2>10 DEF PlaySteps
  <1>3. \A q \in Plays : play[q].stop \/ ~Alive(q) => play'[q].stop \/ play'[q].pc = "over"
    BY <1>2 DEF Alive
  <1>4. CallTypes' /\ current' \in Plays \cup {NoPlay}
    BY <1>1, <1>2 DEF CallTypes
  <1> QED BY <1>2, <1>3, <1>4, StopKept

LEMMA StopOfCall ==
  ASSUME StopInv, NEW t \in Threads, CallSteps(t) PROVE StopInv'
  <1> USE ThreadsAre DEF CallPlaces
  <1>1. /\ PlayTypes /\ CallTypes /\ current \in Plays \cup {NoPlay} /\ StopIsHeard
        /\ call[t].start \in BOOLEAN /\ AfterStop(t) \in {"acquire", "returned"}
    BY DEF StopInv, CallTypes, AfterStop
  <1>2. ASSUME NEW pc \in CallPlaces \ {"wait"}, GoOn(t, pc),
               PlayTypes', current' \in Plays \cup {NoPlay},
               \A p \in Plays : play[p].stop \/ ~Alive(p) => play'[p].stop \/ play'[p].pc = "over"
        PROVE  StopInv'
    <2>1. CallTypes' /\ CallIs(t, pc, call[t].start, call[t].of)
      BY <1>1, <1>2, CallMoves
    <2>2. \A u \in Threads : call'[u].pc = "wait" => call[u].pc = "wait" /\ call'[u].of = call[u].of
      BY <1>2, <2>1 DEF CallIs
    <2> QED BY <1>2, <2>1, <2>2, StopKept
  <1>3. UNCHANGED play => PlayTypes'
          /\ \A p \in Plays : play[p].stop \/ ~Alive(p) => play'[p].stop \/ play'[p].pc = "over"
    BY <1>1 DEF PlayTypes, Alive
  <1>4. CASE Take(t)
    <2>1. CASE current = NoPlay
      <3>1. GoOn(t, AfterStop(t)) /\ UNCHANGED play /\ current' = NoPlay
        BY <1>4, <2>1 DEF Take
      <3> QED BY <1>1, <1>2, <1>3, <3>1
    <2>2. CASE current # NoPlay
      <3>1. /\ current \in Plays /\ current' = NoPlay
            /\ call' = [call EXCEPT ![t].pc = "wait", ![t].of = current]
            /\ play' = [play EXCEPT ![current].stop = TRUE]
        BY <1>1, <1>4, <2>2 DEF Take
      <3>2. /\ PlayTypes' /\ play'[current].stop
            /\ \A p \in Plays : play'[p].pc = play[p].pc /\ (play[p].stop => play'[p].stop)
        BY <1>1, <3>1 DEF PlayTypes
      <3>3. /\ CallTypes' /\ call'[t].of = current
            /\ \A u \in Threads \ {t} : call'[u] = call[u]
        BY <1>1, <3>1 DEF CallTypes
      <3>4. StopIsHeard'
        <4>1. ASSUME NEW u \in Threads, call'[u].pc = "wait"
              PROVE  call'[u].of \in Plays
                     /\ (play'[call'[u].of].stop \/ ~(play'[call'[u].of].pc # "over"))
          <5>1. CASE u = t
            BY <3>1, <3>2, <3>3, <5>1
          <5>2. CASE u # t
            BY <1>1, <3>2, <3>3, <4>1, <5>2 DEF StopIsHeard, Alive
          <5> QED BY <5>1, <5>2
        <4> QED BY <4>1 DEF StopIsHeard, Alive
      <3> QED BY <3>1, <3>2, <3>3, <3>4 DEF StopInv
    <2> QED BY <2>1, <2>2
  <1>5. CASE Waited(t)
    <2>1. /\ call' = [call EXCEPT ![t].pc = AfterStop(t), ![t].of = NoPlay]
          /\ UNCHANGED <<play, current>>
      BY <1>5 DEF Waited
    <2>2. /\ CallTypes' /\ call'[t].pc # "wait"
          /\ \A u \in Threads \ {t} : call'[u] = call[u]
      BY <1>1, <2>1 DEF CallTypes
    <2>3. \A u \in Threads : call'[u].pc = "wait" => call[u].pc = "wait" /\ call'[u].of = call[u].of
      BY <2>2
    <2> QED BY <1>1, <1>3, <2>1, <2>2, <2>3, StopKept
  <1>6. CASE Acquire(t)
    <2>1. (GoOn(t, "publish") \/ GoOn(t, "failed")) /\ UNCHANGED <<play, current>>
      BY <1>6 DEF Acquire
    <2> QED BY <1>1, <1>2, <1>3, <2>1
  <1>7. CASE Publish(t)
    <2> DEFINE p == CHOOSE q \in Plays : Unused(q)
    <2>1. /\ (\E q \in Plays : Unused(q)) /\ GoOn(t, "returned") /\ current' = p
          /\ play' = [play EXCEPT ![p] = [Fresh EXCEPT !.pc = "top"]]
      BY <1>7 DEF Publish
    <2>2. p \in Plays /\ Unused(p)
      BY <2>1
    <2> HIDE DEF p
    <2>3. PlayTypes' /\ PlayIs(p, "top")
      BY <1>1, <2>1, <2>2, PlayMoves DEF PlayPlaces
    <2>4. CallTypes' /\ CallIs(t, "returned", call[t].start, call[t].of)
      BY <1>1, <2>1, CallMoves
    <2>5. ASSUME NEW u \in Threads, call'[u].pc = "wait"
          PROVE  call'[u].of \in Plays
                 /\ (play'[call'[u].of].stop \/ ~(play'[call'[u].of].pc # "over"))
      <3>1. call'[u] = call[u] /\ call[u].of # p
        BY <2>2, <2>4, <2>5 DEF CallIs, Unused
      <3> QED BY <1>1, <2>3, <2>5, <3>1 DEF PlayIs, StopIsHeard, Alive
    <2>6. StopIsHeard'
      BY <2>5 DEF StopIsHeard, Alive
    <2> QED BY <2>1, <2>2, <2>3, <2>4, <2>6 DEF StopInv
  <1> QED BY <1>4, <1>5, <1>6, <1>7 DEF CallSteps

LEMMA StopKeeps ==
  StopInv /\ [Next]_vars => StopInv'
  <1> SUFFICES ASSUME StopInv, [Next]_vars PROVE StopInv'
    OBVIOUS
  <1>1. ASSUME NEW t \in Threads, Inside(t) PROVE StopInv'
    BY <1>1, StopOfCall DEF Inside
  <1>2. ASSUME NEW p \in Plays, Runs(p) PROVE StopInv'
    BY <1>2, StopOfPlay DEF Runs, Hook
  <1>3. CASE PressKey \/ Refresh \/ OsdExits \/ UNCHANGED vars
             \/ (OwnerStarts /\ UNCHANGED remoteVars)
    BY <1>3, StopSame DEF PressKey, Refresh, OsdExits, OwnerStarts, vars, playerVars
  <1> QED BY <1>1, <1>2, <1>3, StopOfCaller, StopOfLoop DEF Next

(* Nobody waits for what is over, or was never told to end: a handler in
   Exit waits for a session that is asked to leave and that somebody leads,
   and Stop waits for a playback whose stop channel is closed, whoever calls
   whom during a session (Exit in player/remote.go, Stop in
   player/player.go).                                                       *)
THEOREM NobodyWaitsInVain == Spec => []WaitsAreAnswered
  <1>1. ExitInv /\ StopInv => WaitsAreAnswered
    BY DEF ExitInv, StopInv, WaitsAreAnswered
  <1>2. ExitInv /\ StopInv /\ [Next]_vars => ExitInv' /\ StopInv'
    BY ExitKeeps, StopKeeps
  <1> QED BY <1>1, <1>2, WaitsStart, PTL DEF Spec
=============================================================================
