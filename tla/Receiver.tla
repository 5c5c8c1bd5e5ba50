------------------------------ MODULE Receiver ------------------------------
(***************************************************************************)
(* bdomt's receiver (omt/receiver.go): Run keeps one source connected; a   *)
(* session is a video connection, perhaps an audio one, and a reader for   *)
(* each; a sender may hand its receivers to another source; stopLoops      *)
(* (omt/session.go) clears the tally and then cancels.                     *)
(*                                                                         *)
(* Frames are Mailbox's concern.  A reader whose socket is closed handles  *)
(* nothing more; resolving a source is part of dialling it.                *)
(***************************************************************************)
EXTENDS Naturals

CONSTANTS Senders, Home,    (* Home is the configured source                *)
          None,             (* no redirect                                  *)
          Audio, Tally,     (* the settings                                 *)
          Fickle,           (* senders that come and go                     *)
          MayStop           (* Stop may be called                           *)

ASSUME ReceiverAssumption ==
    /\ Home \in Senders /\ None \notin Senders /\ Fickle \subseteq Senders
    /\ Audio \in BOOLEAN /\ Tally \in BOOLEAN /\ MayStop \in BOOLEAN

VARIABLES
    at,                 (* where Run and session are                        *)
    to,                 (* whom this session dials                          *)
    video, audio,       (* the sockets: "none", "open" or "closed"          *)
    reading,            (* the readers that run                             *)
    failed,             (* a reader's error is in errc                      *)
    videoConn,          (* Receiver.videoConn is this session's             *)
    redirect,
    backoff, slept,     (* in seconds; what the last wait was               *)
    sendTally, hello,   (* Receiver.sendTally, and what session read of it  *)
    told,               (* the sender's view of the connection: on air      *)
    stop,               (* where stopLoops is                               *)
    up,                 (* the senders that answer                          *)
    hungUp              (* we closed a connection that still said on air    *)

netVars   == <<video, audio, reading, failed, told>>
retryVars == <<backoff, slept>>
stopVars  == <<sendTally, stop>>
rxVars == <<at, to, netVars, videoConn, redirect, retryVars, stopVars, hello, up, hungUp>>

NetPlaces  == {"top", "dial", "audio", "tally", "hello", "register", "read", "end", "wait", "over"}
Sockets == {"none", "open", "closed"}

NetTypeOK ==
    /\ at \in NetPlaces
    /\ to \in Senders /\ redirect \in Senders \cup {None}
    /\ video \in Sockets /\ audio \in Sockets
    /\ reading \subseteq {"video", "audio"} /\ failed \in BOOLEAN
    /\ videoConn \in BOOLEAN
    /\ backoff \in {1, 2, 4, 8} /\ slept \in {0, 1, 2, 4, 8}
    /\ sendTally \in BOOLEAN /\ hello \in BOOLEAN /\ told \in BOOLEAN
    /\ stop \in {"none", "write", "cancel", "done"}
    /\ up \subseteq Senders /\ hungUp \in BOOLEAN

NetInit ==
    /\ at = "top" /\ to = Home /\ redirect = None
    /\ video = "none" /\ audio = "none" /\ reading = {} /\ failed = FALSE
    /\ videoConn = FALSE
    /\ backoff = 1 /\ slept = 0
    /\ sendTally = Tally /\ hello = FALSE /\ told = FALSE
    /\ stop = "none" /\ up = Senders /\ hungUp = FALSE

Cancelled == stop = "done"

Target == IF redirect = None THEN Home ELSE redirect

-----------------------------------------------------------------------------
(* Run and session.                                                         *)
Begin ==
    /\ at = "top"
    /\ IF Cancelled THEN at' = "over" /\ UNCHANGED to ELSE at' = "dial" /\ to' = Target
    /\ UNCHANGED <<netVars, videoConn, redirect, retryVars, stopVars, hello, up, hungUp>>

Dial ==
    /\ at = "dial" /\ to \in up
    /\ video' = "open" /\ told' = FALSE
    /\ at' = IF Audio THEN "audio" ELSE "tally"
    /\ UNCHANGED <<to, audio, reading, failed, videoConn, redirect, retryVars, stopVars, hello,
                   up, hungUp>>

(* Mutant of DialFails: a sender that does not answer is given up on.       *)
GivesUp ==
    /\ at = "dial" /\ to \notin up /\ at' = "over"
    /\ UNCHANGED <<to, netVars, videoConn, redirect, retryVars, stopVars, hello, up, hungUp>>

DialFails ==
    /\ at = "dial" /\ (to \notin up \/ Cancelled)
    /\ at' = "wait"
    /\ UNCHANGED <<to, netVars, videoConn, redirect, retryVars, stopVars, hello, up, hungUp>>

DialAudio ==
    /\ at = "audio"
    /\ \/ to \in up /\ audio' = "open" /\ at' = "tally" /\ UNCHANGED video
       \/ (to \notin up \/ Cancelled) /\ video' = "closed" /\ at' = "wait" /\ UNCHANGED audio
    /\ UNCHANGED <<to, reading, failed, told, videoConn, redirect, retryVars, stopVars, hello,
                   up, hungUp>>

ReadTally ==
    /\ at = "tally" /\ hello' = sendTally /\ at' = "hello"
    /\ UNCHANGED <<to, netVars, videoConn, redirect, retryVars, stopVars, up, hungUp>>

Subscribe ==
    /\ at = "hello"
    /\ IF video = "open" THEN told' = hello /\ at' = "register"
                         ELSE UNCHANGED told /\ at' = "end"
    /\ UNCHANGED <<to, video, audio, reading, failed, videoConn, redirect, retryVars, stopVars,
                   hello, up, hungUp>>

Register ==
    /\ at = "register" /\ at' = "read"
    /\ videoConn' = TRUE /\ failed' = FALSE
    /\ reading' = {"video"} \cup IF Audio THEN {"audio"} ELSE {}
    /\ UNCHANGED <<to, video, audio, told, redirect, retryVars, stopVars, hello, up, hungUp>>

(* The first error of a reader ends the session ...                         *)
ReaderFailed ==
    /\ at = "read" /\ failed /\ at' = "end"
    /\ UNCHANGED <<to, netVars, videoConn, redirect, retryVars, stopVars, hello, up, hungUp>>

(* ... which closes its sockets.                                            *)
End ==
    /\ at = "end" /\ at' = "wait"
    /\ videoConn' = FALSE
    /\ video' = "closed" /\ audio' = (IF Audio THEN "closed" ELSE "none")
    /\ reading' = {} /\ told' = FALSE
    /\ hungUp' = (hungUp \/ (Cancelled /\ told /\ video = "open"))
    /\ UNCHANGED <<to, failed, redirect, retryVars, stopVars, hello, up>>

(* Mutant of Wait: the backoff doubles for as long as nothing answers.      *)
NoCap(lasted) ==
    /\ at = "wait" /\ at' = "top"
    /\ slept' = backoff /\ backoff' = 2 * backoff
    /\ UNCHANGED <<to, netVars, videoConn, redirect, stopVars, hello, up, hungUp>>

(* A session that took more than 10 s, whatever came of it, resets backoff. *)
Wait(lasted) ==
    /\ at = "wait"
    /\ IF Cancelled THEN at' = "over" /\ UNCHANGED retryVars
       ELSE LET b == IF lasted THEN 1 ELSE backoff IN
            /\ at' = "top" /\ slept' = b
            /\ backoff' = IF b < 5 THEN 2 * b ELSE b
    /\ UNCHANGED <<to, netVars, videoConn, redirect, stopVars, hello, up, hungUp>>

Session == Begin \/ Dial \/ DialFails \/ DialAudio \/ ReadTally \/ Subscribe \/ Register
           \/ ReaderFailed \/ End \/ \E lasted \in BOOLEAN : Wait(lasted)

-----------------------------------------------------------------------------
(* The readers.                                                             *)
Open(r) == r \in reading /\ (IF r = "video" THEN video ELSE audio) = "open"

(* Mutant of handleMetadata: the redirect waits for the next connection.    *)
NextTime(r, t) ==
    /\ Open(r) /\ redirect' = t
    /\ UNCHANGED <<at, to, netVars, videoConn, retryVars, stopVars, hello, up, hungUp>>

(* The sender names another source, or nobody, to be handed back: whichever *)
(* reader hears it closes the video connection.                             *)
handleMetadata(r, t) ==
    /\ Open(r) /\ t # to
    /\ redirect' = t
    /\ video' = IF t # redirect /\ videoConn THEN "closed" ELSE video
    /\ hungUp' = (hungUp \/ (Cancelled /\ told /\ video' = "closed"))
    /\ UNCHANGED <<at, to, audio, reading, failed, told, videoConn, retryVars, stopVars, hello, up>>

ReadFails(r) ==
    /\ r \in reading /\ ~Open(r)
    /\ reading' = reading \ {r} /\ failed' = TRUE
    /\ UNCHANGED <<at, to, video, audio, told, videoConn, redirect, retryVars, stopVars, hello,
                   up, hungUp>>

-----------------------------------------------------------------------------
(* stopLoops: SetTally(false), which sends to the connection it finds, and  *)
(* cancel, upon which a goroutine of the session closes its sockets.        *)
SetTally ==
    /\ MayStop /\ stop = "none"
    /\ sendTally' = FALSE
    /\ stop' = IF videoConn THEN "write" ELSE "cancel"
    /\ UNCHANGED <<at, to, netVars, videoConn, redirect, retryVars, hello, up, hungUp>>

(* The connection may be gone by then.                                      *)
WriteTally ==
    /\ stop = "write" /\ stop' = "cancel"
    /\ IF videoConn /\ video = "open" THEN told' = FALSE ELSE UNCHANGED told
    /\ UNCHANGED <<at, to, video, audio, reading, failed, videoConn, redirect, retryVars,
                   sendTally, hello, up, hungUp>>

Cancel ==
    /\ stop = "cancel" /\ stop' = "done"
    /\ UNCHANGED <<at, to, netVars, videoConn, redirect, retryVars, sendTally, hello, up, hungUp>>

(* Mutant of Hangup: nothing is closed under the readers.                   *)
HangupLate ==
    /\ Cancelled /\ at \in {"tally", "hello", "register"} /\ video = "open"
    /\ video' = "closed"
    /\ UNCHANGED <<at, to, audio, reading, failed, told, videoConn, redirect, retryVars,
                   stopVars, hello, up, hungUp>>

Hangup ==
    /\ Cancelled /\ at \in {"tally", "hello", "register", "read"}
    /\ "open" \in {video, audio}
    /\ video' = "closed" /\ audio' = (IF Audio THEN "closed" ELSE "none")
    /\ hungUp' = (hungUp \/ told)
    /\ UNCHANGED <<at, to, reading, failed, told, videoConn, redirect, retryVars, stopVars,
                   hello, up>>

-----------------------------------------------------------------------------
(* A sender goes, with its connections, or comes back.                      *)
Goes(s) ==
    /\ s \in Fickle \cap up /\ up' = up \ {s}
    /\ IF s = to
       THEN /\ video' = (IF video = "open" THEN "closed" ELSE video)
            /\ audio' = (IF audio = "open" THEN "closed" ELSE audio)
            /\ told' = FALSE
       ELSE UNCHANGED <<video, audio, told>>
    /\ UNCHANGED <<at, to, reading, failed, videoConn, redirect, retryVars, stopVars, hello, hungUp>>

Comes(s) ==
    /\ s \in Fickle \ up /\ up' = up \cup {s}
    /\ UNCHANGED <<at, to, netVars, videoConn, redirect, retryVars, stopVars, hello, hungUp>>

Over == at = "over" /\ UNCHANGED rxVars

NetNext ==
    \/ Session \/ SetTally \/ WriteTally \/ Cancel \/ Hangup \/ Over
    \/ \E r \in {"video", "audio"} :
        ReadFails(r) \/ \E t \in Senders \cup {None} : handleMetadata(r, t)
    \/ \E s \in Senders : Goes(s) \/ Comes(s)

NetSpec == NetInit /\ [][NetNext]_rxVars

(* The goroutines run; nobody has to stop, redirect, or come back.          *)
FairNetSpec ==
    /\ NetSpec /\ WF_rxVars(Session) /\ WF_rxVars(Cancel \/ WriteTally) /\ WF_rxVars(Hangup)
    /\ \A r \in {"video", "audio"} : WF_rxVars(ReadFails(r))

-----------------------------------------------------------------------------
Connected == at = "read" /\ video = "open" /\ (Audio => audio = "open")

(* A connection that is up is to whom the last redirect says, whichever of  *)
(* the two connections brought it.                                          *)
FollowsRedirect == at = "read" /\ video = "open" => to = Target

(* While its sender answers, and nobody stops it, the receiver is connected *)
(* again and again, whatever went before.                                   *)
Reconnects == []<>(Connected \/ Target \notin up \/ stop # "none")

(* Once cancelled, Run returns: no reader, dial or wait holds a Stop up.    *)
CancelEnds == Cancelled ~> at = "over"

(* The configured source is connected again and again while it answers.     *)
SourceIsKept == []<>(Connected \/ Home \notin up \/ stop # "none")

(* A sender that lit its tally for us is told before we hang up.            *)
OffAirIsTold == ~hungUp

(* One that keeps failing backs off to five seconds.                        *)
BackoffCapped == slept <= 5

-----------------------------------------------------------------------------
(* What FollowsRedirect rests on: readers run only while session waits for  *)
(* them, and until then it goes to whom it read the redirect for.           *)
RedirectInv ==
    /\ reading # {} => at \in {"read", "end"}
    /\ at = "read" => videoConn
    /\ at \in {"dial", "audio", "tally", "hello", "register"} => to = Target
    /\ FollowsRedirect
=============================================================================
