------------------------------ MODULE AudioSink ------------------------------
(***************************************************************************)
(* bdomt's audio sink (omt/sink.go, gstAudio; omt/session.go, audioLoop):  *)
(* sound behind a queue capped by duration.  Three actors: the audio loop, *)
(* which alone calls Start, Write and Stop; the writer; and gst-launch.    *)
(* A chunk is its length; lengths and the budget are in the same unit.     *)
(***************************************************************************)
EXTENDS Naturals, Sequences

CONSTANTS Chunks,   (* lengths                                               *)
          Budget    (* maxQueued                                             *)

ASSUME AudioAssumption == Chunks \subseteq Nat \ {0} /\ Budget \in Nat

VARIABLES
    loop,      (* the audio loop's sink: off, on, joining                    *)
    waiting, bytes,
    closed, audioErr,   (* gstAudio.closed; err is set                         *)
    player,    (* the writer: none, asleep (in Wait), awake, writing         *)
    sound      (* gst-launch: none, reads, hangs, dead                       *)

audioVars == <<loop, waiting, bytes, closed, audioErr, player, sound>>

AudioInit ==
    /\ loop = "off" /\ waiting = <<>> /\ bytes = 0
    /\ closed = FALSE /\ audioErr = FALSE /\ player = "none" /\ sound = "none"

SumOf(s) ==
    LET sum[i \in 0..Len(s)] == IF i = 0 THEN 0 ELSE sum[i - 1] + s[i] IN sum[Len(s)]

(* A chunk that comes in starts the sink if it is not running as it should;
   it waits five seconds after a failure.  So does the next session's.      *)
StartSound ==
    /\ loop = "off"
    /\ \/ /\ loop' = "on" /\ sound' = "reads" /\ player' = "awake"
          /\ waiting' = <<>> /\ bytes' = 0 /\ closed' = FALSE /\ audioErr' = FALSE
       \/ UNCHANGED <<loop, sound, player, waiting, bytes, closed, audioErr>>

(* Over budget the oldest goes, until the new chunk fits or nothing is left. *)
(* Mutant of Dropped: one chunk goes, and no more.                          *)
DroppedOne(n) ==
    {k \in 0..Len(waiting) : k = IF bytes + n > Budget /\ waiting # <<>> THEN 1 ELSE 0}

Dropped(n) ==
    {k \in 0..Len(waiting) :
        /\ SumOf(SubSeq(waiting, k + 1, Len(waiting))) + n <= Budget \/ k = Len(waiting)
        /\ \A j \in 0..k - 1 : SumOf(SubSeq(waiting, j + 1, Len(waiting))) + n > Budget}

WriteSound ==
    /\ loop = "on" /\ ~audioErr /\ sound # "dead"
    /\ \E n \in Chunks, k \in 0..Len(waiting) :
         /\ k \in Dropped(n)
         /\ waiting' = Append(SubSeq(waiting, k + 1, Len(waiting)), n)
         /\ bytes' = bytes - SumOf(SubSeq(waiting, 1, k)) + n
    /\ player' = IF player = "asleep" THEN "awake" ELSE player
    /\ UNCHANGED <<loop, closed, audioErr, sound>>

(* Stop, at the end of the loop or, for a new rate or after an error, at the
   beginning of Start: everybody is woken, the process is made to end and
   the writer joined.                                                       *)
StopSound ==
    /\ loop = "on" /\ loop' = "joining"
    /\ closed' = TRUE /\ player' = IF player = "asleep" THEN "awake" ELSE player
    /\ UNCHANGED <<waiting, bytes, audioErr, sound>>

KillSound ==
    /\ loop = "joining" /\ sound \in {"reads", "hangs"} /\ sound' = "dead"
    /\ UNCHANGED <<loop, waiting, bytes, closed, audioErr, player>>

JoinSound ==
    /\ loop = "joining" /\ sound = "dead" /\ player = "none"
    /\ loop' = "off" /\ sound' = "none"
    /\ UNCHANGED <<waiting, bytes, closed, audioErr, player>>

(* The writer: it looks under mu, and writes without it.                    *)
(* Mutant of Look: what it takes is not counted off.                        *)
LookUncounted ==
    /\ player = "awake"
    /\ player' = IF closed THEN "none" ELSE IF waiting = <<>> THEN "asleep" ELSE "writing"
    /\ waiting' = IF player' = "writing" THEN Tail(waiting) ELSE waiting
    /\ UNCHANGED <<loop, bytes, closed, audioErr, sound>>

Look ==
    /\ player = "awake"
    /\ \/ /\ waiting = <<>> /\ ~closed
          /\ player' = "asleep" /\ UNCHANGED <<waiting, bytes>>
       \/ /\ closed
          /\ player' = "none" /\ UNCHANGED <<waiting, bytes>>
       \/ /\ waiting # <<>> /\ ~closed
          /\ player' = "writing"
          /\ waiting' = Tail(waiting) /\ bytes' = bytes - Head(waiting)
    /\ UNCHANGED <<loop, closed, audioErr, sound>>

WriterWrote ==
    /\ player = "writing"
    /\ \/ sound = "reads" /\ player' = "awake" /\ UNCHANGED audioErr
       \/ sound = "dead" /\ player' = "none" /\ audioErr' = TRUE
    /\ UNCHANGED <<loop, waiting, bytes, closed, sound>>

SoundTurns ==
    /\ sound \in {"reads", "hangs"}
    /\ sound' \in {"reads", "hangs", "dead"} \ {sound}
    /\ UNCHANGED <<loop, waiting, bytes, closed, audioErr, player>>

AudioNext == \/ StartSound \/ WriteSound \/ StopSound \/ KillSound \/ JoinSound
             \/ Look \/ WriterWrote \/ SoundTurns

AudioFair == /\ WF_audioVars(KillSound) /\ WF_audioVars(JoinSound)
             /\ WF_audioVars(Look) /\ WF_audioVars(WriterWrote)

(* Sound never builds up behind a stalled sink: what waits is counted right
   and never more than the budget, unless it is one chunk (sink.go: a queue
   capped by duration).                                                     *)
SoundIsCurrent == bytes = SumOf(waiting) /\ (bytes <= Budget \/ Len(waiting) = 1)

(* Stop returns although the writer may be asleep, or writing to a process
   that does not read.                                                      *)
SoundStops == loop = "joining" ~> loop = "off"
=============================================================================
