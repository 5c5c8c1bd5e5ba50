----------------------------- MODULE ResumeGuard ----------------------------
(***************************************************************************)
(* bdomt's guard against a crash loop (resumeAllowed in omt/main.go): each *)
(* resume cycles PPApp, so a file in /run counts them.  The file holds the *)
(* count and the time of the first, not the time of each.                  *)
(***************************************************************************)
EXTENDS Integers, Sequences, FiniteSets

CONSTANTS Limit,        (* 3 in the code                                    *)
          Window,       (* ten minutes, in ticks                            *)
          Horizon       (* the last tick, a bound of the model              *)

ASSUME GuardAssumption ==
    Limit \in Nat \ {0} /\ Window \in Nat \ {0} /\ Horizon \in Nat

VARIABLES now,          (* in ticks; bdomt may crash many times in one      *)
          count, first, (* the file in /run; a count of 0 for no file       *)
          resumed       (* when the source was resumed, one time after another *)

guardVars == <<now, count, first, resumed>>

Ticks == 0..Horizon

GuardTypeOK ==
    /\ now \in Ticks /\ first \in Ticks
    /\ count \in 0..Limit
    /\ resumed \in Seq(Ticks)

GuardInit == now = 0 /\ count = 0 /\ first = 0 /\ resumed = <<>>

Tick == now < Horizon /\ now' = now + 1 /\ UNCHANGED <<count, first, resumed>>

(* A count older than the window does not matter any more.                  *)
Fresh == count > 0 /\ now < first + Window

(* Mutant of ResumeOnce: one more than the limit.                               *)
OneMore ==
    LET c == IF Fresh THEN count ELSE 0 IN
    /\ c <= Limit
    /\ count' = c + 1 /\ first' = IF Fresh THEN first ELSE now
    /\ resumed' = Append(resumed, now)
    /\ UNCHANGED now

(* bdomt starts with a source on air and resumes it.                        *)
ResumeOnce ==
    LET c == IF Fresh THEN count ELSE 0 IN
    /\ c < Limit
    /\ count' = c + 1 /\ first' = IF Fresh THEN first ELSE now
    /\ resumed' = Append(resumed, now)
    /\ UNCHANGED now

Refuse == Fresh /\ count >= Limit /\ UNCHANGED guardVars

GuardNext == Tick \/ ResumeOnce \/ Refuse

GuardSpec == GuardInit /\ [][GuardNext]_guardVars

-----------------------------------------------------------------------------
(* The resumes of the ten minutes that begin at t.                          *)
From(t) == {i \in DOMAIN resumed : t <= resumed[i] /\ resumed[i] < t + Window}

(* What the code promises: no more than three in ten minutes.               *)
ThreeInTen == \A t \in Ticks : Cardinality(From(t)) <= Limit

(* What it does: the window starts at the first resume and not at any, so   *)
(* the end of one and the beginning of the next can fall into ten minutes;  *)
(* more than that cannot, however often bdomt crashes.                      *)
LoopIsCut == \A t \in Ticks : Cardinality(From(t)) <= 2 * Limit - 1
=============================================================================
