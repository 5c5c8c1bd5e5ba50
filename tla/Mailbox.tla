------------------------------- MODULE Mailbox -------------------------------
(***************************************************************************)
(* The one-slot mailbox between the receiver and the decode loop           *)
(* (omt/receiver.go): the newest frame wins, and frames are reused.        *)
(*                                                                         *)
(* Readers are readVideo goroutines: when a connection fails because of    *)
(* its audio half, the reader of its video half may still be busy while    *)
(* the next connection's reader has started.  Under mu only get, take,     *)
(* release and the first half of put run; the notification comes after.    *)
(***************************************************************************)
EXTENDS FiniteSets, Naturals

CONSTANTS Readers, Frames, NoFrame,
          FreeCap       (* release keeps this many free, 3 in the code         *)

ASSUME MailboxAssumption ==
    /\ IsFiniteSet(Readers) /\ IsFiniteSet(Frames)
    /\ NoFrame \notin Frames
    /\ FreeCap \in Nat

VARIABLES
    made,       (* the frames that have been allocated and are not garbage   *)
    spare,      (* mailbox.free                                              *)
    pending,    (* mailbox.pending                                           *)
    token,      (* the notify channel holds its one token                    *)
    reader,     (* where each reader is                                      *)
    filling,    (* the frame each reader holds                               *)
    decoder,    (* where the decode loop is                                  *)
    decoding    (* the frame it holds                                        *)

boxVars == <<made, spare, pending, token, reader, filling, decoder, decoding>>

BoxTypeOK ==
    /\ made \subseteq Frames /\ spare \subseteq Frames
    /\ pending \in Frames \cup {NoFrame}
    /\ token \in BOOLEAN
    /\ reader \in [Readers -> {"get", "read", "notify"}]
    /\ filling \in [Readers -> Frames \cup {NoFrame}]
    /\ decoder \in {"select", "take", "decode"}
    /\ decoding \in Frames \cup {NoFrame}

BoxInit ==
    /\ made = {} /\ spare = {} /\ pending = NoFrame /\ token = FALSE
    /\ reader = [r \in Readers |-> "get"] /\ filling = [r \in Readers |-> NoFrame]
    /\ decoder = "select" /\ decoding = NoFrame

ReaderGoesTo(r, place, frame) ==
    /\ reader' = [reader EXCEPT ![r] = place]
    /\ filling' = [filling EXCEPT ![r] = frame]

-----------------------------------------------------------------------------
(* get: a free frame, or a new one when there is none.                      *)
Get(r, f) ==
    /\ reader[r] = "get"
    /\ IF spare # {} THEN f \in spare ELSE f \notin made
    /\ spare' = spare \ {f} /\ made' = made \cup {f}
    /\ ReaderGoesTo(r, "read", f)
    /\ UNCHANGED <<pending, token, decoder, decoding>>

(* Mutant of Put: the frame the decoder has not taken is forgotten.         *)
PutOver(r) ==
    /\ reader[r] = "read"
    /\ pending' = filling[r]
    /\ ReaderGoesTo(r, "notify", NoFrame)
    /\ UNCHANGED <<made, spare, token, decoder, decoding>>

(* put, under mu: the frame the decoder has not taken goes back, uncounted  *)
(* by the cap.                                                              *)
Put(r) ==
    /\ reader[r] = "read"
    /\ spare' = IF pending = NoFrame THEN spare ELSE spare \cup {pending}
    /\ pending' = filling[r]
    /\ ReaderGoesTo(r, "notify", NoFrame)
    /\ UNCHANGED <<made, token, decoder, decoding>>

(* Mutant of Notify: nobody is told.                                        *)
NotifyNobody(r) ==
    /\ reader[r] = "notify"
    /\ ReaderGoesTo(r, "get", NoFrame)
    /\ UNCHANGED <<made, spare, pending, token, decoder, decoding>>

(* put, after mu: a token unless there is one.                              *)
Notify(r) ==
    /\ reader[r] = "notify"
    /\ token' = TRUE
    /\ ReaderGoesTo(r, "get", NoFrame)
    /\ UNCHANGED <<made, spare, pending, decoder, decoding>>

(* release: free again, or left to the collector when there are enough.     *)
Released(f) ==
    IF Cardinality(spare) < FreeCap
    THEN spare' = spare \cup {f} /\ UNCHANGED made
    ELSE made' = made \ {f} /\ UNCHANGED spare

(* A read error, or something that is not video.                            *)
ReaderReleases(r) ==
    /\ reader[r] = "read"
    /\ Released(filling[r])
    /\ ReaderGoesTo(r, "get", NoFrame)
    /\ UNCHANGED <<pending, token, decoder, decoding>>

(* The decode loop's select receives the token, takes, decodes, releases.   *)
Notified ==
    /\ decoder = "select" /\ token
    /\ token' = FALSE /\ decoder' = "take"
    /\ UNCHANGED <<made, spare, pending, reader, filling, decoding>>

(* Mutant of Take: the frame stays pending.                                 *)
TakeCopy ==
    /\ decoder = "take"
    /\ decoding' = pending
    /\ decoder' = IF pending = NoFrame THEN "select" ELSE "decode"
    /\ UNCHANGED <<made, spare, pending, token, reader, filling>>

(* Mutant of Take: nothing pending is decoded all the same.                 *)
TakeNothing ==
    /\ decoder = "take" /\ decoder' = "decode"
    /\ decoding' = pending /\ pending' = NoFrame
    /\ UNCHANGED <<made, spare, token, reader, filling>>

Take ==
    /\ decoder = "take"
    /\ decoding' = pending /\ pending' = NoFrame
    /\ decoder' = IF pending = NoFrame THEN "select" ELSE "decode"
    /\ UNCHANGED <<made, spare, token, reader, filling>>

DecoderReleases ==
    /\ decoder = "decode"
    /\ Released(decoding)
    /\ decoding' = NoFrame /\ decoder' = "select"
    /\ UNCHANGED <<pending, token, reader, filling>>

BoxNext ==
    \/ \E r \in Readers :
         \/ \E f \in Frames : Get(r, f)
         \/ Put(r) \/ Notify(r) \/ ReaderReleases(r)
    \/ Notified \/ Take \/ DecoderReleases

(* Everybody but the sender runs when it can.                               *)
BoxSpec ==
    /\ BoxInit /\ [][BoxNext]_boxVars
    /\ \A r \in Readers : WF_boxVars(Notify(r))
    /\ WF_boxVars(Notified) /\ WF_boxVars(Take) /\ WF_boxVars(DecoderReleases)

-----------------------------------------------------------------------------
(* Properties.                                                              *)

(* A frame's buffer is never read into by one goroutine while another       *)
(* decodes it, or while it is pending or free.                               *)
FrameInOnePlace ==
    /\ pending \notin spare /\ decoding \notin spare
    /\ pending # NoFrame => pending # decoding
    /\ \A r \in Readers : filling[r] # NoFrame =>
         /\ filling[r] \notin spare \cup {pending, decoding}
         /\ \A q \in Readers \ {r} : filling[q] # filling[r]

(* The pool stays small although put ignores the cap: a frame is allocated  *)
(* only when none is free, so there are never more than one for each       *)
(* reader, the pending one and the one being decoded.                       *)
PoolBounded == Cardinality(made) <= Cardinality(Readers) + 2

(* No lost wakeup, although put notifies after it has let go of the mutex:  *)
(* a pending frame is taken, by the decode loop or by a newer frame.        *)
PendingIsTaken == \A f \in Frames : pending = f ~> pending # f
=============================================================================
