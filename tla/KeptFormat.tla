----------------------------- MODULE KeptFormat -----------------------------
(***************************************************************************)
(* What bdout promises about the HDMI format, as "Keep these display       *)
(* settings?" does: a format that forces a timing is only tried, and it    *)
(* becomes the kept one while it is being tried and in no other way.       *)
(* Following the source is never tried, only done.  A trial may end at any *)
(* moment, with a crash or a power cut, and then the kept format is the    *)
(* one from before it.                                                     *)
(***************************************************************************)
CONSTANTS Formats, Source, None

VARIABLES kept, tried

vars == <<kept, tried>>

Init == kept = Source /\ tried = None

Try(f) == f # Source /\ f # kept /\ tried' = f /\ UNCHANGED kept

Keep == tried # None /\ kept' = tried /\ tried' = None

GoBack == tried' = None /\ UNCHANGED kept

FollowSource == kept' = Source /\ tried' = None

Next == (\E f \in Formats : Try(f)) \/ Keep \/ GoBack \/ FollowSource

Spec == Init /\ [][Next]_vars
=============================================================================
