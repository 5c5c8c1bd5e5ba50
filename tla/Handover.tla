------------------------------ MODULE Handover ------------------------------
(***************************************************************************)
(* What the handover of the HDMI output promises, whoever does it.         *)
(*                                                                         *)
(* PPApp is DRM master for as long as it runs and the kernel allows one    *)
(* master, so a module that wants to draw takes the display first and      *)
(* gives it back when it is finished.  The promise is about the order: the *)
(* output is used only while it is held, by one user at a time, and it is  *)
(* never given back under somebody who is still using it.                  *)
(***************************************************************************)
CONSTANT Users          (* whatever may draw: the runs of a session         *)

VARIABLES held,         (* the display is ours, PPApp has been stopped      *)
          using         (* the users that drive the output now              *)

vars == <<held, using>>

TypeOK == held \in BOOLEAN /\ using \subseteq Users

Init == held = FALSE /\ using = {}

Take == ~held /\ held' = TRUE /\ UNCHANGED using

Give == held /\ using = {} /\ held' = FALSE /\ UNCHANGED using

Begin(u) == held /\ using = {} /\ using' = {u} /\ UNCHANGED held

Finish(u) == using = {u} /\ using' = {} /\ UNCHANGED held

Next == Take \/ Give \/ \E u \in Users : Begin(u) \/ Finish(u)

Spec == Init /\ [][Next]_vars
=============================================================================
