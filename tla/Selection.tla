----------------------------- MODULE Selection ------------------------------
(***************************************************************************)
(* What the gateway promises about PPApp's source selection: the box lends *)
(* its decoder to one of the gateway's paths, and when the loan ends the   *)
(* decoder is back on what its owner had chosen.  A loan moves from path   *)
(* to path without touching the owner's choice.                            *)
(***************************************************************************)
CONSTANTS Paths, NoPath,
          Homes         (* what the owner can have chosen                   *)

VARIABLES home,         (* the owner's choice                               *)
          lent          (* the path the decoder is lent to, or NoPath       *)

vars == <<home, lent>>

Init == home \in Homes /\ lent = NoPath

Choose == lent = NoPath /\ home' \in Homes /\ UNCHANGED lent

Lend(p) == lent' = p /\ UNCHANGED home

Return == lent' = NoPath /\ UNCHANGED home

Next == Choose \/ Return \/ \E p \in Paths : Lend(p)

Spec == Init /\ [][Next]_vars
=============================================================================
