--------------------------------- MODULE Kvm ---------------------------------
(***************************************************************************)
(* The KVM agent (agent/main.go): one goroutine per keyboard or mouse      *)
(* sends what is typed to the NDI source on the screen, while another      *)
(* keeps a receiver on that source.  The agent reads the devices that are  *)
(* there when it starts, ends when the last of them is gone, and its unit  *)
(* starts it again and again.                                              *)
(***************************************************************************)
EXTENDS Integers, FiniteSets

CONSTANTS
    Devices, Keys,
    NdiSources,   (* what the PLAY may show                                 *)
    Off           (* nothing, or nothing that is NDI: SRT:, WebRTC:, None   *)

ASSUME KvmAssumption == Off \notin NdiSources

VARIABLES
    plugged,      (* devices on the USB port                                *)
    reads,        (* devices this process reads; none when it is down       *)
    onScreen,     (* /etc/birddog-source1-name                              *)
    attached,     (* maintainReceiver's                                     *)
    recv,         (* the source of the receiver, or Off                     *)
    keeper,       (* where maintainReceiver is                              *)
    held          (* the keys every source believes to be down              *)

kvmVars == <<plugged, reads, onScreen, attached, recv, keeper, held>>

KvmInit ==
    /\ plugged \in SUBSET Devices /\ reads = {} /\ onScreen \in NdiSources \cup {Off}
    /\ attached = Off /\ recv = Off /\ keeper = "gone"
    /\ held = [s \in NdiSources |-> {}]

-----------------------------------------------------------------------------
(* The process.                                                             *)

(* The unit starts it; with no device it ends at once.  One that is there but
   does not open is left out by the code: here every device opens.          *)
StartAgent ==
    /\ reads = {} /\ plugged # {}
    /\ reads' = plugged /\ keeper' = "look" /\ attached' = Off /\ recv' = Off
    /\ UNCHANGED <<plugged, onScreen, held>>

Plug(d) == d \notin plugged /\ plugged' = plugged \cup {d}
           /\ UNCHANGED <<reads, onScreen, attached, recv, keeper, held>>

(* A read error ends that device's loop, the last one the process.          *)
Unplug(d) ==
    /\ d \in plugged /\ plugged' = plugged \ {d} /\ reads' = reads \ {d}
    /\ IF reads # {} /\ reads' = {}
       THEN keeper' = "gone" /\ recv' = Off /\ UNCHANGED attached
       ELSE UNCHANGED <<keeper, recv, attached>>
    /\ UNCHANGED <<onScreen, held>>

(* Send: to the receiver there is, lost where there is none.                *)
Type(d, k, down) ==
    /\ d \in reads
    /\ held' = IF recv = Off THEN held
               ELSE [held EXCEPT ![recv] = IF down THEN @ \cup {k} ELSE @ \ {k}]
    /\ UNCHANGED <<plugged, reads, onScreen, attached, recv, keeper>>

OwnerShows(s) ==
    /\ onScreen' = s /\ onScreen # s
    /\ UNCHANGED <<plugged, reads, attached, recv, keeper, held>>

-----------------------------------------------------------------------------
(* maintainReceiver, once a turn.                                           *)

(* Mutant of Look: the old receiver stays until there is a new one.         *)
LookLeaving ==
    /\ keeper = "look"
    /\ IF onScreen = attached THEN keeper' = "pump" /\ UNCHANGED <<attached, recv>>
       ELSE /\ attached' = onScreen /\ UNCHANGED recv
            /\ keeper' = IF onScreen = Off THEN "pump" ELSE "create"
    /\ UNCHANGED <<plugged, reads, onScreen, held>>

Look ==
    /\ keeper = "look"
    /\ IF onScreen = attached THEN keeper' = "pump" /\ UNCHANGED <<attached, recv>>
       ELSE /\ attached' = onScreen /\ recv' = Off
            /\ keeper' = IF onScreen = Off THEN "pump" ELSE "create"
    /\ UNCHANGED <<plugged, reads, onScreen, held>>

(* Up to three seconds of looking for it, then a receiver by URL or by name. *)
Create ==
    /\ keeper = "create"
    /\ recv' = attached /\ keeper' = "pump"
    /\ UNCHANGED <<plugged, reads, onScreen, attached, held>>

(* Mutant of CreateFails: it is not tried again.                            *)
GivesItUp ==
    /\ keeper = "create" /\ keeper' = "pump"
    /\ UNCHANGED <<plugged, reads, onScreen, attached, recv, held>>

CreateFails ==
    /\ keeper = "create" /\ keeper' = "pump" /\ attached' = Off
    /\ UNCHANGED <<plugged, reads, onScreen, recv, held>>

PumpReceiver ==
    /\ keeper = "pump" /\ keeper' = "look"
    /\ UNCHANGED <<plugged, reads, onScreen, attached, recv, held>>

KvmNext ==
    \/ StartAgent
    \/ \E d \in Devices : Plug(d) \/ Unplug(d) \/ \E k \in Keys, down \in BOOLEAN : Type(d, k, down)
    \/ \E s \in NdiSources \cup {Off} : OwnerShows(s)
    \/ Look \/ Create \/ CreateFails \/ PumpReceiver

(* The unit restarts, the goroutine goes on, and libndi makes a receiver
   sooner or later.                                                         *)
KvmFair == WF_kvmVars(StartAgent) /\ WF_kvmVars(Look) /\ WF_kvmVars(Create \/ CreateFails)
           /\ WF_kvmVars(PumpReceiver) /\ SF_kvmVars(Create)
KvmSpec == KvmInit /\ [][KvmNext]_kvmVars /\ KvmFair

-----------------------------------------------------------------------------
(* What is typed goes to the source that was on the screen when the agent
   last looked, and to none before it (agent/main.go: a metadata-only
   receiver attached to whatever source the PLAY is currently showing).     *)
TypesWhereItLooked == recv # Off => recv = attached

(* The agent re-attaches when the operator changes the source: while some
   device and one source stay, it ends up on it.                            *)
FollowsScreen ==
    \A s \in NdiSources, d \in Devices :
        <>[](onScreen = s /\ d \in plugged) => <>[](recv = s)
=============================================================================
