-------------------------------- MODULE Stick --------------------------------
(***************************************************************************)
(* USB storage of bdplay (player/storage.go) and the library made from it  *)
(* (player/api.go, the watch's callback in player/main.go): the watch that *)
(* scans on a ticker and the web's handlers that scan and eject on their   *)
(* own goroutines, over the kernel's table of mounts.                      *)
(*                                                                         *)
(* A device is a number, in the order of its name; the mounts of a point   *)
(* are a stack.                                                            *)
(***************************************************************************)
EXTENDS Naturals, Sequences, FiniteSets

CONSTANTS Devs, Points,  (* devices, mount points: sets of numbers           *)
          Busy,          (* the devices whose unmounting may be refused      *)
          Plugs,         (* bound: how often something is plugged or pulled  *)
          Alone          (* a handler runs only between two scans            *)

ASSUME StickAssumption ==
    /\ Devs \subseteq Nat \ {0} /\ Points \subseteq Nat \ {0}
    /\ Busy \subseteq Devs /\ Plugs \in Nat /\ Alone \in BOOLEAN

VARIABLES
    plugged, plugs, (* what /proc/partitions lists; bound                    *)
    mounts,   (* the devices mounted at every point                          *)
    volumes,  (* StorageManager.volumes: where it has every device, or 0     *)
    library,  (* the device whose files the library lists, or 0              *)
    told,     (* the library the session or autoplay was last told of        *)
    th        (* the watch and the web: where each is, and what it has read  *)

stickVars == <<plugged, plugs, mounts, volumes, library, told, th>>

Watch == "watch"
Web   == "web"
Free  == [pc |-> "idle", op |-> "scan", seen |-> {}, todo |-> {}, dev |-> 0,
          point |-> 0, vols |-> {}, changed |-> FALSE, failed |-> FALSE]

StickInit ==
    /\ plugged = {} /\ plugs = 0
    /\ mounts = [p \in Points |-> <<>>]
    /\ volumes = [d \in Devs |-> 0]
    /\ library = 0 /\ told = 0
    /\ th = [t \in {Watch, Web} |-> Free]

Known     == {d \in Devs : volumes[d] # 0}
First(S)  == CHOOSE d \in S : \A e \in S : d <= e
On(p)     == IF p = 0 \/ mounts[p] = <<>> THEN 0 ELSE Head(mounts[p])
Unmounted(p) == [mounts EXCEPT ![p] = IF @ = <<>> THEN @ ELSE Tail(@)]
Step(t, r)   == th' = [th EXCEPT ![t] = r]
GoesTo(t, pc) == Step(t, [th[t] EXCEPT !.pc = pc])
Hw == <<plugged, plugs>>

Plug ==
    /\ plugs < Plugs /\ plugs' = plugs + 1
    /\ \E d \in Devs : plugged' = IF d \in plugged THEN plugged \ {d} ELSE plugged \cup {d}
    /\ UNCHANGED <<mounts, volumes, library, told, th>>

(* A pass begins with what is plugged.                                      *)
Discover(t, op) ==
    /\ th[t].pc = "idle" /\ (Alone => \A u \in {Watch, Web} : th[u].pc = "idle")
    /\ op = "eject" => t = Web
    /\ Step(t, [Free EXCEPT !.pc = IF op = "eject" THEN "copy" ELSE "drop",
                            !.op = op, !.seen = plugged])
    /\ UNCHANGED <<Hw, mounts, volumes, library, told>>

(* What is gone is unmounted lazily and forgotten, under the lock.          *)
(* Mutant of Gone: it is only forgotten.                                    *)
GoneForgotten(gone) == UNCHANGED mounts

Gone(gone) == mounts' = [p \in Points |->
    IF \E d \in gone : volumes[d] = p THEN Unmounted(p)[p] ELSE mounts[p]]

DropGone(t) ==
    /\ th[t].pc = "drop"
    /\ LET gone == Known \ th[t].seen IN
       /\ Gone(gone)
       /\ volumes' = [d \in Devs |-> IF d \in gone THEN 0 ELSE volumes[d]]
       /\ Step(t, [th[t] EXCEPT !.pc = "next", !.todo = th[t].seen \ Known,
                                !.changed = gone # {}])
    /\ UNCHANGED <<Hw, library, told>>

(* Every device that was not known then is mounted at the first free point. *)
PickPoint(t) ==
    /\ th[t].pc = "next"
    /\ IF th[t].todo = {}
       THEN GoesTo(t, IF th[t].op = "rescan" \/ th[t].changed THEN "primary" ELSE "idle")
       ELSE \E d \in th[t].todo :
              LET free == {p \in Points : mounts[p] = <<>>}
                  r == [th[t] EXCEPT !.todo = @ \ {d}, !.dev = d] IN
              Step(t, IF free = {} THEN r ELSE [r EXCEPT !.pc = "mount", !.point = First(free)])
    /\ UNCHANGED <<Hw, mounts, volumes, library, told>>

Mount(t) ==
    /\ th[t].pc = "mount"
    /\ \/ /\ th[t].dev \in plugged
          /\ mounts' = [mounts EXCEPT ![th[t].point] = <<th[t].dev>> \o @]
          /\ GoesTo(t, "store")
       \/ GoesTo(t, "next") /\ UNCHANGED mounts
    /\ UNCHANGED <<Hw, volumes, library, told>>

Store(t) ==
    /\ th[t].pc = "store"
    /\ volumes' = [volumes EXCEPT ![th[t].dev] = th[t].point]
    /\ Step(t, [th[t] EXCEPT !.pc = "next", !.changed = TRUE])
    /\ UNCHANGED <<Hw, mounts, library, told>>

(* Eject goes by a copy of the volumes, a volume at a time.                 *)
Copy(t) ==
    /\ th[t].pc = "copy"
    /\ Step(t, [th[t] EXCEPT !.pc = "unmount", !.vols = {<<d, volumes[d]>> : d \in Known}])
    /\ UNCHANGED <<Hw, mounts, volumes, library, told>>

(* An unmounting that is refused leaves its volume, and the handler answers
   with an error and does not rescan.                                       *)
Unmount(t) ==
    /\ th[t].pc = "unmount"
    /\ IF th[t].vols = {}
       THEN GoesTo(t, IF th[t].failed THEN "idle" ELSE "primary") /\ UNCHANGED mounts
       ELSE \E v \in th[t].vols :
              LET r == [th[t] EXCEPT !.vols = @ \ {v}, !.dev = v[1]] IN
              \/ /\ On(v[2]) # 0 /\ mounts' = Unmounted(v[2])
                 /\ Step(t, [r EXCEPT !.pc = "delete"])
              \/ /\ On(v[2]) = 0 \/ v[1] \in Busy
                 /\ Step(t, [r EXCEPT !.failed = TRUE]) /\ UNCHANGED mounts
    /\ UNCHANGED <<Hw, volumes, library, told>>

Delete(t) ==
    /\ th[t].pc = "delete"
    /\ volumes' = [volumes EXCEPT ![th[t].dev] = 0]
    /\ GoesTo(t, "unmount")
    /\ UNCHANGED <<Hw, mounts, library, told>>

(* Rescan reads the primary volume, then scans it and stores the library.   *)
(* Mutant of Primary: the volume mounted last.                              *)
PrimaryLast(S) == IF S = {} THEN 0 ELSE volumes[CHOOSE d \in S : \A e \in S : d >= e]

Primary(S) == IF S = {} THEN 0 ELSE volumes[First(S)]

ReadPrimary(t) ==
    /\ th[t].pc = "primary"
    /\ Step(t, [th[t] EXCEPT !.pc = "scan", !.point = Primary(Known)])
    /\ UNCHANGED <<Hw, mounts, volumes, library, told>>

(* Only the watch tells the session, or autoplay, that something changed.   *)
ScanVolume(t) ==
    /\ th[t].pc = "scan"
    /\ library' = On(th[t].point)
    /\ told' = IF t = Watch THEN library' ELSE told
    /\ Step(t, Free)
    /\ UNCHANGED <<Hw, mounts, volumes>>

StickSteps(t) == \/ DropGone(t) \/ PickPoint(t) \/ Mount(t) \/ Store(t) \/ Copy(t)
                 \/ Unmount(t) \/ Delete(t) \/ ReadPrimary(t) \/ ScanVolume(t)

StickNext == \/ Plug
             \/ Discover(Watch, "scan") \/ \E op \in {"rescan", "eject"} : Discover(Web, op)
             \/ \E t \in {Watch, Web} : StickSteps(t)

AtRest == \A t \in {Watch, Web} : th[t].pc = "idle"

(* Between two passes every device is mounted where the manager has it, once
   and nothing else is, whatever was pulled during the pass, could not be
   mounted or not unmounted: no mount is leaked, none is lost.              *)
MountsAreVolumes ==
    AtRest => \A p \in Points :
        mounts[p] = IF \E d \in Devs : volumes[d] = p
                    THEN <<CHOOSE d \in Devs : volumes[d] = p>> ELSE <<>>

(* And the library lists the files of the first volume there is.            *)
LibraryIsPrimary == AtRest => library = IF Known = {} THEN 0 ELSE First(Known)

(* And whoever draws the browser has been told of it.                       *)
BrowserIsTold == AtRest => told = library
=============================================================================
