------------------------------ MODULE Discovery ------------------------------
(***************************************************************************)
(* Finding a sender by its name (omt/discovery.go): Resolve looks it up in *)
(* what was found lately, then in what is found now; callers at one time   *)
(* share a browse; a browse asks for all senders and then directly for the *)
(* records it still lacks.  One sender, which comes and goes.              *)
(***************************************************************************)
EXTENDS Naturals

CONSTANTS Lookers, Nobody,  (* goroutines that resolve the name              *)
          Extras            (* what a sender may add to its first answer     *)

Records == {"ptr", "srv", "addr"}

ASSUME DiscoveryAssumption == Nobody \notin Lookers /\ Extras \subseteq SUBSET Records

VARIABLES
    there,           (* the sender is on the network                         *)
    leader,          (* who browses                                          *)
    asking, heard,   (* its questions under way; the records it has          *)
    direct,          (* it has asked directly                                *)
    flawed,          (* history: a datagram was lost, or the sender came or
                        went, during this browse                             *)
    last, stale,     (* the last list has the sender; it is older than 30 s  *)
    look,            (* each caller: idle, looking, waiting, woken, browsing,
                        found, given up                                      *)
    nth,             (* which of its two looks it is at                      *)
    excused          (* history: since it began a browse came to an end, or
                        it was cancelled                                     *)

discoveryVars == <<there, leader, asking, heard, direct, flawed, last, stale, look, nth, excused>>
browseVars    == <<leader, asking, heard, direct>>

DiscoveryInit ==
    /\ there \in BOOLEAN /\ leader = Nobody
    /\ asking = {} /\ heard = {} /\ direct = FALSE /\ flawed = FALSE
    /\ last = FALSE /\ stale = TRUE
    /\ look = [c \in Lookers |-> "idle"] /\ nth = [c \in Lookers |-> 1]
    /\ excused = [c \in Lookers |-> FALSE]

TurnUp ==
    /\ there' = ~there /\ flawed' = TRUE
    /\ UNCHANGED <<browseVars, last, stale, look, nth, excused>>

Age == stale' = TRUE /\ UNCHANGED <<there, browseVars, flawed, last, look, nth, excused>>

Ask(c) ==
    /\ look[c] \in {"idle", "found", "given up"}
    /\ look' = [look EXCEPT ![c] = "looking"] /\ nth' = [nth EXCEPT ![c] = 1]
    /\ excused' = [excused EXCEPT ![c] = FALSE]
    /\ UNCHANGED <<there, browseVars, flawed, last, stale>>

(* A list that lacks the name leads to the second look, and that to nothing. *)
Got(c, found) ==
    /\ nth' = [nth EXCEPT ![c] = 2]
    /\ look' = [look EXCEPT ![c] = IF found THEN "found"
                                   ELSE IF nth[c] = 1 THEN "looking" ELSE "given up"]

(* Mutant of FreshEnough: half a minute is fresh for the second look too.   *)
FreshAlways(c) == ~stale
FreshEnough(c) == nth[c] = 1 /\ ~stale

FromList(c) ==
    /\ look[c] = "looking" /\ FreshEnough(c)
    /\ Got(c, last)
    /\ UNCHANGED <<there, browseVars, flawed, last, stale, excused>>

Join(c) ==
    /\ look[c] = "looking" /\ ~FreshEnough(c) /\ leader # Nobody
    /\ look' = [look EXCEPT ![c] = "waiting"]
    /\ UNCHANGED <<there, browseVars, flawed, last, stale, nth, excused>>

Lead(c) ==
    /\ look[c] = "looking" /\ ~FreshEnough(c) /\ leader = Nobody
    /\ look' = [look EXCEPT ![c] = "browsing"] /\ leader' = c
    /\ asking' = {"ptr"} /\ heard' = {} /\ direct' = FALSE /\ flawed' = FALSE
    /\ UNCHANGED <<there, last, stale, nth, excused>>

(* A question is answered if the sender is there and nothing is lost.       *)
Hear(q) ==
    /\ q \in asking /\ asking' = asking \ {q}
    /\ \/ ~there /\ UNCHANGED <<heard, flawed>>
       \/ flawed' = TRUE /\ UNCHANGED heard
       \/ /\ there /\ UNCHANGED flawed
          /\ \E extra \in IF q = "ptr" THEN Extras ELSE {{}} : heard' = heard \cup {q} \cup extra
    /\ UNCHANGED <<there, leader, direct, last, stale, look, nth, excused>>

(* The address is asked for where its host is known.                        *)
(* Mutant of Missing: nothing is asked again.                               *)
MissingNone == {}
Missing ==
    IF "ptr" \notin heard \/ heard = Records THEN {}
    ELSE {"srv"} \cup IF "srv" \in heard THEN {"addr"} ELSE {}

AskDirectly ==
    /\ leader # Nobody /\ asking = {} /\ ~direct
    /\ direct' = TRUE /\ asking' = Missing
    /\ UNCHANGED <<there, leader, heard, flawed, last, stale, look, nth, excused>>

(* The list is stored, the channel closed, and everybody reads the list; a
   browse that fails leaves the list as it was.                             *)
EndBrowse ==
    /\ leader # Nobody
    /\ \/ asking = {} /\ direct /\ last' = (heard = Records) /\ stale' = FALSE
       \/ heard = {} /\ ~direct /\ UNCHANGED <<last, stale>>
    /\ nth' = [nth EXCEPT ![leader] = 2]
    /\ look' = [c \in Lookers |->
                  IF c = leader
                  THEN IF last' THEN "found" ELSE IF nth[c] = 1 THEN "looking" ELSE "given up"
                  ELSE IF look[c] = "waiting" THEN "woken" ELSE look[c]]
    /\ excused' = [c \in Lookers |-> TRUE]
    /\ leader' = Nobody /\ asking' = {} /\ heard' = {} /\ direct' = FALSE
    /\ UNCHANGED <<there, flawed>>

Woken(c) ==
    /\ look[c] = "woken" /\ Got(c, last)
    /\ UNCHANGED <<there, browseVars, flawed, last, stale, excused>>

(* A Stop cancels the wait.                                                 *)
Leaves(c) ==
    /\ look[c] \in {"waiting", "woken"} /\ Got(c, FALSE)
    /\ excused' = [excused EXCEPT ![c] = TRUE]
    /\ UNCHANGED <<there, browseVars, flawed, last, stale>>

Browsing == (\E q \in Records : Hear(q)) \/ AskDirectly \/ EndBrowse

DiscoveryNext ==
    \/ TurnUp \/ Age \/ Browsing
    \/ \E c \in Lookers : \/ Ask(c) \/ FromList(c) \/ Join(c) \/ Lead(c)
                          \/ Woken(c) \/ Leaves(c)

DiscoveryFair ==
    /\ WF_discoveryVars(Browsing)
    /\ \A c \in Lookers : WF_discoveryVars(FromList(c) \/ Join(c) \/ Lead(c) \/ Woken(c))

(* A name is given up only after a browse that came to its end in the
   meantime: a list that was made before the sender came up does not make
   it unknown.                                                              *)
LooksAgain == \A c \in Lookers : look[c] = "given up" => excused[c]

(* A browse during which the sender was there and nothing was lost has all
   its records (discovery.go: those that answered without their SRV or
   address get asked directly).                                             *)
AskedIsListed ==
    leader # Nobody /\ direct /\ asking = {} /\ there /\ ~flawed => heard = Records

(* Who shares a browse is not left waiting for it.                          *)
WaitersReturn == \A c \in Lookers : look[c] = "waiting" ~> look[c] # "waiting"
=============================================================================
