--------------------------------- MODULE Cec ---------------------------------
(***************************************************************************)
(* bdplay on the CEC bus (player/cec_follower.go, player/cec_linux.go):    *)
(* the adapter that is opened and claimed for a session, the goroutine     *)
(* that pumps and answers its messages, and the session that announces     *)
(* itself as the active source.  On the bus is another device, the TV or a  *)
(* second player, which answers as this one does.                          *)
(***************************************************************************)
EXTENDS Naturals, Sequences

CONSTANTS Room   (* bound: messages the adapter holds until they are pumped  *)

ASSUME CecAssumption == Room \in Nat \ {0}

VARIABLES
    dev,      (* closed, open, entering (the session may yet announce), up   *)
    known,    (* the physical address is known                               *)
    inbox,    (* messages received and not pumped                            *)
    active,   (* cecFollower.active                                          *)
    saying,   (* who is inside announce, active set and nothing sent         *)
    source,   (* whom the last <Active Source> on the bus named              *)
    answer,   (* what was sent to the other device last                      *)
    blurred   (* history: the adapter lost a message or a transmit failed    *)

cecVars == <<dev, known, inbox, active, saying, source, answer, blurred>>

Up == dev \in {"entering", "up"}

(* A message; hops counts the answers that led to it.                       *)
Msg(op, from, all, arg, hops) ==
    [op |-> op, from |-> from, all |-> all, arg |-> arg, hops |-> hops]
Nothing == Msg("none", "us", FALSE, "", 0)

Requests == {"give deck status", "menu request", "give power status", "vendor command"}
Presses  == {"user control", "deck control", "play", "released"}

(* Mutant of Informational: the answer to a status request is forgotten.    *)
InformationalShort == {"routing change", "menu status", "report power status", "feature abort"}

(* What is taken note of, answers to requests among them.                   *)
Informational ==
    {"routing change", "deck status", "menu status", "report power status", "feature abort"}

(* The answer to a message, or "none".                                      *)
ReplyTo(m) ==
    IF m.from = "unregistered" THEN "none"
    ELSE CASE m.op = "give deck status"  -> "deck status"
           [] m.op = "menu request"      -> "menu status"
           [] m.op = "give power status" -> "report power status"
           [] m.op \in Informational \cup Presses
                       \cup {"who is active", "set stream path", "active source"} -> "none"
           [] OTHER -> IF m.all THEN "none" ELSE "feature abort"

CecInit ==
    /\ dev = "closed" /\ known \in BOOLEAN /\ inbox = <<>>
    /\ active = FALSE /\ saying = {} /\ source = "nobody"
    /\ answer = Nothing /\ blurred = FALSE

(* A session opens the adapter, claims an address and starts the pump and a
   follower that is not active; a claim that fails closes it again.          *)
Open ==
    /\ dev = "closed" /\ dev' = "open" /\ inbox' = <<>>
    /\ UNCHANGED <<known, active, saying, source, answer, blurred>>

Claim ==
    /\ dev = "open"
    /\ \/ dev' = "entering" /\ active' = FALSE /\ blurred' = FALSE
       \/ dev' = "closed" /\ UNCHANGED <<active, blurred>>
    /\ inbox' = <<>>
    /\ UNCHANGED <<known, saying, source, answer>>

(* announce: active first, then the broadcast, which may fail.  The session
   announces once, if so configured.                                        *)
Announced(who) ==
    IF known THEN active' = TRUE /\ saying' = saying \cup {who}
    ELSE UNCHANGED <<active, saying>>

SessionAnnounces ==
    /\ dev = "entering" /\ dev' = "up"
    /\ \/ Announced("session")
       \/ UNCHANGED <<active, saying>>
    /\ UNCHANGED <<known, inbox, source, answer, blurred>>

Say(who) ==
    /\ who \in saying /\ saying' = saying \ {who}
    /\ \/ source' = "us" /\ UNCHANGED blurred
       \/ blurred' = TRUE /\ UNCHANGED source
    /\ UNCHANGED <<dev, known, inbox, active, answer>>

(* The bus: the other device, the TV for one, or one without an address
   sends.  A press is answered with nothing; its key goes to the session.   *)
Receives(m) ==
    IF Len(inbox) < Room THEN inbox' = Append(inbox, m) /\ UNCHANGED blurred
    ELSE blurred' = TRUE /\ UNCHANGED inbox

BusSends ==
    /\ Up
    /\ \E from \in {"other", "unregistered"} :
         \/ \E op \in Requests, all \in BOOLEAN : Receives(Msg(op, from, all, "", 0))
         \/ Receives(Msg("user control", from, FALSE, "", 0))
         \/ \E path \in {"ours", "theirs"} : Receives(Msg("set stream path", from, TRUE, path, 0))
         \/ Receives(Msg("who is active", from, TRUE, "", 0))
    /\ UNCHANGED <<dev, known, active, saying, source, answer>>

OtherIsActive ==
    /\ Up
    /\ source' = "other" /\ Receives(Msg("active source", "other", TRUE, "theirs", 0))
    /\ UNCHANGED <<dev, known, active, saying, answer>>

(* The other device handles what it was sent, as we do.                     *)
OtherAnswers ==
    /\ answer # Nothing /\ answer' = Nothing
    /\ IF ReplyTo(answer) # "none" /\ Up
       THEN Receives(Msg(ReplyTo(answer), "other", FALSE, "", answer.hops + 1))
       ELSE UNCHANGED <<inbox, blurred>>
    /\ UNCHANGED <<dev, known, active, saying, source>>

(* A state change: the cable or the TV's input changes the address.         *)
StateChange ==
    /\ known' = ~known
    /\ UNCHANGED <<dev, inbox, active, saying, source, answer, blurred>>

(* Mutant of Heard: an active source elsewhere is only looked at.           *)
HeardOnly == UNCHANGED active
Heard     == active' = FALSE

(* The pump hands on one message.                                           *)
Handle ==
    /\ Up /\ inbox # <<>> /\ "pump" \notin saying
    /\ inbox' = Tail(inbox)
    /\ LET m == Head(inbox) IN
       /\ \/ /\ m.op = "who is active" /\ active
             /\ Announced("pump") /\ UNCHANGED answer
          \/ /\ m.op = "set stream path" /\ m.arg = "ours" /\ known
             /\ Announced("pump") /\ UNCHANGED answer
          \/ /\ m.op = "active source"
             /\ Heard /\ UNCHANGED <<saying, answer>>
          \/ /\ ReplyTo(m) # "none"
             /\ answer' = IF m.from = "other" THEN Msg(ReplyTo(m), "us", FALSE, "", m.hops + 1) ELSE answer
             /\ UNCHANGED <<active, saying>>
          \/ /\ ReplyTo(m) = "none" /\ m.op # "active source"
             /\ m.op = "who is active" => ~active
             /\ m.op = "set stream path" => m.arg # "ours" \/ ~known
             /\ UNCHANGED <<active, saying, answer>>
    /\ UNCHANGED <<dev, known, source, blurred>>

(* closeRemote waits for the pump, then the address is given up.            *)
Close ==
    /\ dev = "up" /\ saying = {}
    /\ dev' = "closed" /\ inbox' = <<>>
    /\ UNCHANGED <<known, active, saying, source, answer, blurred>>

CecNext == \/ Open \/ Claim \/ SessionAnnounces \/ (\E who \in {"session", "pump"} : Say(who))
           \/ BusSends \/ OtherIsActive \/ OtherAnswers \/ StateChange \/ Handle \/ Close

(* Unless a message was lost, the follower takes itself for the active
   source only while the bus does, or will on the next message of either:
   it does not pull the TV back to this input after the viewer has switched
   to another device, whichever of the two announcements came first.         *)
ClaimsItsInput ==
    Up /\ active /\ ~blurred =>
        \/ source = "us" \/ saying # {}
        \/ \E i \in DOMAIN inbox : inbox[i].op = "active source"

(* Two followers of this code on one bus do not keep answering each other:
   an answer is never answered.                                             *)
AnswersEnd == answer.hops <= 1 /\ \A i \in DOMAIN inbox : inbox[i].hops <= 1
=============================================================================
