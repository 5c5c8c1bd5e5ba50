-------------------------------- MODULE Gate ---------------------------------
(***************************************************************************)
(* The gate four daemons put before their API (auth.go of bdomt, the       *)
(* gateway, bdout and the Tailscale panel, the same code in each): a       *)
(* caller's birdUI session is checked by asking birdUI for a page that     *)
(* needs one, once without it, for a device without a password gives the   *)
(* page to everybody, and once with it.  The first answer is kept for half *)
(* a minute.                                                               *)
(***************************************************************************)
EXTENDS Integers

CONSTANTS
    Daemons,      (* of "omt", "gateway", "output", "tailscale"             *)
    Callers,      (* requests at a time                                     *)
    Kept,         (* unprotectedTTL                                         *)
    Patience      (* the HTTP client's timeout: how long a probe may take   *)

ASSUME GateAssumption ==
    /\ Daemons \subseteq {"omt", "gateway", "output", "tailscale"}
    /\ Kept \in Nat \ {0} /\ Patience \in Nat

VARIABLES
    daemon,       (* the one looked at, and its --allow-unprotected         *)
    password,     (* the device has a birdUI password                       *)
    settled,      (* how long it has been so, up to the Horizon             *)
    answer,       (* what the daemon keeps: protected, and for how long     *)
    call          (* where every request is                                 *)

gateVars == <<daemon, password, settled, answer, call>>

Horizon == Kept + 2 * Patience + 1

Rest == [at |-> "rest", session |-> "none", took |-> 0, seen |-> FALSE, verdict |-> "none"]

GateInit ==
    /\ daemon \in [name : Daemons, allows : BOOLEAN] /\ password \in BOOLEAN /\ settled = Horizon
    /\ answer = [protected |-> TRUE, age |-> Kept]
    /\ call = [c \in Callers |-> Rest]

-----------------------------------------------------------------------------
GoOn(c, changed) == call' = [call EXCEPT ![c] = changed] /\ UNCHANGED <<daemon, password, settled>>

Requests == {"status", "formats", "preflight", "GET", "POST"}

(* A caller has no session, one that is good or one that has run out.  What
   is open is answered at once; a status says what the gate thinks of its
   caller, so that asks, too (Describe).                                    *)
Ask(c, open, request, session) ==
    /\ call[c].at = "rest"
    /\ GoOn(c, IF request \in open \/ daemon.allows THEN [Rest EXCEPT !.verdict = "open"]
               ELSE [Rest EXCEPT !.at = "look", !.session = session])
    /\ UNCHANGED answer

(* deviceProtected, under the lock: what is kept, if it is not too old.     *)
Known == answer.age < Kept

ByAnswer(c) == GoOn(c, IF answer.protected THEN [call[c] EXCEPT !.at = "session"]
                       ELSE [Rest EXCEPT !.verdict = "unprotected"])

(* Mutant of KnownYet: what was asked for is good for another half a minute. *)
KnownAgain(c) ==
    /\ call[c].at = "look" /\ Known /\ ByAnswer(c)
    /\ answer' = [answer EXCEPT !.age = 0]

KnownYet(c) ==
    /\ call[c].at = "look" /\ Known /\ ByAnswer(c) /\ UNCHANGED answer

(* Too old: the page is asked for without a session, the lock released.     *)
NotKnown(c) ==
    /\ call[c].at = "look" /\ ~Known
    /\ GoOn(c, [call[c] EXCEPT !.at = "bare"]) /\ UNCHANGED answer

(* birdUI answers a probe, at a moment of its choosing, or not at all.      *)
Page(c, answered) ==
    /\ call[c].at \in {"bare", "probe"}
    /\ GoOn(c, [call[c] EXCEPT !.at = IF call[c].at = "bare" THEN "store" ELSE "judge", !.seen = answered])
    /\ UNCHANGED answer

NoAnswer(c) ==
    /\ call[c].at \in {"bare", "probe"}
    /\ GoOn(c, [Rest EXCEPT !.verdict = "unreachable"]) /\ UNCHANGED answer

WithoutSession(c) == call[c].at = "bare" /\ Page(c, ~password)
WithSession(c)    == call[c].at = "probe" /\ Page(c, ~password \/ call[c].session = "good")

Store(c) ==
    /\ call[c].at = "store"
    /\ answer' = [protected |-> ~call[c].seen, age |-> 0]
    /\ GoOn(c, IF call[c].seen THEN [Rest EXCEPT !.verdict = "unprotected"]
               ELSE [call[c] EXCEPT !.at = "session"])

Session(c) ==
    /\ call[c].at = "session"
    /\ GoOn(c, IF call[c].session = "none" THEN [Rest EXCEPT !.verdict = "no session"]
               ELSE [call[c] EXCEPT !.at = "probe", !.took = 0])
    /\ UNCHANGED answer

Judge(c) ==
    /\ call[c].at = "judge"
    /\ GoOn(c, [Rest EXCEPT !.verdict = IF call[c].seen THEN "in" ELSE "expired",
                            !.session = call[c].session])
    /\ UNCHANGED answer

-----------------------------------------------------------------------------
(* The owner sets a password, or takes it away.                             *)
OwnerSets ==
    /\ password' = ~password /\ settled' = 0 /\ UNCHANGED <<daemon, answer, call>>

(* Only birdUI takes time: a probe is over when the client's patience is.   *)
Waiting(c) == call[c].at \in {"bare", "probe", "store", "judge"}
Elapse ==
    /\ \A c \in Callers : call[c].at \notin {"look", "session"} /\ (Waiting(c) => call[c].took < Patience)
    /\ call' = [c \in Callers |-> IF Waiting(c) THEN [call[c] EXCEPT !.took = @ + 1] ELSE call[c]]
    /\ answer' = [answer EXCEPT !.age = IF @ < Kept THEN @ + 1 ELSE @]
    /\ settled' = IF settled < Horizon THEN settled + 1 ELSE settled
    /\ UNCHANGED <<daemon, password>>

(* Check, with what a daemon answers without it: every one of the four has
   its own copy.                                                            *)
CheckSession(c, open) ==
    \/ \E request \in Requests, session \in {"none", "good", "old"} : Ask(c, open, request, session)
    \/ KnownYet(c) \/ NotKnown(c) \/ WithoutSession(c) \/ WithSession(c) \/ NoAnswer(c)
    \/ Store(c) \/ Session(c) \/ Judge(c)

OmtGate(c)       == daemon.name = "omt"       /\ CheckSession(c, {"preflight"})
GatewayGate(c)   == daemon.name = "gateway"   /\ CheckSession(c, {"preflight"})
OutputGate(c)    == daemon.name = "output"    /\ CheckSession(c, {"preflight", "formats"})
TailscaleGate(c) == daemon.name = "tailscale" /\ CheckSession(c, {"preflight", "GET"})

GateNext ==
    \/ \E c \in Callers : OmtGate(c) \/ GatewayGate(c) \/ OutputGate(c) \/ TailscaleGate(c)
    \/ OwnerSets \/ Elapse

-----------------------------------------------------------------------------
(* A verdict is true of the device as it was within a moment.               *)
IsRecent(c) ==
    CASE call'[c].verdict = "unprotected" -> ~password \/ settled < Kept + Patience
      [] call'[c].verdict \in {"no session", "expired"} ->
            /\ password \/ settled < Kept + 2 * Patience
            /\ call[c].session # "good"
      [] call'[c].verdict = "in" ->
            /\ password \/ settled < Kept + 2 * Patience
            /\ call[c].session = "good" \/ ~password \/ settled <= Patience
      [] OTHER -> TRUE

(* Every verdict is true of the device as it was a moment ago: what is kept
   is never older than half a minute and a probe, whatever probes overlap
   and however often it is asked for (tailscale-ui/auth.go: every check is
   differential; it changes only when someone sets a password).             *)
VerdictIsRecent ==
    [][\A c \in Callers : call[c].at # "rest" /\ call'[c].at = "rest" => IsRecent(c)]_gateVars
=============================================================================
