--------------------------- MODULE BoxParts_proofs ---------------------------
(***************************************************************************)
(* What holds of the small parts of the kit for every value of their       *)
(* constants: the gate, the timings, the converter's settings, the patched *)
(* pages, the agent, a run of the camera and the gateway's paths.  Each    *)
(* part has an invariant of its own that its own steps preserve; the sum   *)
(* only lets one part move and leaves the others' variables alone.         *)
(***************************************************************************)
EXTENDS BoxParts, SequenceTheorems, TLAPS

-----------------------------------------------------------------------------
(* The gate.                                                                *)

Places   == {"rest", "look", "bare", "store", "session", "probe", "judge"}
Verdicts == {"none", "open", "unprotected", "unreachable", "no session", "in", "expired"}

CallRecord == [at : Places, session : {"none", "good", "old"}, took : Nat, seen : BOOLEAN,
               verdict : Verdicts]

GateTypeOK ==
    /\ password \in BOOLEAN /\ settled \in Nat
    /\ answer \in [protected : BOOLEAN, age : Nat]
    /\ call \in [Callers -> CallRecord]

(* The answer that is kept was true of the device at some moment since the
   probe began that brought it.                                             *)
AnswerWasTrue ==
    answer.age < Kept => answer.protected = password \/ settled <= answer.age + Patience

(* So is what a request has learnt: the page without a session before it is
   stored, that there is a password before the session is looked at, and
   the page with the session before it is judged.                           *)
CallWasTrue(c) ==
    /\ call[c].at = "look" => call[c].took = 0
    /\ Waiting(c) => call[c].took <= Patience
    /\ call[c].at = "store" => call[c].seen = ~password \/ settled <= call[c].took
    /\ call[c].at = "session" => password \/ settled < Kept + Patience
    /\ call[c].at \in {"probe", "judge"} => password \/ settled < Kept + Patience + call[c].took
    /\ call[c].at = "judge" =>
         /\ call[c].session = "good" => call[c].seen
         /\ call[c].seen => call[c].session = "good" \/ ~password \/ settled <= call[c].took

GateInv == GateTypeOK /\ AnswerWasTrue /\ \A c \in Callers : CallWasTrue(c)

LEMMA GateStarts == GateInit => GateInv
  <1> SUFFICES ASSUME GateInit PROVE GateInv
    OBVIOUS
  <1>1. GateTypeOK
    BY GateAssumption DEF GateInit, GateTypeOK, CallRecord, Places, Verdicts, Rest, Horizon
  <1>2. AnswerWasTrue
    BY GateAssumption DEF GateInit, AnswerWasTrue
  <1>3. \A c \in Callers : CallWasTrue(c)
    BY DEF GateInit, CallWasTrue, Waiting, Rest
  <1> QED BY <1>1, <1>2, <1>3 DEF GateInv

(* A step of one request leaves the others, the device and the clock alone. *)
LEMMA OnlyOneMoves ==
  ASSUME GateInv, NEW c \in Callers, NEW r \in CallRecord, GoOn(c, r),
         answer' \in [protected : BOOLEAN, age : Nat], AnswerWasTrue', CallWasTrue(c)'
  PROVE  GateInv'
  <1>1. GateTypeOK'
    BY DEF GateInv, GateTypeOK, GoOn
  <1>2. ASSUME NEW d \in Callers, d # c PROVE CallWasTrue(d)'
    <2>1. call'[d] = call[d] /\ password' = password /\ settled' = settled
      BY <1>2 DEF GoOn, GateInv, GateTypeOK
    <2>2. CallWasTrue(d)
      BY DEF GateInv
    <2> QED BY <2>1, <2>2 DEF CallWasTrue, Waiting
  <1> QED BY <1>1, <1>2 DEF GateInv

(* Every step of a request.                                                 *)
LEMMA CallSteps ==
  ASSUME GateInv, NEW c \in Callers, NEW open, CheckSession(c, open)
  PROVE  GateInv'
  <1> USE GateAssumption
  <1>0. /\ call[c] \in CallRecord /\ CallWasTrue(c) /\ AnswerWasTrue
        /\ password \in BOOLEAN /\ settled \in Nat /\ answer \in [protected : BOOLEAN, age : Nat]
    BY DEF GateInv, GateTypeOK
  <1>r. Rest \in CallRecord
    BY DEF Rest, CallRecord, Places, Verdicts
  <1>1. ASSUME NEW request \in Requests, NEW session \in {"none", "good", "old"},
               Ask(c, open, request, session)
        PROVE  GateInv'
    <2> DEFINE r == IF request \in open \/ daemon.allows THEN [Rest EXCEPT !.verdict = "open"]
                    ELSE [Rest EXCEPT !.at = "look", !.session = session]
    <2>1. r \in CallRecord /\ r.at \in {"rest", "look"} /\ r.took = 0
      BY DEF Rest, CallRecord, Places, Verdicts
    <2>2. GoOn(c, r) /\ UNCHANGED answer
      BY <1>1 DEF Ask
    <2> HIDE DEF r
    <2>3. call'[c] = r
      BY <2>2 DEF GoOn, GateInv, GateTypeOK
    <2>4. CallWasTrue(c)' /\ AnswerWasTrue'
      BY <1>0, <2>1, <2>2, <2>3 DEF CallWasTrue, AnswerWasTrue, Waiting, GoOn
    <2> QED BY <1>0, <2>1, <2>2, <2>4, OnlyOneMoves
  <1>2. ASSUME KnownYet(c)
        PROVE  GateInv'
    <2> DEFINE r == IF answer.protected THEN [call[c] EXCEPT !.at = "session"]
                    ELSE [Rest EXCEPT !.verdict = "unprotected"]
    <2>1. r \in CallRecord /\ (r.at = "rest" \/ (r.at = "session" /\ answer.protected))
      BY <1>0 DEF Rest, CallRecord, Places, Verdicts
    <2>2. GoOn(c, r) /\ UNCHANGED answer /\ answer.age < Kept
      BY <1>2 DEF KnownYet, ByAnswer, Known
    <2> HIDE DEF r
    <2>3. call'[c] = r
      BY <2>2 DEF GoOn, GateInv, GateTypeOK
    <2>4. CallWasTrue(c)' /\ AnswerWasTrue'
      BY <1>0, <2>1, <2>2, <2>3 DEF CallWasTrue, AnswerWasTrue, Waiting, GoOn
    <2> QED BY <1>0, <2>1, <2>2, <2>4, OnlyOneMoves
  <1>3. ASSUME NotKnown(c)
        PROVE  GateInv'
    <2> DEFINE r == [call[c] EXCEPT !.at = "bare"]
    <2>1. r \in CallRecord /\ r.at = "bare" /\ r.took = 0
      BY <1>0, <1>3 DEF NotKnown, CallWasTrue, CallRecord, Places
    <2>2. GoOn(c, r) /\ UNCHANGED answer
      BY <1>3 DEF NotKnown
    <2> HIDE DEF r
    <2>3. call'[c] = r
      BY <2>2 DEF GoOn, GateInv, GateTypeOK
    <2>4. CallWasTrue(c)' /\ AnswerWasTrue'
      BY <1>0, <2>1, <2>2, <2>3 DEF CallWasTrue, AnswerWasTrue, Waiting, GoOn
    <2> QED BY <1>0, <2>1, <2>2, <2>4, OnlyOneMoves
  <1>4. ASSUME WithoutSession(c)
        PROVE  GateInv'
    <2> DEFINE r == [call[c] EXCEPT !.at = "store", !.seen = ~password]
    <2>1. /\ r \in CallRecord /\ r.at = "store" /\ r.took = call[c].took
          /\ r.seen = ~password /\ r.took <= Patience
      BY <1>0, <1>4 DEF WithoutSession, CallWasTrue, Waiting, CallRecord, Places
    <2>2. GoOn(c, r) /\ UNCHANGED answer
      BY <1>4 DEF WithoutSession, Page
    <2> HIDE DEF r
    <2>3. call'[c] = r
      BY <2>2 DEF GoOn, GateInv, GateTypeOK
    <2>4. CallWasTrue(c)' /\ AnswerWasTrue'
      BY <1>0, <2>1, <2>2, <2>3 DEF CallWasTrue, AnswerWasTrue, Waiting, GoOn
    <2> QED BY <1>0, <2>1, <2>2, <2>4, OnlyOneMoves
  <1>5. ASSUME WithSession(c)
        PROVE  GateInv'
    <2> DEFINE answered == ~password \/ call[c].session = "good"
               r == [call[c] EXCEPT !.at = "judge", !.seen = answered]
    <2>1. /\ r \in CallRecord /\ r.at = "judge" /\ r.took = call[c].took
          /\ r.session = call[c].session /\ r.took <= Patience
          /\ r.seen = answered
          /\ password \/ settled < Kept + Patience + call[c].took
      BY <1>0, <1>5 DEF WithSession, CallWasTrue, Waiting, CallRecord, Places
    <2>2. GoOn(c, r) /\ UNCHANGED answer
      BY <1>5 DEF WithSession, Page
    <2> HIDE DEF r
    <2>3. call'[c] = r
      BY <2>2 DEF GoOn, GateInv, GateTypeOK
    <2>4. CallWasTrue(c)' /\ AnswerWasTrue'
      BY <1>0, <2>1, <2>2, <2>3 DEF CallWasTrue, AnswerWasTrue, Waiting, GoOn
    <2> QED BY <1>0, <2>1, <2>2, <2>4, OnlyOneMoves
  <1>6. ASSUME NoAnswer(c)
        PROVE  GateInv'
    <2> DEFINE r == [Rest EXCEPT !.verdict = "unreachable"]
    <2>1. r \in CallRecord /\ r.at = "rest"
      BY DEF Rest, CallRecord, Places, Verdicts
    <2>2. GoOn(c, r) /\ UNCHANGED answer
      BY <1>6 DEF NoAnswer
    <2> HIDE DEF r
    <2>3. call'[c] = r
      BY <2>2 DEF GoOn, GateInv, GateTypeOK
    <2>4. CallWasTrue(c)' /\ AnswerWasTrue'
      BY <1>0, <2>1, <2>2, <2>3 DEF CallWasTrue, AnswerWasTrue, Waiting, GoOn
    <2> QED BY <1>0, <2>1, <2>2, <2>4, OnlyOneMoves
  <1>7. ASSUME Store(c)
        PROVE  GateInv'
    <2> DEFINE r == IF call[c].seen THEN [Rest EXCEPT !.verdict = "unprotected"]
                    ELSE [call[c] EXCEPT !.at = "session"]
    <2>1. r \in CallRecord /\ (r.at = "rest" \/ (r.at = "session" /\ ~call[c].seen))
      BY <1>0 DEF Rest, CallRecord, Places, Verdicts
    <2>2. GoOn(c, r) /\ answer' = [protected |-> ~call[c].seen, age |-> 0]
      BY <1>7 DEF Store
    <2>a. call[c].seen \in BOOLEAN /\ call[c].took \in Nat /\ call[c].took <= Patience
          /\ (call[c].seen = ~password \/ settled <= call[c].took)
      BY <1>0, <1>7 DEF Store, CallRecord, CallWasTrue, Waiting
    <2> HIDE DEF r
    <2>3. call'[c] = r
      BY <2>2 DEF GoOn, GateInv, GateTypeOK
    <2>4. answer' \in [protected : BOOLEAN, age : Nat] /\ AnswerWasTrue'
      BY <1>0, <2>a, <2>2 DEF AnswerWasTrue, GoOn
    <2>5. CallWasTrue(c)'
      BY <1>0, <2>1, <2>2, <2>3, <2>a DEF CallWasTrue, Waiting, GoOn
    <2> QED BY <1>0, <2>1, <2>2, <2>4, <2>5, OnlyOneMoves
  <1>8. ASSUME Session(c)
        PROVE  GateInv'
    <2> DEFINE r == IF call[c].session = "none" THEN [Rest EXCEPT !.verdict = "no session"]
                    ELSE [call[c] EXCEPT !.at = "probe", !.took = 0]
    <2>1. r \in CallRecord /\ (r.at = "rest" \/ (r.at = "probe" /\ r.took = 0))
      BY <1>0 DEF Rest, CallRecord, Places, Verdicts
    <2>2. GoOn(c, r) /\ UNCHANGED answer /\ (password \/ settled < Kept + Patience)
      BY <1>0, <1>8 DEF Session, CallWasTrue
    <2> HIDE DEF r
    <2>3. call'[c] = r
      BY <2>2 DEF GoOn, GateInv, GateTypeOK
    <2>4. CallWasTrue(c)' /\ AnswerWasTrue'
      BY <1>0, <2>1, <2>2, <2>3 DEF CallWasTrue, AnswerWasTrue, Waiting, GoOn
    <2> QED BY <1>0, <2>1, <2>2, <2>4, OnlyOneMoves
  <1>9. ASSUME Judge(c)
        PROVE  GateInv'
    <2> DEFINE r == [Rest EXCEPT !.verdict = IF call[c].seen THEN "in" ELSE "expired",
                                 !.session = call[c].session]
    <2>1. r \in CallRecord /\ r.at = "rest"
      BY <1>0 DEF Rest, CallRecord, Places, Verdicts
    <2>2. GoOn(c, r) /\ UNCHANGED answer
      BY <1>9 DEF Judge
    <2> HIDE DEF r
    <2>3. call'[c] = r
      BY <2>2 DEF GoOn, GateInv, GateTypeOK
    <2>4. CallWasTrue(c)' /\ AnswerWasTrue'
      BY <1>0, <2>1, <2>2, <2>3 DEF CallWasTrue, AnswerWasTrue, Waiting, GoOn
    <2> QED BY <1>0, <2>1, <2>2, <2>4, OnlyOneMoves
  <1> QED BY <1>1, <1>2, <1>3, <1>4, <1>5, <1>6, <1>7, <1>8, <1>9 DEF CheckSession

(* The password and the clock.                                              *)
LEMMA DeviceSteps ==
  ASSUME GateInv, OwnerSets \/ Elapse
  PROVE  GateInv'
  <1> USE GateAssumption
  <1>0. /\ GateTypeOK /\ AnswerWasTrue /\ \A c \in Callers : CallWasTrue(c)
        /\ \A c \in Callers : call[c] \in CallRecord
    BY DEF GateInv, GateTypeOK
  <1>1. CASE OwnerSets
    <2>1. GateTypeOK'
      BY <1>0, <1>1 DEF OwnerSets, GateTypeOK
    <2>2. AnswerWasTrue'
      BY <1>0, <1>1 DEF OwnerSets, AnswerWasTrue, GateTypeOK
    <2>3. ASSUME NEW c \in Callers PROVE CallWasTrue(c)'
      <3>1. CallWasTrue(c) /\ call'[c] = call[c] /\ settled' = 0 /\ call[c].took \in Nat
        BY <1>0, <1>1 DEF OwnerSets, CallRecord
      <3> QED BY <3>1 DEF CallWasTrue, Waiting
    <2> QED BY <2>1, <2>2, <2>3 DEF GateInv
  <1>2. CASE Elapse
    <2>0. /\ password' = password /\ settled' \in Nat /\ settled' <= settled + 1
          /\ answer' = [answer EXCEPT !.age = IF @ < Kept THEN @ + 1 ELSE @]
      BY <1>0, <1>2 DEF Elapse, GateTypeOK, Horizon
    <2>1. ASSUME NEW c \in Callers
          PROVE  /\ call[c].at \notin {"look", "session"}
                 /\ call'[c] \in CallRecord /\ call'[c].at = call[c].at
                 /\ call'[c].seen = call[c].seen /\ call'[c].session = call[c].session
                 /\ call'[c].took = IF Waiting(c) THEN call[c].took + 1 ELSE call[c].took
                 /\ Waiting(c) => call[c].took < Patience
      BY <1>0, <1>2 DEF Elapse, CallRecord
    <2>2. GateTypeOK'
      <3>1. answer' \in [protected : BOOLEAN, age : Nat]
        BY <1>0, <2>0 DEF GateTypeOK
      <3>2. call' \in [Callers -> CallRecord]
        BY <2>1, <1>2 DEF Elapse
      <3> QED BY <1>0, <2>0, <3>1, <3>2 DEF GateTypeOK
    <2>3. AnswerWasTrue'
      <3>1. answer.age \in Nat /\ answer'.protected = answer.protected
            /\ answer'.age = IF answer.age < Kept THEN answer.age + 1 ELSE answer.age
        BY <1>0, <2>0 DEF GateTypeOK
      <3> QED BY <1>0, <2>0, <3>1 DEF AnswerWasTrue, GateTypeOK
    <2>4. ASSUME NEW c \in Callers PROVE CallWasTrue(c)'
      <3>1. CallWasTrue(c) /\ call[c].took \in Nat /\ settled \in Nat
        BY <1>0 DEF CallRecord, GateTypeOK
      <3> QED BY <2>0, <2>1, <3>1 DEF CallWasTrue, Waiting
    <2> QED BY <2>2, <2>3, <2>4 DEF GateInv
  <1> QED BY <1>1, <1>2

LEMMA GateKeeps == GateInv /\ [GateNext]_gateVars => GateInv'
  <1> SUFFICES ASSUME GateInv, [GateNext]_gateVars PROVE GateInv'
    OBVIOUS
  <1>1. ASSUME NEW c \in Callers, OmtGate(c) \/ GatewayGate(c) \/ OutputGate(c) \/ TailscaleGate(c)
        PROVE  GateInv'
    BY <1>1, CallSteps DEF OmtGate, GatewayGate, OutputGate, TailscaleGate
  <1>2. CASE UNCHANGED gateVars
    BY <1>2 DEF gateVars, GateInv, GateTypeOK, AnswerWasTrue, CallWasTrue, Waiting
  <1> QED BY <1>1, <1>2, DeviceSteps DEF GateNext

(* What a request ends with.  Only three of its steps give a verdict that
   says something of the device.                                            *)
LEMMA VerdictsAreTrue ==
  ASSUME GateInv, NEW c \in Callers, NEW d \in Callers, NEW open, CheckSession(d, open),
         call[c].at # "rest", call'[c].at = "rest"
  PROVE  IsRecent(c)
  <1> USE GateAssumption
  <1>0. /\ call[c] \in CallRecord /\ CallWasTrue(c) /\ AnswerWasTrue
        /\ password \in BOOLEAN /\ settled \in Nat /\ answer \in [protected : BOOLEAN, age : Nat]
        /\ call \in [Callers -> CallRecord] /\ Kept \in Nat \ {0} /\ Patience \in Nat
        /\ call[c].took \in Nat
    BY DEF GateInv, GateTypeOK, CallRecord
  <1>1. ASSUME NEW r, GoOn(d, r) PROVE d = c /\ call'[c] = r
    BY <1>0, <1>1 DEF GoOn
  <1>2. ASSUME NEW request, NEW session PROVE ~Ask(d, open, request, session)
    BY <1>1 DEF Ask
  <1>3. CASE KnownYet(d)
    <2>1. GoOn(d, IF answer.protected THEN [call[d] EXCEPT !.at = "session"]
                  ELSE [Rest EXCEPT !.verdict = "unprotected"])
          /\ answer.age < Kept
      BY <1>3 DEF KnownYet, ByAnswer, Known
    <2>2. ~answer.protected /\ call'[c].verdict = "unprotected"
      BY <1>0, <1>1, <2>1 DEF Rest, CallRecord
    <2>3. ~password \/ settled < Kept + Patience
      BY <1>0, <2>1, <2>2 DEF AnswerWasTrue
    <2> QED BY <2>2, <2>3 DEF IsRecent
  <1>4. CASE NotKnown(d) \/ WithoutSession(d) \/ WithSession(d)
    <2>1. PICK place \in Places \ {"rest"}, seen \in BOOLEAN :
             GoOn(d, [call[d] EXCEPT !.at = place, !.seen = seen])
      <3>1. CASE NotKnown(d)
        <4>1. GoOn(d, [call[d] EXCEPT !.at = "bare", !.seen = call[d].seen])
          BY <1>0, <3>1 DEF NotKnown, CallRecord
        <4> QED BY <1>0, <4>1 DEF Places, CallRecord
      <3>2. CASE WithoutSession(d)
        BY <1>0, <3>2 DEF WithoutSession, Page, Places
      <3>3. CASE WithSession(d)
        BY <1>0, <3>3 DEF WithSession, Page, Places
      <3> QED BY <1>4, <3>1, <3>2, <3>3
    <2> DEFINE r == [call[d] EXCEPT !.at = place, !.seen = seen]
    <2>2. d = c /\ call'[c] = r
      BY <1>1, <2>1
    <2>3. r.at = place
      BY <1>0, <2>2 DEF CallRecord
    <2> QED BY <2>2, <2>3
  <1>5. CASE NoAnswer(d)
    <2>1. call'[c].verdict = "unreachable"
      BY <1>1, <1>5 DEF NoAnswer, Rest
    <2> QED BY <2>1 DEF IsRecent
  <1>6. CASE Store(d)
    <2>1. d = c /\ call[c].at = "store"
          /\ call'[c] = IF call[c].seen THEN [Rest EXCEPT !.verdict = "unprotected"]
                        ELSE [call[c] EXCEPT !.at = "session"]
      BY <1>1, <1>6 DEF Store
    <2>2. call[c].seen /\ call'[c].verdict = "unprotected"
      BY <1>0, <2>1 DEF Rest, CallRecord
    <2>3. ~password \/ settled <= call[c].took
      BY <1>0, <2>1, <2>2 DEF CallWasTrue
    <2>4. ~password \/ settled < Kept + Patience
      BY <1>0, <2>1, <2>3 DEF CallWasTrue, Waiting
    <2> QED BY <2>2, <2>4 DEF IsRecent
  <1>7. CASE Session(d)
    <2>1. d = c /\ call[c].at = "session"
          /\ call'[c] = IF call[c].session = "none" THEN [Rest EXCEPT !.verdict = "no session"]
                        ELSE [call[c] EXCEPT !.at = "probe", !.took = 0]
      BY <1>1, <1>7 DEF Session
    <2>2. call[c].session = "none" /\ call'[c].verdict = "no session"
      BY <1>0, <2>1 DEF Rest, CallRecord
    <2>3. password \/ settled < Kept + Patience
      BY <1>0, <2>1 DEF CallWasTrue
    <2>4. password \/ settled < Kept + 2 * Patience
      BY <1>0, <2>3
    <2>5. call[c].session # "good"
      BY <2>2
    <2> QED BY <2>2, <2>4, <2>5 DEF IsRecent
  <1>8. CASE Judge(d)
    <2>1. d = c /\ call[c].at = "judge"
          /\ call'[c].verdict = IF call[c].seen THEN "in" ELSE "expired"
      <3> DEFINE r == [Rest EXCEPT !.verdict = IF call[d].seen THEN "in" ELSE "expired",
                                   !.session = call[d].session]
      <3>1. call[d].at = "judge" /\ GoOn(d, r)
        BY <1>8 DEF Judge
      <3>2. r.verdict = IF call[d].seen THEN "in" ELSE "expired"
        BY DEF Rest
      <3>3. d = c /\ call'[c] = r
        BY <1>1, <3>1
      <3> QED BY <3>1, <3>2, <3>3
    <2>2. call[c].took \in Nat /\ call[c].took <= Patience
      BY <1>0, <2>1 DEF CallWasTrue, Waiting, CallRecord
    <2>3. password \/ settled < Kept + 2 * Patience
      BY <1>0, <2>1, <2>2 DEF CallWasTrue
    <2>4. CASE call[c].seen
      <3>1. call[c].session = "good" \/ ~password \/ settled <= Patience
        BY <1>0, <2>1, <2>2, <2>4 DEF CallWasTrue
      <3> QED BY <2>1, <2>3, <2>4, <3>1 DEF IsRecent
    <2>5. CASE ~call[c].seen
      <3>1. call[c].session # "good"
        BY <1>0, <2>1, <2>5 DEF CallWasTrue
      <3> QED BY <2>1, <2>3, <2>5, <3>1 DEF IsRecent
    <2> QED BY <2>4, <2>5
  <1> QED BY <1>2, <1>3, <1>4, <1>5, <1>6, <1>7, <1>8 DEF CheckSession

(* Every verdict of the gate is true of the device as it was within the time
   an answer is kept and two probes, whatever requests overlap
   (Gate.Check and deviceProtected in the four auth.go).                    *)
THEOREM VerdictsAreRecent == BoxSpec => VerdictIsRecent
  <1>1. BoxInit => GateInv
    BY GateStarts DEF BoxInit
  <1>2. [BoxNext]_boxVars => [GateNext]_gateVars
    BY DEF BoxNext, Keeps, boxVars
  <1>3. GateInv /\ [GateNext]_gateVars =>
          [\A c \in Callers : call[c].at # "rest" /\ call'[c].at = "rest" => IsRecent(c)]_gateVars
    <2> SUFFICES ASSUME GateInv, GateNext, NEW c \in Callers, call[c].at # "rest", call'[c].at = "rest"
                 PROVE  IsRecent(c)
      OBVIOUS
    <2>1. ASSUME NEW d \in Callers, OmtGate(d) \/ GatewayGate(d) \/ OutputGate(d) \/ TailscaleGate(d)
          PROVE  IsRecent(c)
      BY <2>1, VerdictsAreTrue DEF OmtGate, GatewayGate, OutputGate, TailscaleGate
    <2>2. ~OwnerSets /\ ~Elapse
      BY DEF OwnerSets, Elapse, GateInv, GateTypeOK, CallRecord
    <2> QED BY <2>1, <2>2 DEF GateNext
  <1> QED BY <1>1, <1>2, <1>3, GateKeeps, PTL DEF BoxSpec, VerdictIsRecent

-----------------------------------------------------------------------------
(* The sums of the Output tab.                                              *)

LEMMA EvenBelow ==
  ASSUME NEW v \in Int
  PROVE  /\ Even(v) \in Int /\ Even(v) % 2 = 0 /\ v - 1 <= Even(v) /\ Even(v) <= v
         /\ v >= 0 => Even(v) \in Nat
  BY DEF Even

LEMMA EvenSum ==
  ASSUME NEW a \in Nat, NEW b \in Nat, a % 2 = 0, b % 2 = 0
  PROVE  (a + b) % 2 = 0
  OBVIOUS

LEMMA Quotient ==
  ASSUME NEW a \in Nat, NEW b \in Nat \ {0}
  PROVE  a \div b \in Nat /\ b * (a \div b) <= a /\ a < b * (a \div b) + b
  OBVIOUS

LEMMA QuotientIs ==
  ASSUME NEW a \in Nat, NEW b \in Nat \ {0}, NEW q \in Nat, b * q <= a, a < b * q + b
  PROVE  a \div b = q
  OBVIOUS

LEMMA QuotientAtMost ==
  ASSUME NEW a \in Nat, NEW b \in Nat \ {0}, NEW q \in Nat, a < b * q + b
  PROVE  a \div b <= q
  OBVIOUS

(* A share of a length, rounded, is even and no more than the length.       *)
LEMMA PartInside ==
  ASSUME NEW n \in Nat, NEW share \in 0..Unit
  PROVE  Part(n, share) \in Nat /\ Part(n, share) % 2 = 0 /\ Part(n, share) <= n
  <1> USE FormatsAssumption
  <1> DEFINE a == n * share + Unit \div 2
  <1>1. n * share \in Nat /\ n * share <= Unit * n
    OBVIOUS
  <1>2. a \in Nat /\ a < Unit * n + Unit
    <2>1. Unit \div 2 \in Nat /\ Unit \div 2 < Unit /\ Unit * n \in Nat
      OBVIOUS
    <2> QED BY <1>1, <2>1
  <1>3. a \div Unit \in Nat /\ a \div Unit <= n
    BY <1>2, Quotient, QuotientAtMost
  <1> QED BY <1>3, EvenBelow DEF Part

LEMMA WithinInside ==
  ASSUME NEW size \in Nat, NEW from \in Nat, from <= size, NEW len \in Nat, len % 2 = 0
  PROVE  /\ Within(size, from, len) \in Nat /\ Within(size, from, len) % 2 = 0
         /\ from + Within(size, from, len) <= size
  <1>1. size - from \in Nat /\ Even(size - from) \in Nat /\ Even(size - from) % 2 = 0
        /\ Even(size - from) <= size - from
    BY EvenBelow
  <1> QED BY <1>1 DEF Within

(* What is inside, and in even pixels.                                      *)
Fits(c, pw, ph) ==
  /\ c.x \in Nat /\ c.y \in Nat /\ c.w \in Nat /\ c.h \in Nat
  /\ c.x % 2 = 0 /\ c.y % 2 = 0 /\ c.w % 2 = 0 /\ c.h % 2 = 0
  /\ c.x + c.w <= pw /\ c.y + c.h <= ph

LEMMA CutOutInside ==
  ASSUME NEW r \in Rectangle, ValidRect(r), NEW pw \in Nat, NEW ph \in Nat
  PROVE  Fits(CutOut(r, pw, ph), pw, ph)
  <1>1. r.x \in 0..Unit /\ r.y \in 0..Unit /\ r.w \in 0..Unit /\ r.h \in 0..Unit
    BY FormatsAssumption DEF ValidRect, Rectangle
  <1>2. \A n \in {pw, ph}, share \in 0..Unit :
           Part(n, share) \in Nat /\ Part(n, share) % 2 = 0 /\ Part(n, share) <= n
    BY PartInside
  <1> QED BY <1>1, <1>2, WithinInside DEF CutOut, Fits

(* A side shortened to keep the shape: n * short is m to two n, and what is
   left of the side is enough for a bar before it.                          *)
LEMMA Shortened ==
  ASSUME NEW n \in Nat \ {0}, NEW m \in Nat, NEW len \in Nat, n * len > m,
         NEW short, short = Even((m + n \div 2) \div n)
  PROVE  /\ short \in Nat /\ short % 2 = 0 /\ short <= len
         /\ n * short <= m + 2 * n /\ m <= n * short + 2 * n
         /\ Even((len - short) \div 2) \in Nat /\ Even((len - short) \div 2) % 2 = 0
         /\ Even((len - short) \div 2) + short <= len
  <1> DEFINE q == (m + n \div 2) \div n
  <1>1. m + n \div 2 \in Nat /\ n \div 2 \in Nat /\ n \div 2 < n
    OBVIOUS
  <1>2. q \in Nat /\ n * q <= m + n \div 2 /\ m + n \div 2 < n * q + n
    BY <1>1, Quotient
  <1>3. m + n \div 2 < n * len + n
    BY <1>1
  <1>4. q <= len
    BY <1>1, <1>3, QuotientAtMost
  <1> HIDE DEF q
  <1>5. short \in Nat /\ short % 2 = 0 /\ short <= q /\ q - 1 <= short
    <2>1. short = Even(q)
      BY DEF q
    <2> QED BY <1>2, <2>1, EvenBelow
  <1>6. n * short <= n * q /\ n * q <= n * short + n
    <2>1. q = short \/ q = short + 1
      BY <1>2, <1>5
    <2> QED BY <1>5, <2>1
  <1>7. n * short \in Nat /\ n * q \in Nat
    BY <1>2, <1>5
  <1>8. n * short <= m + 2 * n /\ m <= n * short + 2 * n
    BY <1>1, <1>2, <1>6, <1>7
  <1>9. (len - short) \div 2 \in Nat /\ 2 * ((len - short) \div 2) <= len - short
    BY <1>4, <1>5, <1>2
  <1>10. Even((len - short) \div 2) \in Nat /\ Even((len - short) \div 2) % 2 = 0
         /\ Even((len - short) \div 2) <= (len - short) \div 2
    BY <1>9, EvenBelow
  <1>11. Even((len - short) \div 2) + short <= len
    BY <1>5, <1>9, <1>10
  <1> QED BY <1>2, <1>4, <1>5, <1>8, <1>10, <1>11

(* Bars keep the picture inside its place.                                  *)
LEMMA BarredInside ==
  ASSUME NEW src, NEW dst, NEW sw \in Nat, NEW sh \in Nat, NEW dw \in Nat, NEW dh \in Nat,
         Fits(src, sw, sh), Fits(dst, dw, dh), src.w > 0, src.h > 0,
         dst = [x |-> dst.x, y |-> dst.y, w |-> dst.w, h |-> dst.h],
         NEW out, out = Barred(src, dst)
  PROVE  /\ Fits(out, dw, dh)
         /\ \/ Gap(src.w * out.h, out.w * src.h) <= 2 * src.w
            \/ Gap(src.w * out.h, out.w * src.h) <= 2 * src.h
  <1>0. /\ src.w \in Nat \ {0} /\ src.h \in Nat \ {0}
        /\ dst.x \in Nat /\ dst.y \in Nat /\ dst.w \in Nat /\ dst.h \in Nat
        /\ dst.x % 2 = 0 /\ dst.y % 2 = 0 /\ dst.w % 2 = 0 /\ dst.h % 2 = 0
        /\ dst.x + dst.w <= dw /\ dst.y + dst.h <= dh
    BY DEF Fits
  <1>m. /\ dst.w * src.h \in Nat /\ src.w * dst.h \in Nat /\ dst.h * src.w \in Nat
        /\ dst.h * src.w = src.w * dst.h /\ src.h * dst.w = dst.w * src.h
    BY <1>0
  <1>1. CASE src.w * dst.h > dst.w * src.h
    <2> DEFINE tall == Even((dst.w * src.h + src.w \div 2) \div src.w)
               bar  == Even((dst.h - tall) \div 2)
    <2>1. /\ tall \in Nat /\ tall % 2 = 0 /\ tall <= dst.h
          /\ src.w * tall <= dst.w * src.h + 2 * src.w /\ dst.w * src.h <= src.w * tall + 2 * src.w
          /\ bar \in Nat /\ bar % 2 = 0 /\ bar + tall <= dst.h
      BY <1>0, <1>m, <1>1, Shortened
    <2>2. out = [dst EXCEPT !.y = @ + bar, !.h = tall]
      BY <1>1 DEF Barred
    <2> HIDE DEF tall, bar
    <2>3. out.x = dst.x /\ out.y = dst.y + bar /\ out.w = dst.w /\ out.h = tall
      BY <2>2
    <2>4. dst.y + bar \in Nat /\ (dst.y + bar) % 2 = 0 /\ (dst.y + bar) + tall <= dh
      <3>1. dst.y + bar \in Nat /\ (dst.y + bar) % 2 = 0
        <4>1. dst.y \in Nat /\ bar \in Nat /\ dst.y % 2 = 0 /\ bar % 2 = 0
          BY <1>0, <2>1
        <4> QED BY <4>1, EvenSum
      <3>2. (dst.y + bar) + tall <= dst.y + dst.h
        BY <1>0, <2>1
      <3> QED BY <1>0, <2>1, <3>1, <3>2
    <2>5. Fits(out, dw, dh)
      BY <1>0, <2>1, <2>3, <2>4 DEF Fits
    <2>6. src.w * tall \in Nat
      BY <1>0, <2>1
    <2>7. Gap(src.w * out.h, out.w * src.h) <= 2 * src.w
      BY <1>0, <1>m, <2>1, <2>3, <2>6 DEF Gap
    <2> QED BY <2>5, <2>7
  <1>2. CASE src.w * dst.h < dst.w * src.h
    <2> DEFINE wide == Even((dst.h * src.w + src.h \div 2) \div src.h)
               bar  == Even((dst.w - wide) \div 2)
    <2>1. /\ wide \in Nat /\ wide % 2 = 0 /\ wide <= dst.w
          /\ src.h * wide <= dst.h * src.w + 2 * src.h /\ dst.h * src.w <= src.h * wide + 2 * src.h
          /\ bar \in Nat /\ bar % 2 = 0 /\ bar + wide <= dst.w
      BY <1>0, <1>m, <1>2, Shortened
    <2>2. out = [dst EXCEPT !.x = @ + bar, !.w = wide]
      BY <1>m, <1>2 DEF Barred
    <2> HIDE DEF wide, bar
    <2>3. out.x = dst.x + bar /\ out.y = dst.y /\ out.w = wide /\ out.h = dst.h
      BY <2>2
    <2>4. dst.x + bar \in Nat /\ (dst.x + bar) % 2 = 0 /\ (dst.x + bar) + wide <= dw
      <3>1. dst.x + bar \in Nat /\ (dst.x + bar) % 2 = 0
        <4>1. dst.x \in Nat /\ bar \in Nat /\ dst.x % 2 = 0 /\ bar % 2 = 0
          BY <1>0, <2>1
        <4> QED BY <4>1, EvenSum
      <3>2. (dst.x + bar) + wide <= dst.x + dst.w
        BY <1>0, <2>1
      <3> QED BY <1>0, <2>1, <3>1, <3>2
    <2>5. Fits(out, dw, dh)
      BY <1>0, <2>1, <2>3, <2>4 DEF Fits
    <2>6. wide * src.h \in Nat /\ wide * src.h = src.h * wide
      BY <1>0, <2>1
    <2>7. Gap(src.w * out.h, out.w * src.h) <= 2 * src.h
      BY <1>0, <1>m, <2>1, <2>3, <2>6 DEF Gap
    <2> QED BY <2>5, <2>7
  <1>3. CASE src.w * dst.h = dst.w * src.h
    <2>1. out = dst
      BY <1>m, <1>3 DEF Barred
    <2> QED BY <1>0, <1>m, <1>3, <2>1 DEF Fits, Gap
  <1> QED BY <1>m, <1>1, <1>2, <1>3

(* What Preview gives for any area, picture and screen.                     *)
LEMMA PreviewInside ==
  ASSUME NEW area \in Areas, NEW pic \in Pictures, NEW scr \in Screens,
         NEW p \in Preview(area, pic, scr)
  PROVE  /\ Fits(p.src, pic[1], pic[2]) /\ Fits(p.dst, scr[1], scr[2])
         /\ p.dst.w >= 16 /\ p.dst.h >= 16
         /\ area.keeps => \/ Gap(p.src.w * p.dst.h, p.dst.w * p.src.h) <= 2 * p.src.w
                          \/ Gap(p.src.w * p.dst.h, p.dst.w * p.src.h) <= 2 * p.src.h
  <1>1. /\ area.src \in Rectangle /\ area.dst \in Rectangle
        /\ pic[1] \in Nat /\ pic[2] \in Nat /\ scr[1] \in Nat /\ scr[2] \in Nat
    BY FormatsAssumption
  <1> DEFINE src == CutOut(area.src, pic[1], pic[2])
             dst == CutOut(area.dst, scr[1], scr[2])
             out == IF area.keeps THEN Barred(src, dst) ELSE dst
  <1>2. /\ p = [src |-> src, dst |-> out]
        /\ ValidRect(area.src) /\ ValidRect(area.dst)
        /\ src.w >= 16 /\ src.h >= 16 /\ out.w >= 16 /\ out.h >= 16
    BY DEF Preview
  <1>3. Fits(src, pic[1], pic[2]) /\ Fits(dst, scr[1], scr[2])
    BY <1>1, <1>2, CutOutInside
  <1>4. dst = [x |-> dst.x, y |-> dst.y, w |-> dst.w, h |-> dst.h]
    BY DEF CutOut
  <1>5. src.w > 0 /\ src.h > 0
    BY <1>2, <1>3 DEF Fits
  <1> HIDE DEF src, dst
  <1>6. ASSUME area.keeps
        PROVE  /\ Fits(out, scr[1], scr[2])
               /\ \/ Gap(src.w * out.h, out.w * src.h) <= 2 * src.w
                  \/ Gap(src.w * out.h, out.w * src.h) <= 2 * src.h
    <2>1. out = Barred(src, dst)
      BY <1>6
    <2> HIDE DEF out
    <2> QED BY <1>1, <1>3, <1>4, <1>5, <2>1, BarredInside
  <1> QED BY <1>2, <1>3, <1>6

(* Totals that are near enough give back the rate, to the whole Hz.         *)
NearRate(c, area, hz) ==
  /\ c \in Nat /\ area \in Nat /\ area >= 100 /\ hz \in 23..120
  /\ Gap(c, hz * area) <= (hz * area) \div 2000
RateOf(c, area) == (c + area \div 2) \div area

LEMMA RefreshIsAsked ==
  ASSUME NEW c, NEW area, NEW hz, NearRate(c, area, hz) PROVE RateOf(c, area) = hz
  <1>0. /\ c \in Nat /\ area \in Nat /\ area >= 100 /\ hz \in 23..120
        /\ Gap(c, hz * area) <= (hz * area) \div 2000
    BY DEF NearRate
  <1> DEFINE n == hz * area
  <1>1. n \in Nat /\ n <= 120 * area
    BY <1>0
  <1>2. Gap(c, n) <= n \div 2000
    BY <1>0
  <1>e. n = area * hz
    BY <1>0
  <1> HIDE DEF n
  <1>3. 2000 * (n \div 2000) <= n /\ n \div 2000 \in Nat
    BY <1>1
  <1>4. c <= n + n \div 2000 /\ n <= c + n \div 2000
    BY <1>0, <1>1, <1>2, <1>3 DEF Gap
  <1>5. 50 * (n \div 2000) <= 3 * area
    BY <1>0, <1>1, <1>3
  <1>6. area \div 2 \in Nat /\ 2 * (area \div 2) <= area /\ area <= 2 * (area \div 2) + 1
    BY <1>0
  <1>7. n <= c + area \div 2 /\ c + area \div 2 < n + area
    BY <1>0, <1>1, <1>3, <1>4, <1>5, <1>6
  <1>8. area * hz <= c + area \div 2 /\ c + area \div 2 < area * hz + area
    BY <1>7, <1>e
  <1>9. c + area \div 2 \in Nat /\ area \in Nat \ {0} /\ hz \in Nat
    BY <1>0, <1>6
  <1> QED BY <1>8, <1>9, QuotientIs DEF RateOf

GoodLeast(w, h, hz) ==
  /\ HMin(w) \in Nat /\ HMin(w) >= w + 80
  /\ VMin(h, hz) \in Nat /\ VMin(h, hz) >= h + 15

LEMMA LeastBlanking ==
  ASSUME NEW w, NEW h, NEW hz, Fits0(w, h, hz) PROVE GoodLeast(w, h, hz)
  <1>0. w \in 320..4096 /\ h \in 200..4096 /\ hz \in 23..120
    BY DEF Fits0
  <1>1. HMin(w) \in Nat /\ HMin(w) >= w + 80
    BY <1>0 DEF HMin
  <1> DEFINE slope == 50000 - 23 * hz
             least == (50000 * h + slope - 1) \div slope
  <1>2. slope \in Nat \ {0} /\ 50000 * h + slope - 1 \in Nat
    BY <1>0
  <1>3. least \in Nat
    BY <1>2, Quotient
  <1>4. VMin(h, hz) \in Nat /\ VMin(h, hz) >= h + 15
    BY <1>0, <1>3 DEF VMin
  <1> QED BY <1>1, <1>4 DEF GoodLeast

LEMMA Positive == ASSUME NEW a \in Nat \ {0}, NEW b \in Nat \ {0} PROVE a * b \in Nat \ {0}
  OBVIOUS

(* What the totals of a clock are.                                          *)
GoodTotals(clock, w, h, hz, t) ==
  /\ t[1] \in Nat /\ t[1] >= w + 80 /\ t[1] <= 65535 /\ t[1] % 8 = 0
  /\ t[2] \in Nat /\ t[2] >= h + 15 /\ t[2] <= 65535
  /\ Near(clock, hz, t[1], t[2])

LEMMA TotalsAre ==
  ASSUME NEW clock \in ClocksKHz, NEW w, NEW h, NEW hz, Fits0(w, h, hz),
         NEW last, NEW t \in Totals(clock, w, h, hz, last)
  PROVE  GoodTotals(clock, w, h, hz, t)
  <1> DEFINE Lines(vt) == {(((clock * 1000) \div (hz * vt)) \div 8) * 8,
                           (((clock * 1000 + hz * vt - 1) \div (hz * vt) + 7) \div 8) * 8}
  <1>0. clock \in Nat /\ w \in 320..4096 /\ h \in 200..4096 /\ hz \in 23..120
    BY DEF ClocksKHz, Fits0
  <1>1. PICK vt : t \in Lines(vt) \X {vt}
    BY DEF Totals
  <1>2. t[1] \in HMin(w)..65535 /\ t[2] \in VMin(h, hz)..65535 /\ Near(clock, hz, t[1], t[2])
    BY DEF Totals
  <1>3. t[2] = vt /\ t[1] \in Lines(vt)
    BY <1>1
  <1> HIDE DEF Lines
  <1>4. HMin(w) \in Nat /\ HMin(w) >= w + 80 /\ VMin(h, hz) \in Nat /\ VMin(h, hz) >= h + 15
    BY LeastBlanking DEF GoodLeast
  <1>5. /\ t[1] \in Nat /\ t[1] >= w + 80 /\ t[1] <= 65535
        /\ t[2] \in Nat /\ t[2] >= h + 15 /\ t[2] <= 65535
    BY <1>0, <1>2, <1>4
  <1>6. t[1] % 8 = 0
    <2>0. vt \in Nat /\ vt >= h + 15
      BY <1>3, <1>5
    <2>a. clock * 1000 \in Nat
      BY <1>0
    <2>b. hz \in Nat \ {0} /\ h \in Nat
      BY <1>0
    <2>c. vt \in Nat \ {0}
      BY <2>0, <2>b
    <2>1. vt \in Nat \ {0} /\ hz \in Nat \ {0} /\ clock * 1000 \in Nat
      BY <2>a, <2>b, <2>c
    <2>2. hz * vt \in Nat \ {0}
      BY <2>1, Positive
    <2>3. clock * 1000 + hz * vt - 1 \in Nat
      BY <2>1, <2>2
    <2>4. (clock * 1000) \div (hz * vt) \in Nat /\ (clock * 1000 + hz * vt - 1) \div (hz * vt) \in Nat
      BY <2>1, <2>2, <2>3, Quotient
    <2>5. \A x \in Nat : ((x \div 8) * 8) % 8 = 0
      OBVIOUS
    <2>6. (clock * 1000 + hz * vt - 1) \div (hz * vt) + 7 \in Nat
      BY <2>4
    <2> QED BY <1>3, <2>4, <2>5, <2>6 DEF Lines
  <1> QED BY <1>2, <1>5, <1>6 DEF GoodTotals

(* A timing Fit gives.                                                      *)
LEMMA FitAccepted ==
  ASSUME NEW w \in Nat, NEW h \in Nat, NEW hz \in Nat, NEW m \in Fit(w, h, hz)
  PROVE  /\ Check(m) /\ m.ht - m.w >= 80 /\ m.ht % 8 = 0 /\ m.vt - m.h >= 15
         /\ m.w = w /\ m.h = h /\ Refresh(m) = hz /\ Near(m.clock, hz, m.ht, m.vt)
  <1>0. Fits0(w, h, hz)
    BY DEF Fit
  <1>1. w \in 320..4096 /\ h \in 200..4096 /\ w % 2 = 0 /\ h % 2 = 0 /\ hz \in 23..120
    BY <1>0 DEF Fits0
  <1>2. PICK clock \in ClocksKHz : \E t \in Best(clock, w, h, hz) : m = ModeOf(clock, w, h, t)
    BY <1>0 DEF Fit
  <1>3. PICK t \in Best(clock, w, h, hz) : m = ModeOf(clock, w, h, t)
    BY <1>2
  <1>4. PICK last : t \in Totals(clock, w, h, hz, last)
    BY DEF Best
  <1>g. GoodTotals(clock, w, h, hz, t)
    BY <1>0, <1>4, TotalsAre
  <1>5. /\ t[1] \in Nat /\ t[1] >= w + 80 /\ t[1] <= 65535 /\ t[1] % 8 = 0
        /\ t[2] \in Nat /\ t[2] >= h + 15 /\ t[2] <= 65535
        /\ Near(clock, hz, t[1], t[2])
    BY <1>g DEF GoodTotals
  <1> DEFINE front == At0(8, 48, Even((t[1] - w - 32) \div 3))
  <1>6. front \in Nat /\ 8 <= front /\ w + front + 32 <= t[1]
    <2> DEFINE third == (t[1] - w - 32) \div 3
    <2>1. third \in Nat /\ third >= 16 /\ third <= t[1] - w - 32
      BY <1>1, <1>5
    <2>2. Even(third) \in Nat /\ 15 <= Even(third) /\ Even(third) <= third
      BY <2>1, EvenBelow
    <2> HIDE DEF third
    <2>3. front = At0(8, 48, Even(third))
      BY DEF third
    <2> QED BY <1>1, <1>5, <2>1, <2>2, <2>3 DEF At0
  <1>7. /\ m.clock = clock /\ m.w = w /\ m.hs = w + front /\ m.he = w + front + 32 /\ m.ht = t[1]
        /\ m.h = h /\ m.vs = h + 3 /\ m.ve = h + 9 /\ m.vt = t[2]
    BY <1>3 DEF ModeOf
  <1> HIDE DEF front
  <1>8. Refresh(m) = hz
    <2>1. clock * 1000 \in Nat
      BY DEF ClocksKHz
    <2>2. t[1] * t[2] \in Nat /\ t[1] * t[2] >= 100
      BY <1>1, <1>5
    <2>3. Gap(clock * 1000, hz * (t[1] * t[2])) <= (hz * (t[1] * t[2])) \div 2000
      BY <1>5 DEF Near, OffBy
    <2>4. Refresh(m) = RateOf(clock * 1000, t[1] * t[2])
      BY <1>7 DEF Refresh, RateOf
    <2>5. NearRate(clock * 1000, t[1] * t[2], hz)
      BY <1>1, <2>1, <2>2, <2>3 DEF NearRate
    <2> QED BY <2>4, <2>5, RefreshIsAsked
  <1>9. InOrder(m.w, m.hs, m.he, m.ht) /\ InOrder(m.h, m.vs, m.ve, m.vt)
    BY <1>1, <1>5, <1>6, <1>7 DEF InOrder
  <1>10. Check(m)
    BY <1>1, <1>7, <1>8, <1>9 DEF Check
  <1> QED BY <1>1, <1>5, <1>7, <1>8, <1>10

LEMMA FormatsKeep == FormatsNext => FormatsAreTaken'
  <1>1. ASSUME NEW w \in Nat, NEW h \in Nat, NEW hz \in Nat, handleResolve(w, h, hz)
        PROVE  FormatsAreTaken'
    <2>1. /\ formatAnswer'.kind = "fit" /\ formatAnswer'.gives = Fit(w, h, hz)
          /\ formatAnswer'.asked[1] = w /\ formatAnswer'.asked[2] = h /\ formatAnswer'.asked[3] = hz
      BY <1>1 DEF handleResolve
    <2> QED BY <2>1, FitAccepted DEF FormatsAreTaken, FittedIsAccepted, PlaneIsInside
  <1>2. ASSUME NEW m, handleTiming(m)
        PROVE  FormatsAreTaken'
    BY <1>2 DEF handleTiming, FormatsAreTaken, FittedIsAccepted, PlaneIsInside
  <1>3. ASSUME NEW area \in Areas, NEW pic \in Pictures, NEW scr \in Screens,
               handlePreview(area, pic, scr)
        PROVE  FormatsAreTaken'
    <2>1. /\ formatAnswer'.kind = "area" /\ formatAnswer'.gives = Preview(area, pic, scr)
          /\ formatAnswer'.asked[1] = area /\ formatAnswer'.asked[2] = pic /\ formatAnswer'.asked[3] = scr
      BY <1>3 DEF handlePreview
    <2>2. PlaneIsInside'
      BY <2>1, PreviewInside DEF PlaneIsInside, Fits
    <2> QED BY <2>1, <2>2 DEF FormatsAreTaken, FittedIsAccepted
  <1>4. CASE AskAgain
    BY <1>4 DEF AskAgain, NothingAsked, FormatsAreTaken, FittedIsAccepted, PlaneIsInside
  <1> QED BY <1>1, <1>2, <1>3, <1>4, FormatsAssumption DEF FormatsNext

(* Every timing that is worked out is one the shim takes, for any size and
   rate, and every plane is inside its picture and its screen, for any area
   and any unit it is drawn in (Fit in output/timings.go, Preview in
   output/aoi.go).                                                          *)
THEOREM FormatsHold == BoxSpec => []FormatsAreTaken
  <1>0. BoxInit => FormatsInit
    BY DEF BoxInit
  <1>1. BoxInit => FormatsAreTaken
    BY <1>0 DEF FormatsInit, NothingAsked, FormatsAreTaken, FittedIsAccepted, PlaneIsInside
  <1>2. FormatsAreTaken /\ [BoxNext]_boxVars => FormatsAreTaken'
    <2>1. [BoxNext]_boxVars => FormatsNext \/ UNCHANGED formatAnswer
      BY DEF BoxNext, Keeps, boxVars
    <2>2. FormatsAreTaken /\ UNCHANGED formatAnswer => FormatsAreTaken'
      BY DEF FormatsAreTaken, FittedIsAccepted, PlaneIsInside
    <2> QED BY <2>1, <2>2, FormatsKeep
  <1> QED BY <1>1, <1>2, PTL DEF BoxSpec

-----------------------------------------------------------------------------
(* The camera's settings.                                                   *)

(* One browser tab posts, as when one person sets up the camera.            *)
OnePoster == \A p, q \in Posters : p = q

Stands == {"idle", "valid", "saved", "failed"}

(* The streamer runs as the settings say.                                   *)
RunsAsSaved ==
    /\ streamer.why = "sends" => settings.enabled /\ streamer = Started(settings, camera)
    /\ settings.enabled => unitOn

(* What is enabled was validated, what a request is about to apply is valid
   and is what is saved, and once every request is answered as applied the
   streamer runs as the settings say.                                       *)
Accepted == CamConfigs \cup {FirstRun}

SettingsTypeOK ==
    /\ settings \in Accepted
    /\ post \in [Posters -> [at : Stands, settings : Accepted]]
EnabledIsValid == settings.enabled => ValidSettings(settings)
PostsAreValid ==
    \A p \in Posters : post[p].at \in {"valid", "saved"} => ValidSettings(post[p].settings)
SavedIsPosted == \A p \in Posters : post[p].at = "saved" => settings = post[p].settings
QuietRunsAsSaved == Applied => RunsAsSaved

SettingsInv ==
    SettingsTypeOK /\ EnabledIsValid /\ PostsAreValid /\ SavedIsPosted /\ QuietRunsAsSaved

LEMMA SettingsStart == CamInit => SettingsInv
  <1> SUFFICES ASSUME CamInit PROVE SettingsInv
    OBVIOUS
  <1>1. /\ settings.enabled = FALSE /\ streamer.why = "disabled"
        /\ \A p \in Posters : post[p].at = "idle"
        /\ post = [p \in Posters |-> NoPost] /\ settings = FirstRun
    BY DEF CamInit, FirstRun, NoPost, Why
  <1>2. SettingsTypeOK
    <2>1. NoPost \in [at : Stands, settings : Accepted]
      BY DEF NoPost, Stands, Accepted
    <2> QED BY <1>1, <2>1 DEF SettingsTypeOK, Accepted
  <1>3. EnabledIsValid /\ PostsAreValid /\ SavedIsPosted
    BY <1>1 DEF EnabledIsValid, PostsAreValid, SavedIsPosted
  <1>4. QuietRunsAsSaved
    BY <1>1 DEF QuietRunsAsSaved, RunsAsSaved
  <1> QED BY <1>2, <1>3, <1>4 DEF SettingsInv

(* What sends was started on settings that are enabled and valid.           *)
LEMMA SendsWhenEnabled ==
  ASSUME NEW c, NEW cam, Started(c, cam).why = "sends"
  PROVE  /\ c.enabled /\ ValidSettings(c)
         /\ ByPipeline(c, cam) => Started(c, cam) = Pipeline(c, cam)
  <1>1. "disabled" # "sends" /\ "fatal" # "sends"
    OBVIOUS
  <1>2. c.enabled
    <2> SUFFICES ASSUME ~c.enabled PROVE FALSE
      OBVIOUS
    <2>1. Started(c, cam) = Why("disabled")
      BY DEF Started
    <2> QED BY <2>1, <1>1 DEF Why
  <1>3. ValidSettings(c)
    <2> SUFFICES ASSUME ~ValidSettings(c) PROVE FALSE
      OBVIOUS
    <2>1. Started(c, cam) = Why("fatal")
      BY <1>2 DEF Started
    <2> QED BY <2>1, <1>1 DEF Why
  <1>4. ByPipeline(c, cam) => Started(c, cam) = Pipeline(c, cam)
    BY <1>2, <1>3 DEF Started
  <1> QED BY <1>2, <1>3, <1>4

(* What a valid set of outputs comes to.                                    *)
LEMMA SendsEverything ==
  ASSUME NEW c, NEW cam, ValidSettings(c), ~Alone(c), c.size \in Int \X Int, c.enabled
  PROVE  /\ Started(c, cam).why = "sends" => SendsAll(c, Started(c, cam))
         /\ PipelineFormat(c, cam) \in cam => Started(c, cam).why = "sends"
  <1>1. /\ c.out # {} /\ c.out \subseteq {"ndi", "srt", "hdmi"}
        /\ c.out \cap {"srt", "hdmi"} # {} => EncoderFits(c.size)
        /\ "hdmi" \in c.out /\ c.mode = "decoder" => "ndi" \in c.out /\ c.ndi = "h264"
    BY DEF ValidSettings
  <1>2. c.out \cap {"srt", "hdmi"} # {}
    BY <1>1 DEF Alone
  <1>3. ByPipeline(c, cam)
    BY <1>2 DEF ByPipeline
  <1>4. Started(c, cam) = Pipeline(c, cam)
    BY <1>3 DEF Started
  <1> DEFINE raw     == (IF WantRaw(c) /\ ~Hx(c) THEN c.out \cap {"ndi"} ELSE {})
                            \cup IF DirectHdmi(c) THEN {"hdmi"} ELSE {}
             encoded == (c.out \cap {"srt"}) \cup IF Hx(c) THEN {"ndi"} ELSE {}
             pointed == "hdmi" \in c.out /\ HdmiMode(c) = "decoder"
             height  == c.size[2] - CropBottom(c)
  <1>5. "srt" \in c.out => "srt" \in encoded
    OBVIOUS
  <1>6. "hdmi" \in c.out => "hdmi" \in raw \/ (pointed /\ "ndi" \in encoded)
    <2>1. CASE HdmiMode(c) # "decoder"
      BY <2>1 DEF DirectHdmi
    <2>2. CASE "hdmi" \in c.out /\ HdmiMode(c) = "decoder"
      <3>1. c.mode = "decoder"
        BY <2>2 DEF HdmiMode
      <3>2. Hx(c)
        BY <2>2, <3>1, <1>1 DEF Hx, NdiFormat
      <3> QED BY <2>2, <3>2
    <2> QED BY <2>1, <2>2
  <1>7. "ndi" \in c.out => "ndi" \in IF Hx(c) THEN encoded ELSE raw
    BY DEF WantRaw
  <1>8. encoded # {} => height % 16 = 0
    <2> SUFFICES ASSUME encoded # {} PROVE height % 16 = 0
      OBVIOUS
    <2>1. WantEncode(c)
      BY DEF WantEncode
    <2>2. CropBottom(c) = c.size[2] % 16
      BY <2>1 DEF CropBottom
    <2>3. c.size[2] \in Int
      OBVIOUS
    <2>4. \A n \in Int : (n - (n % 16)) % 16 = 0
      OBVIOUS
    <2>5. height = c.size[2] - (c.size[2] % 16)
      BY <2>2
    <2> HIDE DEF height
    <2> QED BY <2>3, <2>4, <2>5
  <1>9. SendsAll(c, Sends(raw, encoded, pointed, height))
    <2> HIDE DEF raw, encoded, pointed, height
    <2> QED BY <1>5, <1>6, <1>7, <1>8 DEF SendsAll, Sends
  <1>10. ASSUME cam # {}, PipelineFormat(c, cam) \in cam
         PROVE  Started(c, cam) = Sends(raw, encoded, pointed, height)
    BY <1>1, <1>2, <1>4, <1>10 DEF Pipeline
  <1>11. Started(c, cam).why = "sends" => cam # {} /\ PipelineFormat(c, cam) \in cam
    <2>1. CASE cam = {}
      <3>1. Started(c, cam) = Why("no camera")
        BY <1>4, <2>1 DEF Pipeline
      <3>2. Why("no camera").why = "no camera"
        BY DEF Why
      <3> QED BY <3>1, <3>2
    <2>2. CASE cam # {} /\ PipelineFormat(c, cam) \notin cam
      <3>1. Started(c, cam) = Why("fatal")
        BY <1>4, <2>2 DEF Pipeline
      <3>2. Why("fatal").why = "fatal"
        BY DEF Why
      <3> QED BY <3>1, <3>2
    <2> QED BY <2>1, <2>2
  <1>12. Sends(raw, encoded, pointed, height).why = "sends"
    BY DEF Sends
  <1> HIDE DEF raw, encoded, pointed, height
  <1> QED BY <1>9, <1>10, <1>11, <1>12

LEMMA SettingsAreSent == SettingsInv => SavedIsSent
  <1> SUFFICES ASSUME SettingsInv, Applied PROVE FollowsConf /\ AcceptedIsSent
    BY DEF SavedIsSent, FollowsConf, AcceptedIsSent
  <1>1. RunsAsSaved
    BY DEF SettingsInv, QuietRunsAsSaved, Applied
  <1>2. FollowsConf
    BY <1>1 DEF FollowsConf, RunsAsSaved
  <1>3. AcceptedIsSent
    <2> SUFFICES ASSUME settings.enabled, ~Alone(settings)
                 PROVE  /\ streamer.why = "sends" => SendsAll(settings, streamer)
                        /\ PipelineFormat(settings, camera) \in camera
                             => Started(settings, camera).why = "sends"
      BY DEF AcceptedIsSent
    <2>1. ValidSettings(settings) /\ settings.size \in Int \X Int
      <3>1. FirstRun.enabled = FALSE
        BY DEF FirstRun
      <3>2. settings \in CamConfigs
        BY <3>1 DEF SettingsInv, SettingsTypeOK, Accepted
      <3> QED BY <3>2, CamAssumption DEF SettingsInv, EnabledIsValid
    <2>2. /\ Started(settings, camera).why = "sends" => SendsAll(settings, Started(settings, camera))
          /\ PipelineFormat(settings, camera) \in camera => Started(settings, camera).why = "sends"
      BY <2>1, SendsEverything
    <2>3. streamer.why = "sends" => streamer = Started(settings, camera)
      BY <1>1 DEF RunsAsSaved
    <2> QED BY <2>2, <2>3
  <1> QED BY <1>2, <1>3

(* A step of the only request.                                              *)
LEMMA PostSteps ==
  ASSUME OnePoster, SettingsInv, NEW p \in Posters,
         (\E c \in CamConfigs : PostSettings(p, c)) \/ Save(p) \/ ApplySettings(p)
  PROVE  SettingsInv'
  <1>0. /\ settings \in Accepted /\ post \in [Posters -> [at : Stands, settings : Accepted]]
        /\ EnabledIsValid /\ PostsAreValid /\ SavedIsPosted /\ QuietRunsAsSaved
        /\ \A q \in Posters : q = p
    BY DEF SettingsInv, OnePoster, SettingsTypeOK
  <1>p. post[p].at \in Stands /\ post[p].settings \in Accepted
    BY <1>0
  <1>a. ASSUME NEW at \in Stands, PostTo(p, at)
        PROVE  /\ post'[p].at = at /\ post'[p].settings = post[p].settings
               /\ post' \in [Posters -> [at : Stands, settings : Accepted]]
    BY <1>0, <1>a DEF PostTo
  <1>1. ASSUME NEW c \in CamConfigs, PostSettings(p, c) PROVE SettingsInv'
    <2>1. /\ ValidSettings(c) /\ post'[p].at = "valid" /\ post'[p].settings = c
          /\ post' \in [Posters -> [at : Stands, settings : Accepted]]
          /\ settings' = settings
      BY <1>0, <1>1 DEF PostSettings, Stands, Accepted
    <2> QED BY <1>0, <2>1 DEF SettingsInv, SettingsTypeOK, EnabledIsValid, PostsAreValid,
                              SavedIsPosted, QuietRunsAsSaved, Applied
  <1>2. ASSUME Save(p) PROVE SettingsInv'
    <2>1. /\ post[p].at = "valid" /\ ValidSettings(post[p].settings)
          /\ post'[p].at \in {"saved", "failed"} /\ post'[p].settings = post[p].settings
          /\ post' \in [Posters -> [at : Stands, settings : Accepted]]
          /\ settings' = post[p].settings \/ (settings' = settings /\ post'[p].at = "failed")
      BY <1>0, <1>2, <1>a DEF Save, PostsAreValid, Stands
    <2> QED BY <1>0, <1>p, <2>1 DEF SettingsInv, SettingsTypeOK, EnabledIsValid, PostsAreValid,
                              SavedIsPosted, QuietRunsAsSaved, Applied
  <1>3. ASSUME ApplySettings(p) PROVE SettingsInv'
    <2>1. /\ post[p].at = "saved" /\ settings = post[p].settings
          /\ post'[p].at \in {"idle", "failed"} /\ post'[p].settings = post[p].settings
          /\ post' \in [Posters -> [at : Stands, settings : Accepted]]
          /\ UNCHANGED <<settings, camera>>
      BY <1>0, <1>3, <1>a DEF ApplySettings, SavedIsPosted, Stands
    <2>2. post'[p].at = "idle" => RunsAsSaved'
      <3> SUFFICES ASSUME post'[p].at = "idle" PROVE RunsAsSaved'
        OBVIOUS
      <3>1. CASE settings.enabled
        <4>1. Verb(post[p].settings) = "restart"
          BY <2>1, <3>1 DEF Verb
        <4>2. unitOn' = TRUE /\ streamer' = Started(settings, camera)
          BY <1>3, <1>a, <4>1 DEF ApplySettings, Stands
        <4> QED BY <2>1, <3>1, <4>2 DEF RunsAsSaved, Started
      <3>2. CASE ~settings.enabled
        <4>1. Verb(post[p].settings) = "stop"
          BY <2>1, <3>2 DEF Verb
        <4>2. streamer' = Why("stopped")
          BY <1>3, <1>a, <4>1 DEF ApplySettings, Stands
        <4> QED BY <2>1, <3>2, <4>2 DEF RunsAsSaved, Why
      <3> QED BY <3>1, <3>2
    <2> QED BY <1>0, <2>1, <2>2 DEF SettingsInv, SettingsTypeOK, EnabledIsValid, PostsAreValid,
                              SavedIsPosted, QuietRunsAsSaved, Applied
  <1> QED BY <1>1, <1>2, <1>3

(* A step of the unit or of the camera.                                     *)
LEMMA UnitSteps ==
  ASSUME SettingsInv, UnitRestarts \/ (\E cam \in Cameras \cup {{}} : Exchange(cam))
  PROVE  SettingsInv'
  <1>1. UNCHANGED <<settings, unitOn, post>>
    BY DEF UnitRestarts, Exchange
  <1>2. SettingsTypeOK' /\ EnabledIsValid' /\ PostsAreValid' /\ SavedIsPosted'
    BY <1>1 DEF SettingsInv, SettingsTypeOK, EnabledIsValid, PostsAreValid, SavedIsPosted
  <1>3. ASSUME RunsAsSaved PROVE RunsAsSaved'
    <2>1. CASE UnitRestarts
      <3>1. streamer' = Started(settings, camera) /\ UNCHANGED <<settings, camera, unitOn>>
        BY <2>1 DEF UnitRestarts
      <3>2. Started(settings, camera).why = "sends" => settings.enabled
        BY SendsWhenEnabled
      <3> QED BY <1>3, <3>1, <3>2 DEF RunsAsSaved
    <2>2. ASSUME NEW cam, Exchange(cam) PROVE RunsAsSaved'
      <3>1. streamer'.why # "sends" /\ UNCHANGED <<settings, unitOn>>
        BY <2>2 DEF Exchange, Why
      <3> QED BY <1>3, <3>1 DEF RunsAsSaved
    <2> QED BY <2>1, <2>2
  <1>4. QuietRunsAsSaved'
    BY <1>1, <1>3 DEF SettingsInv, QuietRunsAsSaved, Applied
  <1> QED BY <1>2, <1>4 DEF SettingsInv

(* With one request at a time, what is saved is what is sent: the streamer
   never runs on settings that were replaced and does not come back after it
   was switched off, and every output of settings that were accepted goes out,
   for every camera, every size and every order of requests, failures,
   restarts and exchanges (converter/serve.go, config.go, run_pipeline.go).  *)
THEOREM SettingsHold == ASSUME OnePoster PROVE BoxSpec => []SavedIsSent
  <1>1. BoxInit => SettingsInv
    BY SettingsStart DEF BoxInit
  <1>2. SettingsInv /\ [BoxNext]_boxVars => SettingsInv'
    <2> SUFFICES ASSUME SettingsInv, [BoxNext]_boxVars PROVE SettingsInv'
      OBVIOUS
    <2>1. CamNext \/ UNCHANGED camVars
      BY DEF BoxNext, Keeps, boxVars
    <2>2. CASE CamNext
      BY <2>2, PostSteps, UnitSteps DEF CamNext
    <2>3. CASE UNCHANGED camVars
      BY <2>3 DEF camVars, SettingsInv, SettingsTypeOK, EnabledIsValid, PostsAreValid,
                  SavedIsPosted, QuietRunsAsSaved, Applied, RunsAsSaved
    <2> QED BY <2>1, <2>2, <2>3
  <1> QED BY <1>1, <1>2, SettingsAreSent, PTL DEF BoxSpec

-----------------------------------------------------------------------------
(* The pages everybody patches.                                             *)

(* bdplay patches when nobody else does, and neither moves nor is taken out:
   it would put back a copy of the page that it took before others patched;
   the power does not cut off who writes the template in place.             *)
OneAfterTheOther == ~Overlaps /\ "play" \notin Moves \cup Removes /\ "cam" \notin CutIn

Actors  == {"installer", "bdplay"}
ReadAt(p)  == IF p \in {"cam", "play"} THEN 1 ELSE 2
AssetAt(p) == IF p = "cam" THEN 3 ELSE 1

(* Where the six do what: it is read before it is copied or written, and the
   page is written last.                                                    *)
LEMMA WhoDoesWhat ==
  ASSUME NEW p \in Packages
  PROVE  /\ Len(Patch(p).order) = 4 /\ DOMAIN Patch(p).order = 1..4
         /\ \A i \in 1..4 :
              /\ Patch(p).order[i] = "asset" => p # "play" /\ i = AssetAt(p)
              /\ Patch(p).order[i] = "read" => i = ReadAt(p)
              /\ Patch(p).order[i] = "restore" => p = "play" /\ i = 2
              /\ Patch(p).order[i] = "backup" =>
                   i \in {2, 3} /\ i > ReadAt(p) /\ (p = "cam" => i = 2)
              /\ Patch(p).order[i] = "page" <=> i = 4
         /\ Patch(p).renames \/ p = "cam"
         /\ Patch(p).swaps => p \in {"omt", "output", "play"}
  <1>1. p \in {"cam", "gateway", "omt", "output", "tailscale", "play"}
    BY PagesAssumption
  <1>2. CASE p = "cam"
    <2>1. Patch(p) = CamPatch
      BY <1>2 DEF Patch
    <2> QED BY <1>2, <2>1 DEF CamPatch, AssetAt, ReadAt
  <1>3. CASE p = "gateway"
    <2>1. Patch(p) = GatewayPatch
      BY <1>3 DEF Patch
    <2> QED BY <1>3, <2>1 DEF GatewayPatch, AssetAt, ReadAt
  <1>4. CASE p = "omt"
    <2>1. Patch(p) = OmtPatch
      BY <1>4 DEF Patch
    <2> QED BY <1>4, <2>1 DEF OmtPatch, AssetAt, ReadAt
  <1>5. CASE p = "output"
    <2>1. Patch(p) = OutputPatch
      BY <1>5 DEF Patch
    <2> QED BY <1>5, <2>1 DEF OutputPatch, AssetAt, ReadAt
  <1>6. CASE p = "tailscale"
    <2>1. Patch(p) = TailscalePatch
      BY <1>6 DEF Patch
    <2> QED BY <1>6, <2>1 DEF TailscalePatch, AssetAt, ReadAt
  <1>7. CASE p = "play"
    <2>1. Patch(p) = PlayPatch
      BY <1>7 DEF Patch
    <2> QED BY <1>7, <2>1 DEF PlayPatch, AssetAt, ReadAt
  <1> QED BY <1>1, <1>2, <1>3, <1>4, <1>5, <1>6, <1>7

(* Who patches has seen the page as it still is, and the script is there
   before the page asks for it; who takes out has taken the page out first. *)
JobIsRight(j) ==
  /\ j = [of |-> j.of, doing |-> j.doing, step |-> j.step, saw |-> j.saw]
  /\ j.of \in Packages
  /\ \/ j.doing = "patch" /\ j.step \in 1..4
     \/ j.doing = "unpatch" /\ j.step \in 1..2 /\ j.of # "play"
  /\ j.doing = "patch" /\ j.step > ReadAt(j.of) => j.saw = PageOf(j.of)
  /\ j.doing = "patch" /\ j.of # "play" /\ j.step > AssetAt(j.of) => asset[j.of] = version[j.of]
  /\ j.doing = "unpatch" /\ j.step = 2 => block[j.of] = 0

(* The script of a page that asks for one is there, and for whom the power
   does not cut off it is the very one, when nobody is at it.               *)
ScriptIsThere(p) ==
  p # "play" /\ block[p] # 0 =>
    /\ asset[p] # 0
    /\ Patch(p).swaps /\ p \notin CutIn /\ work[Actor(p)].of # p => block[p] = asset[p]

PagesTypeOK ==
  /\ block \in [Packages -> 0..2] /\ asset \in [Packages -> 0..2] /\ version \in [Packages -> 1..2]
  /\ torn = {}
  /\ "play" \in Packages => version["play"] = 1 /\ block["play"] \in 0..1
WorkTypeOK ==
  /\ work = [a \in Actors |-> work[a]]
  /\ \A a \in Actors : work[a] = NoJob \/ (JobIsRight(work[a]) /\ Actor(work[a].of) = a)
  /\ \A a, b \in Actors : a # b => work[a] = NoJob \/ work[b] = NoJob

PagesInv == PagesTypeOK /\ WorkTypeOK /\ \A p \in Packages : ScriptIsThere(p)

LEMMA PagesStart == PagesInit => PagesInv
  <1> SUFFICES ASSUME PagesInit PROVE PagesInv
    OBVIOUS
  <1>1. /\ \A p \in Packages : block[p] = 0
        /\ work = [a \in Actors |-> NoJob]
    BY DEF PagesInit, Actors
  <1>2. PagesTypeOK
    BY DEF PagesInit, PagesTypeOK
  <1>3. WorkTypeOK
    BY <1>1 DEF WorkTypeOK
  <1> QED BY <1>1, <1>2, <1>3 DEF PagesInv, ScriptIsThere

(* A step of the one who is at work touches only their own.                 *)
LEMMA JobMoves ==
  ASSUME PagesInv, NEW p \in Packages, work[Actor(p)].of = p, NEW j,
         work' = [work EXCEPT ![Actor(p)] = j],
         j = NoJob \/ (JobIsRight(j)' /\ j.of = p),
         version' = version, PagesTypeOK', ScriptIsThere(p)',
         \A q \in Packages \ {p} : block'[q] = block[q] /\ asset'[q] = asset[q]
  PROVE  PagesInv'
  <1> DEFINE a == Actor(p)
  <1>1. a \in Actors /\ Actors = {"installer", "bdplay"} /\ "" \notin Packages /\ NoJob.of = ""
    BY PagesAssumption DEF Actor, Actors, NoJob
  <1>2. /\ work'[a] = j /\ \A b \in Actors \ {a} : work'[b] = work[b] /\ work[b] = NoJob
        /\ work' = [b \in Actors |-> work'[b]]
    <2>1. work[a] # NoJob
      BY <1>1
    <2>2. work = [b \in Actors |-> work[b]]
      BY DEF PagesInv, WorkTypeOK
    <2> HIDE DEF a
    <2>3. \A b \in Actors \ {a} : work[b] = NoJob
      BY <1>1, <2>1 DEF PagesInv, WorkTypeOK
    <2>4. work' = [work EXCEPT ![a] = j]
      BY DEF a
    <2> QED BY <1>1, <2>2, <2>3, <2>4
  <1>3. WorkTypeOK'
    <2>1. ASSUME NEW b \in Actors
          PROVE  (work[b] = NoJob \/ (JobIsRight(work[b]) /\ Actor(work[b].of) = b))'
      <3>1. CASE b = a
        <4>1. work'[b] = j
          BY <1>2, <3>1
        <4> QED BY <3>1, <4>1 DEF JobIsRight, PageOf
      <3> QED BY <1>2, <3>1
    <2>2. \A b, c \in Actors : b # c => work'[b] = NoJob \/ work'[c] = NoJob
      BY <1>2
    <2> QED BY <1>2, <2>1, <2>2 DEF WorkTypeOK
  <1>4. ASSUME NEW q \in Packages, q # p PROVE ScriptIsThere(q)'
    <2>1. ScriptIsThere(q) /\ block'[q] = block[q] /\ asset'[q] = asset[q]
      BY <1>4 DEF PagesInv
    <2>2. work[Actor(q)].of # q
      <3>1. Actor(q) \in Actors
        BY DEF Actor, Actors
      <3>2. CASE Actor(q) = a
        BY <1>4, <3>2
      <3>3. CASE Actor(q) # a
        <4>1. work[Actor(q)] = NoJob
          BY <1>2, <3>1, <3>3
        <4> QED BY <1>1, <4>1
      <3> QED BY <3>2, <3>3
    <2> QED BY <2>1, <2>2 DEF ScriptIsThere
  <1> QED BY <1>3, <1>4 DEF PagesInv

(* Who is at work for p.                                                    *)
LEMMA AtWork ==
  ASSUME PagesInv, NEW p \in Packages, work[Actor(p)].of = p
  PROVE  /\ JobIsRight(work[Actor(p)]) /\ Actor(p) \in Actors
         /\ PagesTypeOK /\ ScriptIsThere(p)
  <1>1. Actor(p) \in Actors /\ "" \notin Packages /\ NoJob.of = ""
    BY PagesAssumption DEF Actor, Actors, NoJob
  <1> QED BY <1>1 DEF PagesInv, WorkTypeOK

Onward(p, saw) ==
  [of |-> p, doing |-> "patch", step |-> work[Actor(p)].step + 1, saw |-> saw]

LEMMA NextStep ==
  ASSUME PagesInv, NEW p \in Packages, work[Actor(p)].of = p, work[Actor(p)].doing = "patch", NEW saw,
         work' = [work EXCEPT ![Actor(p)].step = @ + 1, ![Actor(p)].saw = saw]
  PROVE  work' = [work EXCEPT ![Actor(p)] = Onward(p, saw)]
  <1> DEFINE a == Actor(p)
             r == work[a]
  <1>1. r = [of |-> p, doing |-> "patch", step |-> r.step, saw |-> r.saw] /\ a \in Actors
    BY AtWork DEF JobIsRight
  <1>2. work = [b \in Actors |-> work[b]]
    BY DEF PagesInv, WorkTypeOK
  <1> HIDE DEF a
  <1>4. [[r EXCEPT !.step = r.step + 1] EXCEPT !.saw = saw] = Onward(p, saw)
    <2>1. Onward(p, saw) = [of |-> p, doing |-> "patch", step |-> r.step + 1, saw |-> saw]
      BY DEF Onward, a
    <2> HIDE DEF r
    <2>2. [r EXCEPT !.step = r.step + 1]
            = [of |-> p, doing |-> "patch", step |-> r.step + 1, saw |-> r.saw]
      BY <1>1
    <2>3. [[of |-> p, doing |-> "patch", step |-> r.step + 1, saw |-> r.saw] EXCEPT !.saw = saw]
            = [of |-> p, doing |-> "patch", step |-> r.step + 1, saw |-> saw]
      OBVIOUS
    <2> QED BY <2>1, <2>2, <2>3
  <1>5. [work EXCEPT ![a].step = @ + 1, ![a].saw = saw]
          = [work EXCEPT ![a] = [[r EXCEPT !.step = r.step + 1] EXCEPT !.saw = saw]]
    BY <1>1, <1>2
  <1> QED BY <1>4, <1>5 DEF a

LEMMA Advances ==
  ASSUME PagesInv, NEW p \in Packages, work[Actor(p)].of = p, work[Actor(p)].doing = "patch", Advance(p)
  PROVE  \/ work[Actor(p)].step = 4 /\ work' = [work EXCEPT ![Actor(p)] = NoJob]
         \/ work[Actor(p)].step < 4 /\ work' = [work EXCEPT ![Actor(p)] = Onward(p, Saw(p))]
  <1> DEFINE a == Actor(p)
             r == work[a]
  <1>1. r = [of |-> p, doing |-> "patch", step |-> r.step, saw |-> r.saw] /\ a \in Actors /\ r.step \in 1..4
    BY AtWork DEF JobIsRight
  <1>2. Len(Patch(p).order) = 4
    BY WhoDoesWhat
  <1>3. CASE r.step = 4
    BY <1>2, <1>3 DEF Advance, Finished
  <1>4. CASE r.step # 4
    <2>1. work' = [work EXCEPT ![a].step = @ + 1]
      BY <1>2, <1>4 DEF Advance
    <2>2. [r EXCEPT !.step = r.step + 1] = Onward(p, Saw(p))
      BY <1>1 DEF Onward, Saw
    <2>3. [work EXCEPT ![a].step = @ + 1] = [work EXCEPT ![a] = [r EXCEPT !.step = r.step + 1]]
      OBVIOUS
    <2>4. r.step < 4
      BY <1>1, <1>4
    <2> QED BY <2>1, <2>2, <2>3, <2>4
  <1> QED BY <1>3, <1>4

(* What a step of a patch is.                                               *)
LEMMA IsAtStep ==
  ASSUME PagesInv, NEW p \in Packages, NEW what, AtStep(p, what)
  PROVE  /\ work[Actor(p)].of = p /\ work[Actor(p)].doing = "patch" /\ work[Actor(p)].step \in 1..4
         /\ Patch(p).order[work[Actor(p)].step] = what
         /\ work[Actor(p)].step > ReadAt(p) => Saw(p) = PageOf(p)
         /\ p # "play" /\ work[Actor(p)].step > AssetAt(p) => asset[p] = version[p]
  <1>1. /\ work[Actor(p)].of = p /\ work[Actor(p)].doing = "patch" /\ work[Actor(p)].step \in DOMAIN Patch(p).order
        /\ Patch(p).order[work[Actor(p)].step] = what
    BY DEF AtStep
  <1>2. work[Actor(p)].step \in 1..4
    BY <1>1, WhoDoesWhat
  <1>3. JobIsRight(work[Actor(p)])
    BY <1>1, AtWork
  <1> QED BY <1>1, <1>2, <1>3 DEF JobIsRight, Saw

(* A step that leaves the pages: it is enough that the script is there in
   time.                                                                    *)
LEMMA StepKeeps ==
  ASSUME OneAfterTheOther, PagesInv, NEW p \in Packages,
         WriteAsset(p) \/ Read(p) \/ RestoreForMove(p) \/ WriteBackup(p)
  PROVE  PagesInv' /\ UNCHANGED <<block, torn>>
  <1> DEFINE a == Actor(p)
             r == work[a]
  <1>0. /\ PagesTypeOK /\ version[p] \in 1..2 /\ asset[p] \in 0..2 /\ block[p] \in 0..2
        /\ p = "play" => version[p] = 1 /\ block[p] \in 0..1
        /\ DOMAIN PageOf(p) = {q \in Packages : Patch(q).on = Patch(p).on}
        /\ PageOf(p)[p] = block[p]
    BY DEF PagesInv, PagesTypeOK, PageOf
  <1>o. \A i \in 1..4 : /\ Patch(p).order[i] = "asset" => p # "play" /\ i = AssetAt(p)
                        /\ Patch(p).order[i] = "read" => i = ReadAt(p)
                        /\ Patch(p).order[i] = "restore" => p = "play" /\ i = 2
                        /\ Patch(p).order[i] = "backup" =>
                             i \in {2, 3} /\ i > ReadAt(p) /\ (p = "cam" => i = 2)
    BY WhoDoesWhat
  <1>p. ReadAt(p) \in 1..3 /\ AssetAt(p) \in 1..3 /\ (p = "play" => ReadAt(p) = 1)
    BY DEF ReadAt, AssetAt
  <1>1. CASE WriteAsset(p)
    <2>1. /\ r.of = p /\ r.doing = "patch" /\ r.step \in 1..4 /\ Patch(p).order[r.step] = "asset"
          /\ r.step > ReadAt(p) => Saw(p) = PageOf(p)
      BY <1>1, IsAtStep DEF WriteAsset
    <2>2. p # "play" /\ r.step = AssetAt(p)
      BY <1>o, <2>1
    <2>3. asset' = [asset EXCEPT ![p] = version[p]] /\ Advance(p) /\ UNCHANGED <<block, torn, version>>
      BY <1>1 DEF WriteAsset
    <2>4. PICK j : j = Onward(p, Saw(p))
      OBVIOUS
    <2>5. work' = [work EXCEPT ![Actor(p)] = j]
      BY <1>p, <2>1, <2>2, <2>3, <2>4, Advances
    <2>6. asset'[p] = version[p] /\ (\A q \in Packages \ {p} : asset'[q] = asset[q]) /\ PagesTypeOK'
      BY <1>0, <2>2, <2>3 DEF PagesTypeOK
    <2>7. JobIsRight(j)' /\ j.of = p
      <3>1. r.step + 1 > ReadAt(p) => r.step > ReadAt(p)
        BY <2>2 DEF ReadAt, AssetAt
      <3>2. PageOf(p)' = PageOf(p)
        BY <2>3 DEF PageOf
      <3>3. j.of = p /\ j.doing = "patch" /\ j.step = r.step + 1 /\ j.saw = Saw(p) /\ r.step + 1 \in 1..4
        BY <1>p, <2>2, <2>4 DEF Onward
      <3>4. j = [of |-> j.of, doing |-> j.doing, step |-> j.step, saw |-> j.saw]
        BY <2>4 DEF Onward
      <3> QED BY <2>1, <2>3, <2>6, <3>1, <3>2, <3>3, <3>4 DEF JobIsRight
    <2>8. ScriptIsThere(p)'
      <3>1. work'[Actor(p)] = j
        BY <2>5, AtWork, <2>1 DEF PagesInv, WorkTypeOK
      <3> QED BY <1>0, <2>3, <2>6, <2>7, <3>1 DEF ScriptIsThere
    <2> QED BY <2>1, <2>3, <2>5, <2>6, <2>7, <2>8, JobMoves
  <1>2. ASSUME NEW saw, work' = [work EXCEPT ![a] = Onward(p, saw)], r.of = p, r.doing = "patch",
               r.step \in 1..3, saw = PageOf(p) \/ r.step < ReadAt(p),
               p # "play" /\ r.step + 1 > AssetAt(p) => asset[p] = version[p],
               UNCHANGED <<block, torn, asset, version>>
        PROVE  PagesInv'
    <2>4. PICK j : j = Onward(p, saw)
      OBVIOUS
    <2>6. PagesTypeOK'
      BY <1>0, <1>2 DEF PagesTypeOK
    <2>7. JobIsRight(j)' /\ j.of = p
      BY <1>p, <1>2, <2>4 DEF JobIsRight, Onward, PageOf
    <2>8. ScriptIsThere(p)'
      <3>1. work'[Actor(p)] = j
        BY <1>2, <2>4, AtWork DEF PagesInv, WorkTypeOK
      <3>2. ScriptIsThere(p)
        BY <1>2, AtWork
      <3> QED BY <1>2, <2>7, <3>1, <3>2 DEF ScriptIsThere
    <2> QED BY <1>2, <2>4, <2>6, <2>7, <2>8, JobMoves
  <1>3. CASE Read(p)
    <2>1. /\ r.of = p /\ r.doing = "patch" /\ r.step \in 1..4 /\ Patch(p).order[r.step] = "read"
          /\ p # "play" /\ r.step > AssetAt(p) => asset[p] = version[p]
      BY <1>3, IsAtStep DEF Read
    <2>2. r.step = ReadAt(p)
      BY <1>o, <2>1
    <2>3. /\ work' = [work EXCEPT ![Actor(p)].step = @ + 1, ![Actor(p)].saw = PageOf(p)]
          /\ UNCHANGED <<block, torn, asset, version>>
      BY <1>3 DEF Read
    <2>4. work' = [work EXCEPT ![a] = Onward(p, PageOf(p))]
      BY <2>1, <2>3, NextStep
    <2>5. p # "play" /\ r.step + 1 > AssetAt(p) => asset[p] = version[p]
      BY <2>1, <2>2, <1>p DEF ReadAt, AssetAt
    <2> QED BY <1>2, <1>p, <2>1, <2>2, <2>3, <2>4, <2>5
  <1>4. CASE RestoreForMove(p)
    <2>1. /\ r.of = p /\ r.doing = "patch" /\ r.step \in 1..4 /\ Patch(p).order[r.step] = "restore"
          /\ r.step > ReadAt(p) => Saw(p) = PageOf(p)
      BY <1>4, IsAtStep DEF RestoreForMove
    <2>2. p = "play" /\ r.step = 2 /\ Saw(p) = PageOf(p)
      BY <1>o, <1>p, <2>1
    <2>3. Saw(p)[p] \in {0, version[p]} /\ version[p] # 0
      BY <1>0, <2>2
    <2>4. UNCHANGED <<block, torn, asset, version>>
      BY <1>4, <2>3 DEF RestoreForMove
    <2>5. CASE Saw(p)[p] = version[p]
      <3>1. work' = [work EXCEPT ![Actor(p)] = NoJob]
        BY <1>4, <2>3, <2>5 DEF RestoreForMove, Finished
      <3>2. PagesTypeOK' /\ ScriptIsThere(p)'
        BY <1>0, <2>2, <2>4 DEF PagesTypeOK, ScriptIsThere
      <3> QED BY <2>1, <2>4, <3>1, <3>2, JobMoves
    <2>6. CASE Saw(p)[p] = 0
      <3>1. work' = [work EXCEPT ![Actor(p)].step = @ + 1, ![Actor(p)].saw[p] = 0]
        BY <1>4, <2>3, <2>6 DEF RestoreForMove
      <3>2. [Saw(p) EXCEPT ![p] = 0] = PageOf(p)
        BY <1>0, <2>2, <2>6 DEF PageOf
      <3>3. work' = [work EXCEPT ![a] = Onward(p, PageOf(p))]
        <4> DEFINE job == [of |-> p, doing |-> "patch", step |-> r.step, saw |-> r.saw]
        <4>1. r = job /\ r.saw = Saw(p) /\ a \in Actors
          BY <2>1, AtWork DEF JobIsRight, Saw
        <4>2. [[r EXCEPT !.step = r.step + 1] EXCEPT !.saw = [r.saw EXCEPT ![p] = 0]] = Onward(p, PageOf(p))
          <5>1. Onward(p, PageOf(p)) = [of |-> p, doing |-> "patch", step |-> r.step + 1, saw |-> PageOf(p)]
            BY DEF Onward
          <5>2. [r.saw EXCEPT ![p] = 0] = PageOf(p)
            BY <3>2, <4>1
          <5> HIDE DEF r
          <5>3. [r EXCEPT !.step = r.step + 1]
                  = [of |-> p, doing |-> "patch", step |-> r.step + 1, saw |-> r.saw]
            BY <4>1
          <5>4. [[of |-> p, doing |-> "patch", step |-> r.step + 1, saw |-> r.saw] EXCEPT !.saw = PageOf(p)]
                  = [of |-> p, doing |-> "patch", step |-> r.step + 1, saw |-> PageOf(p)]
            OBVIOUS
          <5> QED BY <5>1, <5>2, <5>3, <5>4
        <4> QED BY <3>1, <4>1, <4>2
      <3>4. p # "play" /\ r.step + 1 > AssetAt(p) => asset[p] = version[p]
        BY <2>2
      <3>5. r.step \in 1..3
        BY <2>2
      <3> QED BY <1>2, <2>1, <2>4, <3>3, <3>4, <3>5
    <2> QED BY <2>3, <2>4, <2>5, <2>6
  <1>5. CASE WriteBackup(p)
    <2>1. /\ r.of = p /\ r.doing = "patch" /\ r.step \in 1..4 /\ Patch(p).order[r.step] = "backup"
          /\ r.step > ReadAt(p) => Saw(p) = PageOf(p)
          /\ p # "play" /\ r.step > AssetAt(p) => asset[p] = version[p]
      BY <1>5, IsAtStep DEF WriteBackup
    <2>2. r.step \in {2, 3} /\ r.step > ReadAt(p) /\ Saw(p) = PageOf(p)
      BY <1>o, <2>1
    <2>3. Advance(p) /\ UNCHANGED <<block, torn, asset, version>>
      BY <1>5 DEF WriteBackup
    <2>4. work' = [work EXCEPT ![a] = Onward(p, PageOf(p))]
      BY <2>1, <2>2, <2>3, Advances
    <2>5. p # "play" /\ r.step + 1 > AssetAt(p) => asset[p] = version[p]
      <3>1. CASE p = "cam"
        <4>1. r.step = 2
          BY <1>o, <2>1, <3>1
        <4> QED BY <3>1, <4>1 DEF AssetAt
      <3>2. CASE p # "cam"
        BY <2>1, <2>2, <3>2 DEF AssetAt
      <3> QED BY <3>1, <3>2
    <2>6. r.step \in 1..3
      BY <2>2
    <2> QED BY <1>2, <2>1, <2>3, <2>4, <2>5, <2>6
  <1> QED BY <1>1, <1>3, <1>4, <1>5 DEF WriteAsset, Read, WriteBackup

(* The page is written with p's block on what p saw, which is what is there. *)
LEMMA PatchKeeps ==
  ASSUME PagesInv, NEW p \in Packages, PatchPage(p)
  PROVE  PagesInv' /\ work[Actor(p)].of = p /\ torn' = torn
         /\ \A q \in Packages \ {p} : block'[q] = block[q]
  <1>1. /\ work[Actor(p)].of = p /\ work[Actor(p)].doing = "patch" /\ work[Actor(p)].step \in 1..4
        /\ Patch(p).order[work[Actor(p)].step] = "page"
        /\ work[Actor(p)].step > ReadAt(p) => Saw(p) = PageOf(p)
        /\ p # "play" /\ work[Actor(p)].step > AssetAt(p) => asset[p] = version[p]
    BY IsAtStep DEF PatchPage
  <1>2. /\ work[Actor(p)].step = 4 /\ Saw(p) = PageOf(p)
        /\ p # "play" => asset[p] = version[p]
    <2>1. work[Actor(p)].step = 4
      BY <1>1, WhoDoesWhat
    <2>2. 4 > ReadAt(p) /\ 4 > AssetAt(p)
      BY DEF ReadAt, AssetAt
    <2> QED BY <1>1, <2>1, <2>2
  <1>3. PagesTypeOK /\ ScriptIsThere(p)
    BY <1>1, AtWork
  <1>4. Advance(p) /\ UNCHANGED <<backup, asset, version>>
    BY DEF PatchPage
  <1>5. work' = [work EXCEPT ![Actor(p)] = NoJob]
    BY <1>1, <1>2, <1>4, Advances
  <1>6. \/ UNCHANGED <<block, torn>> /\ (block[p] # 0 /\ ~Patch(p).swaps)
        \/ WritePage(p, [Saw(p) EXCEPT ![p] = version[p]])
    <2>1. torn = {} /\ Saw(p)[p] = block[p]
      BY <1>2, <1>3 DEF PagesTypeOK, PageOf
    <2> QED BY <2>1 DEF PatchPage
  <1>7. CASE UNCHANGED <<block, torn>> /\ block[p] # 0 /\ ~Patch(p).swaps
    <2>1. PagesTypeOK' /\ ScriptIsThere(p)'
      BY <1>3, <1>4, <1>7 DEF PagesTypeOK, ScriptIsThere
    <2> QED BY <1>1, <1>4, <1>5, <1>7, <2>1, JobMoves
  <1>8. CASE WritePage(p, [Saw(p) EXCEPT ![p] = version[p]])
    <2> DEFINE c == [PageOf(p) EXCEPT ![p] = version[p]]
               same == {q \in Packages : Patch(q).on = Patch(p).on}
    <2>1. /\ block' = [q \in Packages |-> IF q \in DOMAIN c THEN c[q] ELSE block[q]]
          /\ torn' = torn \ {Patch(p).on}
      BY <1>2, <1>8 DEF WritePage
    <2>2. DOMAIN c = same /\ c[p] = version[p] /\ \A q \in same \ {p} : c[q] = block[q]
      BY DEF PageOf
    <2>3. block'[p] = version[p] /\ \A q \in Packages \ {p} : block'[q] = block[q]
      BY <2>1, <2>2
    <2>4. version[p] \in 1..2 /\ (p = "play" => version[p] = 1) /\ torn' = {} /\ torn = {}
          /\ block' = [q \in Packages |-> block'[q]] /\ \A q \in Packages : block[q] \in 0..2
      BY <1>3, <2>1 DEF PagesTypeOK
    <2> HIDE DEF c, same
    <2>5. block' \in [Packages -> 0..2]
      BY <2>3, <2>4
    <2>6. PagesTypeOK'
      BY <1>3, <1>4, <2>3, <2>4, <2>5 DEF PagesTypeOK
    <2>7. ScriptIsThere(p)'
      BY <1>2, <1>4, <2>3, <2>4 DEF ScriptIsThere
    <2> QED BY <1>1, <1>4, <1>5, <2>3, <2>4, <2>6, <2>7, JobMoves
  <1> QED BY <1>6, <1>7, <1>8

(* Taking out: the page first, then the script.                             *)
LEMMA UnpatchKeeps ==
  ASSUME PagesInv, NEW p \in Packages, Unpatch(p) \/ RemoveAsset(p)
  PROVE  PagesInv' /\ work[Actor(p)].of = p /\ torn' = torn
         /\ \A q \in Packages \ {p} : block'[q] = block[q]
  <1> DEFINE r == work[Actor(p)]
  <1>1. r.of = p /\ r.doing = "unpatch" /\ r.step \in 1..2 /\ version' = version
    BY DEF Unpatch, RemoveAsset
  <1>2. /\ JobIsRight(r) /\ PagesTypeOK /\ ScriptIsThere(p) /\ p # "play"
        /\ r = [of |-> p, doing |-> "unpatch", step |-> r.step, saw |-> r.saw]
    BY <1>1, AtWork DEF JobIsRight
  <1>3. CASE Unpatch(p)
    <2>1. /\ block' = [block EXCEPT ![p] = 0] /\ UNCHANGED <<torn, asset, version>>
          /\ work' = [work EXCEPT ![Actor(p)].step = 2]
      BY <1>2, <1>3 DEF Unpatch
    <2>2. PICK j : j = [of |-> p, doing |-> "unpatch", step |-> 2, saw |-> r.saw]
      OBVIOUS
    <2>3. work' = [work EXCEPT ![Actor(p)] = j]
      <3>1. [r EXCEPT !.step = 2] = j
        BY <1>2, <2>2
      <3> QED BY <2>1, <3>1
    <2>4. PagesTypeOK' /\ block'[p] = 0 /\ \A q \in Packages \ {p} : block'[q] = block[q]
      BY <1>2, <2>1 DEF PagesTypeOK
    <2>5. JobIsRight(j)' /\ j.of = p
      BY <1>2, <2>2, <2>4 DEF JobIsRight
    <2>6. ScriptIsThere(p)'
      BY <2>4 DEF ScriptIsThere
    <2> QED BY <1>1, <2>1, <2>3, <2>4, <2>5, <2>6, JobMoves
  <1>4. CASE RemoveAsset(p)
    <2>1. /\ asset' = [asset EXCEPT ![p] = 0] /\ UNCHANGED <<block, torn, version>>
          /\ work' = [work EXCEPT ![Actor(p)] = NoJob] /\ r.step = 2
      BY <1>4 DEF RemoveAsset, Finished
    <2>2. block[p] = 0
      BY <1>1, <1>2, <2>1 DEF JobIsRight
    <2>3. PagesTypeOK' /\ \A q \in Packages \ {p} : asset'[q] = asset[q]
      BY <1>2, <2>1 DEF PagesTypeOK
    <2>4. ScriptIsThere(p)'
      BY <2>1, <2>2 DEF ScriptIsThere
    <2> QED BY <1>1, <2>1, <2>3, <2>4, JobMoves
  <1> QED BY <1>3, <1>4

(* Nobody is at work when somebody begins.                                  *)
LEMMA BeginKeeps ==
  ASSUME OneAfterTheOther, PagesInv, NEW p \in Packages, NEW doing \in {"patch", "unpatch"},
         Begin(p, doing), doing = "unpatch" => p \in Removes
  PROVE  PagesInv' /\ UNCHANGED <<block, torn>>
  <1> DEFINE a == Actor(p)
  <1>1. /\ Actors = {"installer", "bdplay"} /\ a \in Actors /\ "" \notin Packages /\ NoJob.of = ""
        /\ work = [b \in Actors |-> work[b]]
    BY PagesAssumption DEF Actors, Actor, NoJob, PagesInv, WorkTypeOK
  <1>2. \A b \in Actors : work[b] = NoJob
    BY <1>1 DEF Begin, OneAfterTheOther
  <1>3. PICK j : j = [of |-> p, doing |-> doing, step |-> 1, saw |-> <<>>]
    OBVIOUS
  <1>4. /\ work' = [work EXCEPT ![a] = j] /\ UNCHANGED <<block, torn, asset, version>>
    BY <1>3 DEF Begin
  <1> HIDE DEF a
  <1>5. work'[a] = j /\ (\A b \in Actors \ {a} : work'[b] = NoJob) /\ work' = [b \in Actors |-> work'[b]]
    BY <1>1, <1>2, <1>4
  <1>6. JobIsRight(j)'
    <2>1. ReadAt(p) >= 1 /\ AssetAt(p) >= 1 /\ ~(1 > ReadAt(p)) /\ ~(1 > AssetAt(p))
      BY DEF ReadAt, AssetAt
    <2>2. j.of = p /\ j.doing = doing /\ j.step = 1 /\ (doing = "unpatch" => p # "play")
      BY <1>3 DEF OneAfterTheOther
    <2>3. j = [of |-> j.of, doing |-> j.doing, step |-> j.step, saw |-> j.saw]
      BY <1>3
    <2> QED BY <2>1, <2>2, <2>3 DEF JobIsRight
  <1>7. WorkTypeOK'
    <2>1. ASSUME NEW b \in Actors
          PROVE  (work[b] = NoJob \/ (JobIsRight(work[b]) /\ Actor(work[b].of) = b))'
      <3>1. CASE b = a
        <4>1. work'[b] = j /\ j.of = p
          BY <1>3, <1>5, <3>1
        <4> QED BY <1>6, <3>1, <4>1 DEF JobIsRight, PageOf, a
      <3> QED BY <1>5, <3>1
    <2> QED BY <1>5, <2>1 DEF WorkTypeOK
  <1>8. ASSUME NEW q \in Packages PROVE ScriptIsThere(q)'
    <2>1. Actor(q) \in Actors
      BY DEF Actor, Actors
    <2>2. work[Actor(q)].of # q /\ ScriptIsThere(q)
      BY <1>1, <1>2, <2>1 DEF PagesInv
    <2> QED BY <1>4, <2>2 DEF ScriptIsThere
  <1>9. PagesTypeOK'
    BY <1>4 DEF PagesInv, PagesTypeOK
  <1> QED BY <1>4, <1>7, <1>8, <1>9 DEF PagesInv

(* The power goes while one is at work whom it may cut off: nothing is torn. *)
LEMMA PowerOffKeeps ==
  ASSUME OneAfterTheOther, PagesInv, PowerOff PROVE PagesInv' /\ UNCHANGED <<block, torn>>
  <1>1. /\ Actors = {"installer", "bdplay"} /\ "" \notin Packages /\ NoJob.of = ""
        /\ work = [b \in Actors |-> work[b]] /\ DOMAIN work = Actors
    BY PagesAssumption DEF Actors, NoJob, PagesInv, WorkTypeOK
  <1>2. /\ \A a \in Actors : work[a].of \in CutIn \cup {""}
        /\ work' = [a \in Actors |-> NoJob] /\ UNCHANGED <<block, asset, version>>
        /\ torn' \in {torn} \cup {torn \cup {Patch(p).on} :
                         p \in {q \in Packages : AtStep(q, "page") /\ ~Patch(q).renames}}
    BY <1>1 DEF PowerOff
  <1>3. ASSUME NEW q \in Packages, AtStep(q, "page"), ~Patch(q).renames PROVE FALSE
    <2>1. q = "cam"
      BY <1>3, WhoDoesWhat
    <2>2. work[Actor(q)].of = q /\ Actor(q) \in Actors
      BY <1>3 DEF AtStep, Actor, Actors
    <2> QED BY <1>1, <1>2, <2>1, <2>2 DEF OneAfterTheOther
  <1>4. torn' = torn
    BY <1>2, <1>3
  <1>5. WorkTypeOK' /\ PagesTypeOK'
    BY <1>2, <1>4 DEF PagesInv, WorkTypeOK, PagesTypeOK
  <1>6. ASSUME NEW q \in Packages PROVE ScriptIsThere(q)'
    <2>1. Actor(q) \in Actors /\ ScriptIsThere(q)
      BY DEF Actor, Actors, PagesInv
    <2>2. work[Actor(q)].of = q => q \in CutIn
      BY <1>1, <1>2, <2>1
    <2> QED BY <1>2, <2>1, <2>2 DEF ScriptIsThere
  <1> QED BY <1>2, <1>4, <1>5, <1>6 DEF PagesInv

(* An update brings another script; nobody of that actor is at work.        *)
LEMMA UpdateKeeps ==
  ASSUME OneAfterTheOther, PagesInv, NEW p \in Packages, Update(p)
  PROVE  PagesInv' /\ UNCHANGED <<block, torn>>
  <1>1. /\ p # "play" /\ work[Actor(p)] = NoJob /\ version' = [version EXCEPT ![p] = 2]
        /\ UNCHANGED <<block, torn, backup, asset, work>>
    BY DEF Update, OneAfterTheOther
  <1>2. PagesTypeOK' /\ \A q \in Packages \ {p} : version'[q] = version[q]
    BY <1>1 DEF PagesInv, PagesTypeOK
  <1>3. WorkTypeOK'
    <2>1. ASSUME NEW b \in Actors
          PROVE  (work[b] = NoJob \/ (JobIsRight(work[b]) /\ Actor(work[b].of) = b))'
      <3>1. work[b] = NoJob \/ (JobIsRight(work[b]) /\ Actor(work[b].of) = b)
        BY DEF PagesInv, WorkTypeOK
      <3>2. CASE JobIsRight(work[b]) /\ Actor(work[b].of) = b
        <4>1. work[b] # NoJob
          <5>1. work[b].of \in Packages
            BY <3>2 DEF JobIsRight
          <5>2. NoJob.of \notin Packages
            BY PagesAssumption DEF NoJob
          <5> QED BY <5>1, <5>2
        <4>2. work[b].of # p /\ work[b].of \in Packages
          BY <1>1, <3>2, <4>1 DEF JobIsRight
        <4>3. version'[work[b].of] = version[work[b].of]
          BY <1>2, <4>2
        <4> QED BY <1>1, <3>2, <4>3 DEF JobIsRight, PageOf
      <3> QED BY <1>1, <3>1, <3>2
    <2> QED BY <1>1, <2>1 DEF PagesInv, WorkTypeOK
  <1> QED BY <1>1, <1>2, <1>3 DEF PagesInv, ScriptIsThere

LEMMA PagesKeep ==
  ASSUME OneAfterTheOther, PagesInv, [PagesNext]_pageVars
  PROVE  /\ PagesInv' /\ torn' = torn
         /\ \A q \in Packages : block'[q] # block[q] => work[Actor(q)].of = q
  <1>1. CASE UNCHANGED pageVars
    BY <1>1, SMTT(30) DEF pageVars, PagesInv, PagesTypeOK, WorkTypeOK, ScriptIsThere, JobIsRight, PageOf
  <1>2. ASSUME NEW p \in Packages,
               \/ Begin(p, "patch") \/ (p \in Removes /\ Begin(p, "unpatch"))
               \/ WriteAsset(p) \/ Read(p) \/ RestoreForMove(p) \/ WriteBackup(p)
               \/ PowerOff \/ Update(p)
        PROVE  PagesInv' /\ UNCHANGED <<block, torn>>
    BY <1>2, BeginKeeps, StepKeeps, PowerOffKeeps, UpdateKeeps
  <1>3. ASSUME NEW p \in Packages, PatchPage(p) \/ Unpatch(p) \/ RemoveAsset(p)
        PROVE  PagesInv' /\ work[Actor(p)].of = p /\ torn' = torn
               /\ \A q \in Packages \ {p} : block'[q] = block[q]
    BY <1>3, PatchKeeps, UnpatchKeeps
  <1> QED BY <1>1, <1>2, <1>3 DEF PagesNext

(* The six leave one another's blocks alone and no page asks for a script
   that is not there, whatever is installed, updated, taken out and cut off by
   the power in between (the six patch.go).                                 *)
THEOREM PagesHold == ASSUME OneAfterTheOther PROVE BoxSpec => PagesAreWhole
  <1>1. BoxInit => PagesInv
    BY PagesStart DEF BoxInit
  <1>2. [BoxNext]_boxVars => [PagesNext]_pageVars
    BY DEF BoxNext, Keeps, boxVars
  <1>3. PagesInv => AsksForWhatIsThere
    <2> SUFFICES ASSUME PagesInv, NEW p \in Packages \ {"play"}, block[p] # 0
                 PROVE  /\ asset[p] # 0
                        /\ Patch(p).swaps /\ p \notin CutIn /\ work[Actor(p)] = NoJob
                             => block[p] = asset[p]
      BY DEF AsksForWhatIsThere
    <2>1. ScriptIsThere(p) /\ NoJob.of # p
      BY PagesAssumption DEF PagesInv, NoJob
    <2> QED BY <2>1 DEF ScriptIsThere
  <1>4. PagesInv /\ [PagesNext]_pageVars => PagesInv' /\ [BlocksAreKept]_pageVars
    <2> SUFFICES ASSUME PagesInv, [PagesNext]_pageVars PROVE PagesInv' /\ BlocksAreKept
      OBVIOUS
    <2>1. DOMAIN work = Actors /\ \A q \in Packages : Actor(q) \in Actors
      BY DEF PagesInv, WorkTypeOK, Actor, Actors
    <2> QED BY <2>1, PagesKeep DEF BlocksAreKept
  <1>5. PagesInv' /\ [BlocksAreKept]_pageVars => [BlocksAreKept /\ AsksForWhatIsThere']_pageVars
    BY <1>3, PTL
  <1> QED BY <1>1, <1>2, <1>4, <1>5, PTL DEF BoxSpec, PagesAreWhole

-----------------------------------------------------------------------------
(* The KVM agent.                                                           *)

(* There is no receiver while one is looked for.                            *)
KvmInv == TypesWhereItLooked /\ (keeper = "create" => recv = Off)

(* What is typed never goes to a source that the agent did not find on the
   screen when it last looked, whatever devices come and go (agent/main.go). *)
THEOREM TypingHolds == BoxSpec => []TypesWhereItLooked
  <1>1. BoxInit => KvmInv
    BY DEF BoxInit, KvmInit, KvmInv, TypesWhereItLooked
  <1>2. KvmInv /\ [BoxNext]_boxVars => KvmInv'
    <2>1. [BoxNext]_boxVars => [KvmNext]_kvmVars
      BY DEF BoxNext, Keeps, boxVars
    <2>2. KvmInv /\ [KvmNext]_kvmVars => KvmInv'
      BY DEF KvmInv, TypesWhereItLooked, KvmNext, kvmVars, StartAgent, Plug, Unplug, Type, OwnerShows,
             Look, Create, CreateFails, PumpReceiver
    <2> QED BY <2>1, <2>2
  <1>3. KvmInv => TypesWhereItLooked
    BY DEF KvmInv
  <1> QED BY <1>1, <1>2, <1>3, PTL DEF BoxSpec

-----------------------------------------------------------------------------
(* The streamer of the camera and what it takes.                            *)

DeferredCalls == {"display", "pipe", "sink", "srt", "ndi", "point"}

(* What run has deferred: the display's first of all, so it comes back last,
   the decoder's on top, and nothing before there is a run.                 *)
DefersTypeOK == defers \in Seq(DeferredCalls)
DisplayIsLast == \A i \in 1..Len(defers) : defers[i] = "display" => i = Len(defers)
PointIsFirst == \A i \in 1..Len(defers) : defers[i] = "point" => i = 1
NothingBefore == main \in {"off", "take", "mark", "post"} => defers = <<>>
NoPointYet ==
  main \in {"launch", "listen", "sink", "dial", "library", "point"} => "point" \notin Deferred
DefersInv == DefersTypeOK /\ DisplayIsLast /\ PointIsFirst /\ NothingBefore /\ NoPointYet

(* While there is no PPApp, or a sink, somebody is to see to it.            *)
SinkIsDeferred == scanout # "none" => "sink" \in Deferred
DarkIsDeferred ==
  ~ppapp => \/ main = "mark" \/ "display" \in Deferred \/ "display" \in spoilt
            \/ main = "post" /\ marker

(* The decoder shows the camera only while a call is deferred that knows what
   the owner chose, or that is lost.                                        *)
SelectionIsKept ==
  /\ chosen \in {"owner", "other"} /\ shown \in {chosen, "camera"}
  /\ "point" \in Deferred => shown = "camera"
  /\ shown = "camera" => "selection" \in spoilt \/ ("point" \in Deferred /\ previous = chosen)
  /\ "point" \in Deferred => previous \in {chosen, "camera"}

CameraInv == DefersInv /\ SinkIsDeferred /\ DarkIsDeferred

LEMMA NothingDeferred == ASSUME defers = <<>> PROVE Deferred = {}
  <1>1. DOMAIN defers = {}
    OBVIOUS
  <1> QED BY <1>1 DEF Deferred

LEMMA CameraStarts == CameraInit => CameraInv /\ SelectionIsKept
  <1> SUFFICES ASSUME CameraInit PROVE CameraInv /\ SelectionIsKept
    OBVIOUS
  <1>0. defers = <<>>
    BY DEF CameraInit
  <1>1. Deferred = {} /\ Len(defers) = 0 /\ defers \in Seq(DeferredCalls)
    BY <1>0, NothingDeferred
  <1>2. DefersInv
    BY <1>0, <1>1 DEF DefersInv, DefersTypeOK, DisplayIsLast, PointIsFirst, NothingBefore, NoPointYet
  <1>3. SinkIsDeferred /\ DarkIsDeferred /\ SelectionIsKept
    BY <1>1 DEF CameraInit, SinkIsDeferred, DarkIsDeferred, SelectionIsKept
  <1> QED BY <1>2, <1>3 DEF CameraInv

(* One more call, and one less.                                             *)
LEMMA Pushed ==
  ASSUME NEW s \in Seq(DeferredCalls), NEW d \in DeferredCalls
  PROVE  /\ <<d>> \o s \in Seq(DeferredCalls)
         /\ Len(<<d>> \o s) = Len(s) + 1 /\ (<<d>> \o s)[1] = d
         /\ \A i \in 1..Len(s) : (<<d>> \o s)[i + 1] = s[i]
  OBVIOUS

LEMMA DeferPushed ==
  ASSUME DefersTypeOK, DisplayIsLast, NEW d \in DeferredCalls, defers' = <<d>> \o defers,
         d = "display" => defers = <<>>
  PROVE  DefersTypeOK' /\ DisplayIsLast' /\ Deferred' = Deferred \cup {d}
         /\ ("point" \notin Deferred => PointIsFirst')
  <1> DEFINE n == Len(defers)
  <1>1. /\ n \in Nat /\ defers' \in Seq(DeferredCalls) /\ Len(defers') = n + 1 /\ defers'[1] = d
        /\ \A i \in 1..n : defers'[i + 1] = defers[i]
    BY Pushed DEF DefersTypeOK
  <1>2. \A k \in 1..(n + 1) : k = 1 \/ (k - 1 \in 1..n /\ defers'[k] = defers[k - 1])
    <2> SUFFICES ASSUME NEW k \in 1..(n + 1), k # 1 PROVE k - 1 \in 1..n /\ defers'[k] = defers[k - 1]
      OBVIOUS
    <2>1. k - 1 \in 1..n /\ (k - 1) + 1 = k
      BY <1>1
    <2> QED BY <1>1, <2>1
  <1>3. DOMAIN defers = 1..n /\ DOMAIN defers' = 1..(n + 1)
    BY <1>1 DEF DefersTypeOK
  <1>4. Deferred = {defers[i] : i \in 1..n} /\ Deferred' = {defers'[i] : i \in 1..(n + 1)}
    BY <1>3 DEF Deferred
  <1>5. d = "display" => n = 0
    OBVIOUS
  <1> HIDE DEF n
  <1>6. Deferred' = Deferred \cup {d}
    <2>1. ASSUME NEW x \in Deferred' PROVE x \in Deferred \cup {d}
      BY <1>1, <1>2, <1>4
    <2>2. ASSUME NEW x \in Deferred PROVE x \in Deferred'
      <3>1. PICK i \in 1..n : x = defers[i]
        BY <1>4
      <3>2. i + 1 \in 1..(n + 1)
        BY <1>1
      <3> QED BY <1>1, <1>4, <3>1, <3>2
    <2>3. d \in Deferred'
      <3>1. 1 \in 1..(n + 1)
        BY <1>1
      <3> QED BY <1>1, <1>4, <3>1
    <2> QED BY <2>1, <2>2, <2>3
  <1>7. DisplayIsLast'
    <2> SUFFICES ASSUME NEW k \in 1..(n + 1), defers'[k] = "display" PROVE k = n + 1
      BY <1>1 DEF DisplayIsLast
    <2>1. CASE k = 1
      BY <1>1, <1>5, <2>1
    <2>2. CASE k # 1
      <3>1. k - 1 \in 1..n /\ defers[k - 1] = "display"
        BY <1>2, <2>2
      <3>2. k - 1 = n
        BY <3>1 DEF DisplayIsLast, n
      <3> QED BY <1>1, <3>2
    <2> QED BY <2>1, <2>2
  <1>8. ASSUME "point" \notin Deferred PROVE PointIsFirst'
    BY <1>1, <1>2, <1>4, <1>8 DEF PointIsFirst
  <1> QED BY <1>1, <1>6, <1>7, <1>8 DEF DefersTypeOK

LEMMA DeferPopped ==
  ASSUME DefersTypeOK, DisplayIsLast, PointIsFirst, defers # <<>>, defers' = Tail(defers)
  PROVE  /\ DefersTypeOK' /\ DisplayIsLast' /\ PointIsFirst' /\ "point" \notin Deferred'
         /\ Head(defers) \in DeferredCalls /\ Deferred = Deferred' \cup {Head(defers)}
         /\ Head(defers) = "display" => Deferred = {"display"}
         /\ Head(defers) # "point" => "point" \notin Deferred
  <1> DEFINE n == Len(defers)
  <1>1. /\ n \in Nat /\ n > 0 /\ defers' \in Seq(DeferredCalls) /\ Len(defers') = n - 1
        /\ Head(defers) = defers[1] /\ defers[1] \in DeferredCalls
        /\ \A i \in 1..(n - 1) : defers'[i] = defers[i + 1]
    BY DEF DefersTypeOK
  <1>2. DOMAIN defers = 1..n /\ DOMAIN defers' = 1..(n - 1)
    BY <1>1 DEF DefersTypeOK
  <1>3. Deferred = {defers[i] : i \in 1..n} /\ Deferred' = {defers'[i] : i \in 1..(n - 1)}
    BY <1>2 DEF Deferred
  <1>4. /\ \A i \in 1..n : defers[i] = "display" => i = n
        /\ \A i \in 1..n : defers[i] = "point" => i = 1
    BY DEF DisplayIsLast, PointIsFirst
  <1> HIDE DEF n
  <1>5. \A i \in 1..(n - 1) : i + 1 \in 1..n /\ i + 1 # 1 /\ (i + 1 = n => i = n - 1)
    BY <1>1
  <1>6. DisplayIsLast' /\ PointIsFirst' /\ "point" \notin Deferred'
    BY <1>1, <1>3, <1>4, <1>5 DEF DisplayIsLast, PointIsFirst
  <1>7. Deferred = Deferred' \cup {Head(defers)}
    <2>1. ASSUME NEW x \in Deferred PROVE x \in Deferred' \cup {Head(defers)}
      <3>1. PICK i \in 1..n : x = defers[i]
        BY <1>3
      <3>2. CASE i = 1
        BY <1>1, <3>1, <3>2
      <3>3. CASE i # 1
        <4>1. i - 1 \in 1..(n - 1) /\ (i - 1) + 1 = i
          BY <1>1, <3>3
        <4> QED BY <1>1, <1>3, <3>1, <4>1
      <3> QED BY <3>2, <3>3
    <2>2. ASSUME NEW x \in Deferred' PROVE x \in Deferred
      BY <1>1, <1>3, <1>5
    <2>3. 1 \in 1..n
      BY <1>1
    <2>4. Head(defers) \in Deferred
      BY <1>1, <1>3, <2>3
    <2> QED BY <2>1, <2>2, <2>4
  <1>8. ASSUME Head(defers) = "display" PROVE Deferred = {"display"}
    <2>1. n = 1
      BY <1>1, <1>4, <1>8
    <2> QED BY <1>1, <1>3, <1>8, <2>1
  <1>9. Head(defers) # "point" => "point" \notin Deferred
    BY <1>6, <1>7
  <1> QED BY <1>1, <1>6, <1>7, <1>8, <1>9 DEF DefersTypeOK

(* The steps of run with a call more, or none.                              *)
LEMMA DefersStay ==
  ASSUME DefersInv, UNCHANGED defers,
         main' \in {"off", "take", "mark", "post"} => defers = <<>>,
         main' \in {"launch", "listen", "sink", "dial", "library", "point"} => "point" \notin Deferred
  PROVE  DefersInv' /\ Deferred' = Deferred
  BY DEF DefersInv, DefersTypeOK, DisplayIsLast, PointIsFirst, NothingBefore, NoPointYet, Deferred

LEMMA DefersGrow ==
  ASSUME DefersInv, NEW d \in DeferredCalls, NEW at, GoDefer(at, d),
         main \in {"mark", "launch", "listen", "sink", "dial", "library", "point"},
         at \notin {"off", "take", "mark", "post"},
         at \in {"launch", "listen", "sink", "dial", "library", "point"} => d # "point",
         d = "display" => main = "mark"
  PROVE  DefersInv' /\ Deferred' = Deferred \cup {d} /\ "point" \notin Deferred /\ main' = at
  <1>1. /\ main' = at /\ defers' = <<d>> \o defers /\ DefersTypeOK /\ DisplayIsLast
        /\ d = "display" => defers = <<>>
    BY DEF GoDefer, DefersInv, NothingBefore
  <1>2. "point" \notin Deferred
    BY NothingDeferred DEF DefersInv, NothingBefore, NoPointYet
  <1>3. DefersTypeOK' /\ DisplayIsLast' /\ Deferred' = Deferred \cup {d} /\ PointIsFirst'
    BY <1>1, <1>2, DeferPushed
  <1>4. NothingBefore' /\ NoPointYet'
    BY <1>1, <1>2, <1>3 DEF NothingBefore, NoPointYet
  <1> QED BY <1>1, <1>2, <1>3, <1>4 DEF DefersInv

(* The end of a run, by itself or not.                                      *)
LEMMA DefersEnd ==
  ASSUME Dies PROVE DefersInv' /\ Deferred' = {} /\ main' = "post" /\ scanout' = "none"
  <1>1. defers' = <<>> /\ main' = "post" /\ scanout' = "none"
    BY DEF Dies
  <1>2. DOMAIN defers' = {} /\ Len(defers') = 0 /\ defers' \in Seq(DeferredCalls)
    BY <1>1
  <1>3. Deferred' = {}
    BY <1>2 DEF Deferred
  <1> QED BY <1>1, <1>2, <1>3 DEF DefersInv, DefersTypeOK, DisplayIsLast, PointIsFirst, NothingBefore,
                                  NoPointYet

(* Every step of run before it ends.                                        *)
LEMMA RunKeeps ==
  ASSUME CameraInv, StartRun \/ Take \/ Listen \/ Scan \/ Drain
  PROVE  CameraInv' /\ Deferred' = Deferred
  <1>1. /\ DefersInv /\ UNCHANGED <<defers, spoilt, marker, scanout>>
        /\ main' \in {"off", "take", "mark", "post"} => defers = <<>>
        /\ main' \in {"launch", "listen", "sink", "dial", "library", "point"} => "point" \notin Deferred
    <2>1. DefersInv /\ NothingBefore /\ NoPointYet
      BY DEF CameraInv, DefersInv
    <2>2. UNCHANGED <<defers, spoilt, marker, scanout>>
      BY DEF StartRun, Take, Listen, Scan, Drain, Go, takes
    <2>3. \/ main = "off" /\ main' = "take"
          \/ main = "take" /\ main' \in {"launch", "mark"}
          \/ main = "listen" /\ main' \in {"sink", "dial"}
          \/ main' \in {"undo", "reap"}
      BY DEF StartRun, Take, Listen, Scan, Drain, Go
    <2> QED BY <2>1, <2>2, <2>3, NothingDeferred DEF NothingBefore, NoPointYet
  <1>2. DefersInv' /\ Deferred' = Deferred
    BY <1>1, DefersStay
  <1>3. DarkIsDeferred'
    <2>1. ppapp' = ppapp \/ (main' = "mark" /\ ppapp' = FALSE)
      BY DEF StartRun, Take, Listen, Scan, Drain, Go, takes
    <2>2. main \notin {"mark", "post"}
      BY DEF StartRun, Take, Listen, Scan, Drain
    <2> QED BY <1>1, <1>2, <2>1, <2>2 DEF CameraInv, DarkIsDeferred
  <1> QED BY <1>1, <1>2, <1>3 DEF CameraInv, SinkIsDeferred

LEMMA CallKeeps ==
  ASSUME CameraInv, Mark \/ Launch \/ Sink \/ Dial \/ Library \/ Point
  PROVE  CameraInv' /\ Deferred \subseteq Deferred' /\ spoilt \subseteq spoilt'
         /\ "point" \notin Deferred /\ (~Point => "point" \notin Deferred')
  <1>1. DefersInv /\ SinkIsDeferred /\ DarkIsDeferred /\ UNCHANGED ppapp /\ spoilt \subseteq spoilt'
    BY DEF CameraInv, Mark, Launch, Sink, Dial, Library, Point, takes, Spoil
  <1>2. main \in {"mark", "launch", "sink", "dial", "library", "point"}
    BY DEF Mark, Launch, Sink, Dial, Library, Point
  <1>3. "point" \notin Deferred
    BY <1>1, <1>2, NothingDeferred DEF DefersInv, NothingBefore, NoPointYet
  <1>4. ASSUME NEW d \in DeferredCalls, NEW at, GoDefer(at, d),
               at \in {"launch", "listen", "dial", "drain", "library", "point", "scan"},
               d = "point" => Point /\ at = "scan", main = "mark" <=> d = "display",
               scanout' = scanout \/ d = "sink"
        PROVE  CameraInv' /\ Deferred \subseteq Deferred' /\ (~Point => "point" \notin Deferred')
    <2>1. DefersInv' /\ Deferred' = Deferred \cup {d}
      BY <1>1, <1>2, <1>4, DefersGrow
    <2>2. SinkIsDeferred' /\ DarkIsDeferred'
      BY <1>1, <1>2, <1>4, <2>1 DEF SinkIsDeferred, DarkIsDeferred
    <2> QED BY <1>3, <1>4, <2>1, <2>2 DEF CameraInv
  <1>5. ASSUME NEW at, Go(at), UNCHANGED scanout, main # "mark",
               at \in {"undo", "dial", "drain", "library", "scan"}
        PROVE  CameraInv' /\ Deferred \subseteq Deferred' /\ (~Point => "point" \notin Deferred')
    <2>1. main' = at /\ UNCHANGED defers
      BY <1>5 DEF Go
    <2>2. DefersInv' /\ Deferred' = Deferred
      BY <1>1, <1>3, <1>5, <2>1, DefersStay
    <2>3. SinkIsDeferred' /\ DarkIsDeferred'
      BY <1>1, <1>2, <1>5, <2>1, <2>2 DEF SinkIsDeferred, DarkIsDeferred
    <2> QED BY <1>3, <2>2, <2>3 DEF CameraInv
  <1> USE DEF DeferredCalls
  <1>6. CASE Mark
    BY <1>1, <1>3, <1>4, <1>6 DEF Mark
  <1>7. CASE Launch
    <2>1. UNCHANGED scanout /\ main = "launch" /\ (Go("undo") \/ GoDefer("listen", "pipe"))
      BY <1>7 DEF Launch
    <2> QED BY <1>1, <1>3, <1>4, <1>5, <2>1
  <1>8. CASE Sink
    <2>1. PICK at \in {"dial", "drain"} :
            /\ main = "sink"
            /\ \/ Go("undo") /\ UNCHANGED scanout
               \/ GoDefer(at, "sink")
               \/ Go(at) /\ UNCHANGED scanout
      BY <1>8 DEF Sink
    <2> QED BY <1>1, <1>3, <1>4, <1>5, <2>1
  <1>9. CASE Dial
    <2>1. /\ main = "dial" /\ UNCHANGED scanout
          /\ Go("undo") \/ GoDefer("library", "srt") \/ Go("library")
      BY <1>9 DEF Dial
    <2> QED BY <1>1, <1>3, <1>4, <1>5, <2>1
  <1>10. CASE Library
    <2>1. /\ main = "library" /\ UNCHANGED scanout
          /\ Go("undo") \/ GoDefer("point", "ndi") \/ Go("scan")
      BY <1>10 DEF Library
    <2> QED BY <1>1, <1>3, <1>4, <1>5, <2>1
  <1>11. CASE Point
    <2>1. main = "point" /\ UNCHANGED scanout /\ (Go("scan") \/ GoDefer("scan", "point"))
      BY <1>11 DEF Point
    <2> QED BY <1>1, <1>3, <1>4, <1>5, <1>11, <2>1
  <1> QED BY <1>6, <1>7, <1>8, <1>9, <1>10, <1>11

(* A deferred call: the display's only when nothing else is left to undo.   *)
LEMMA UndoKeeps ==
  ASSUME CameraInv, Undo
  PROVE  /\ CameraInv' /\ main' = "undo" /\ "point" \notin Deferred'
         /\ Head(defers) # "point" => "point" \notin Deferred
         /\ ~ppapp /\ ppapp' => scanout = "none"
  <1> DEFINE d == Head(defers)
  <1>1. /\ main = "undo" /\ main' = "undo" /\ defers # <<>> /\ defers' = Tail(defers)
        /\ scanout' = IF d = "sink" THEN "none" ELSE scanout
        /\ d = "display" => RestoreDisplay
        /\ d # "display" => UNCHANGED <<ppapp, marker>> /\ spoilt \subseteq spoilt'
    BY DEF Undo, Undoes, RestoreDecoder, Spoil, takes
  <1>2. DefersTypeOK /\ DisplayIsLast /\ PointIsFirst /\ SinkIsDeferred /\ DarkIsDeferred
    BY DEF CameraInv, DefersInv
  <1>3. /\ DefersTypeOK' /\ DisplayIsLast' /\ PointIsFirst' /\ "point" \notin Deferred'
        /\ Deferred = Deferred' \cup {d}
        /\ d = "display" => Deferred = {"display"}
        /\ d # "point" => "point" \notin Deferred
    BY <1>1, <1>2, DeferPopped
  <1> HIDE DEF d
  <1>4. DefersInv'
    BY <1>1, <1>3 DEF DefersInv, NothingBefore, NoPointYet
  <1>5. SinkIsDeferred'
    BY <1>1, <1>2, <1>3 DEF SinkIsDeferred
  <1>6. CASE d = "display"
    <2>1. ppapp' = TRUE \/ "display" \in spoilt'
      BY <1>1, <1>6 DEF RestoreDisplay, Spoil
    <2>2. DarkIsDeferred' /\ scanout = "none"
      BY <1>2, <1>3, <1>6, <2>1 DEF DarkIsDeferred, SinkIsDeferred
    <2> QED BY <1>1, <1>3, <1>4, <1>5, <2>2 DEF CameraInv, d
  <1>7. CASE d # "display"
    <2>1. DarkIsDeferred' /\ ppapp' = ppapp
      BY <1>1, <1>2, <1>3, <1>7 DEF DarkIsDeferred
    <2> QED BY <1>1, <1>3, <1>4, <1>5, <2>1 DEF CameraInv, d
  <1> QED BY <1>6, <1>7

(* The end of the process, and what the unit does then.                     *)
LEMMA EndKeeps ==
  ASSUME CameraInv,
         \/ Exit
         \/ Dies /\ Alive /\ spoilt' = spoilt \cup LostOnKill /\ UNCHANGED takes
  PROVE  CameraInv' /\ Deferred' = {}
  <1>1. Dies /\ UNCHANGED <<ppapp, marker>> /\ spoilt \subseteq spoilt'
    BY DEF Exit, takes
  <1>2. DefersInv' /\ Deferred' = {} /\ main' = "post" /\ scanout' = "none"
    BY <1>1, DefersEnd
  <1>3. DarkIsDeferred'
    <2>1. CASE Exit
      <3>1. main = "undo" /\ Deferred = {}
        BY <2>1, NothingDeferred DEF Exit
      <3> QED BY <1>1, <3>1 DEF CameraInv, DarkIsDeferred
    <2>2. CASE Alive /\ spoilt' = spoilt \cup LostOnKill
      <3>1. main # "post" /\ DarkIsDeferred
        BY <2>2 DEF Alive, CameraInv
      <3>2. main = "mark" \/ (~marker /\ "display" \in Deferred) => "display" \in spoilt'
        BY <2>2 DEF LostOnKill
      <3> QED BY <1>1, <1>2, <3>1, <3>2 DEF DarkIsDeferred
    <2> QED BY <2>1, <2>2
  <1> QED BY <1>2, <1>3 DEF CameraInv, SinkIsDeferred

LEMMA UnitKeeps ==
  ASSUME CameraInv, StopPost
  PROVE  CameraInv' /\ Deferred' = Deferred /\ Deferred = {} /\ scanout = "none"
  <1>1. /\ main = "post" /\ main' = "off" /\ UNCHANGED <<defers, scanout>>
        /\ \/ marker /\ RestoreDisplay
           \/ ~marker /\ UNCHANGED <<ppapp, marker, spoilt>>
    BY DEF StopPost, Go
  <1>2. defers = <<>> /\ DefersInv
    BY <1>1 DEF CameraInv, DefersInv, NothingBefore
  <1>3. DefersInv' /\ Deferred' = Deferred /\ Deferred = {}
    BY <1>1, <1>2, DefersStay, NothingDeferred
  <1>4. DarkIsDeferred' /\ scanout = "none"
    BY <1>1, <1>3 DEF CameraInv, DarkIsDeferred, SinkIsDeferred, RestoreDisplay, Spoil
  <1> QED BY <1>1, <1>3, <1>4 DEF CameraInv, SinkIsDeferred

(* What happens beside the run.                                             *)
LEMMA WorldKeeps ==
  ASSUME CameraInv,
         \/ PumpFrames \/ (Deliver /\ Caught) \/ Systemctl \/ ChildDies \/ StartPPApp \/ Choose
         \/ UNCHANGED cameraVars
  PROVE  CameraInv' /\ Deferred' = Deferred
  <1>1. UNCHANGED <<main, defers, marker>>
    BY DEF PumpFrames, Deliver, Caught, Systemctl, ChildDies, StartPPApp, Choose, cameraVars, runVars,
           takes
  <1>2. scanout' = scanout \/ scanout # "none"
    BY DEF PumpFrames, Deliver, Caught, Systemctl, ChildDies, StartPPApp, Choose, cameraVars, runVars
  <1>3. ppapp' = TRUE \/ (ppapp' = ppapp /\ ("display" \in spoilt => "display" \in spoilt'))
    BY DEF PumpFrames, Deliver, Caught, Systemctl, ChildDies, StartPPApp, Choose, cameraVars, takes
  <1>4. DefersInv' /\ Deferred' = Deferred
    BY <1>1 DEF CameraInv, DefersInv, DefersTypeOK, DisplayIsLast, PointIsFirst, NothingBefore,
                NoPointYet, Deferred
  <1> QED BY <1>1, <1>2, <1>3, <1>4 DEF CameraInv, SinkIsDeferred, DarkIsDeferred

LEMMA CameraKeeps == CameraInv /\ [CameraNext]_cameraVars => CameraInv'
  <1>1. CameraInv /\ Deliver => CameraInv'
    BY WorldKeeps, EndKeeps DEF Deliver
  <1>2. CameraInv /\ Crash => CameraInv'
    BY EndKeeps DEF Crash
  <1> QED BY <1>1, <1>2, RunKeeps, CallKeeps, UndoKeeps, EndKeeps, UnitKeeps, WorldKeeps DEF CameraNext

(* The decoder's selection.                                                 *)
LEMMA SelectionKeeps ==
  ASSUME ~Chooses, CameraInv, SelectionIsKept, [CameraNext]_cameraVars
  PROVE  SelectionIsKept'
  <1>0. /\ chosen \in {"owner", "other"} /\ shown \in {chosen, "camera"}
        /\ "point" \in Deferred => shown = "camera" /\ previous \in {chosen, "camera"}
        /\ shown = "camera" => "selection" \in spoilt \/ ("point" \in Deferred /\ previous = chosen)
    BY DEF SelectionIsKept
  <1>1. ASSUME UNCHANGED <<shown, previous, chosen>>,
               "point" \in Deferred' <=> "point" \in Deferred,
               "selection" \in spoilt => "selection" \in spoilt'
        PROVE  SelectionIsKept'
    BY <1>0, <1>1 DEF SelectionIsKept
  <1>2. CASE StartRun \/ Take \/ Listen \/ Scan \/ Drain
    <2>1. UNCHANGED <<shown, previous, chosen, spoilt>>
      BY <1>2 DEF StartRun, Take, Listen, Scan, Drain, takes
    <2> QED BY <1>1, <1>2, <2>1, RunKeeps
  <1>3. CASE Mark \/ Launch \/ Sink \/ Dial \/ Library
    <2>1. UNCHANGED <<shown, previous, chosen, spoilt>> /\ (Point => main = "point") /\ main # "point"
      BY <1>3 DEF Mark, Launch, Sink, Dial, Library, Point, takes
    <2>2. "point" \notin Deferred /\ "point" \notin Deferred'
      BY <1>3, <2>1, CallKeeps
    <2> QED BY <1>1, <2>1, <2>2
  <1>4. CASE Point
    <2>1. "point" \notin Deferred /\ main = "point" /\ UNCHANGED chosen /\ DefersInv
      BY <1>4, CallKeeps DEF Point, CameraInv
    <2>2. CASE UNCHANGED <<shown, previous, spoilt>> /\ Go("scan")
      <3>1. Deferred' = Deferred
        BY <2>2 DEF Go, Deferred
      <3> QED BY <1>1, <2>1, <2>2, <3>1
    <2>3. CASE shown' = "camera" /\ previous' = shown /\ GoDefer("scan", "point") /\ UNCHANGED spoilt
      <3>1. Deferred' = Deferred \cup {"point"}
        BY <2>1, <2>3, DefersGrow DEF DeferredCalls
      <3> QED BY <1>0, <2>1, <2>3, <3>1 DEF SelectionIsKept
    <2>4. CASE shown' = "camera" /\ Spoil("selection") /\ Go("scan") /\ UNCHANGED previous
      <3>1. Deferred' = Deferred /\ "selection" \in spoilt'
        BY <2>4 DEF Go, Deferred, Spoil
      <3> QED BY <1>0, <2>1, <2>4, <3>1 DEF SelectionIsKept
    <2> QED BY <1>4, <2>2, <2>3, <2>4 DEF Point
  <1>5. CASE Undo
    <2> DEFINE d == Head(defers)
    <2>1. "point" \notin Deferred' /\ (d # "point" => "point" \notin Deferred) /\ chosen' = chosen
      BY <1>5, UndoKeeps DEF Undo, Undoes
    <2>2. CASE d = "point"
      <3>1. RestoreDecoder /\ UNCHANGED previous
        BY <1>5, <2>2 DEF Undo, Undoes
      <3>2. /\ shown' = shown \/ shown' = previous
            /\ "selection" \in spoilt => "selection" \in spoilt'
            /\ previous \in {"", "camera"} \/ shown' = previous \/ "selection" \in spoilt'
        BY <3>1 DEF RestoreDecoder, Spoil
      <3>3. "point" \in Deferred
        <4>1. Deferred = Deferred' \cup {d}
          BY <1>5, DeferPopped DEF Undo, Undoes, CameraInv, DefersInv
        <4> QED BY <2>2, <4>1
      <3> QED BY <1>0, <2>1, <3>2, <3>3 DEF SelectionIsKept
    <2>3. CASE d # "point"
      <3>1. UNCHANGED <<shown, previous>> /\ ("selection" \in spoilt => "selection" \in spoilt')
        BY <1>5, <2>3 DEF Undo, Undoes, RestoreDisplay, Spoil, takes
      <3> QED BY <1>1, <2>1, <2>3, <3>1
    <2> QED BY <2>2, <2>3
  <1>6. CASE Exit
    <2>1. Deferred = {} /\ Deferred' = {} /\ UNCHANGED <<shown, previous, chosen, spoilt>>
      BY <1>6, EndKeeps, NothingDeferred DEF Exit, takes
    <2> QED BY <1>1, <2>1
  <1>7. ASSUME Dies, Alive, spoilt' = spoilt \cup LostOnKill, UNCHANGED <<takes, chosen>>
        PROVE  SelectionIsKept'
    <2>1. Deferred' = {} /\ UNCHANGED <<shown, previous>>
      BY <1>7, EndKeeps DEF takes
    <2>2. shown = "camera" => "selection" \in spoilt'
      BY <1>7 DEF LostOnKill
    <2> QED BY <1>0, <1>7, <2>1, <2>2 DEF SelectionIsKept
  <1>8. CASE Deliver
    <2>1. CASE Caught
      <3>1. UNCHANGED <<shown, previous, chosen, spoilt>> /\ Deferred' = Deferred
        BY <1>8, <2>1, WorldKeeps DEF Deliver, Caught, takes
      <3> QED BY <1>1, <3>1
    <2> QED BY <1>7, <1>8, <2>1 DEF Deliver
  <1>9. CASE Crash
    BY <1>7, <1>9 DEF Crash
  <1>10. CASE StopPost
    <2>1. UNCHANGED <<shown, previous, chosen>> /\ ("selection" \in spoilt => "selection" \in spoilt')
      BY <1>10 DEF StopPost, RestoreDisplay, Spoil
    <2> QED BY <1>1, <1>10, <2>1, UnitKeeps
  <1>11. CASE PumpFrames \/ Systemctl \/ ChildDies \/ StartPPApp \/ UNCHANGED cameraVars
    <2>1. UNCHANGED <<shown, previous, chosen>> /\ ("selection" \in spoilt => "selection" \in spoilt')
      BY <1>11 DEF PumpFrames, Systemctl, ChildDies, StartPPApp, cameraVars, takes
    <2> QED BY <1>1, <1>11, <2>1, WorldKeeps
  <1>12. CASE Choose
    <2>1. shown # "camera" /\ chosen' \in {"owner", "other"} /\ shown' = chosen' /\ Deferred' = Deferred
      BY <1>12, WorldKeeps DEF Choose
    <2> QED BY <1>0, <2>1 DEF SelectionIsKept
  <1> QED BY <1>2, <1>3, <1>4, <1>5, <1>6, <1>8, <1>9, <1>10, <1>11, <1>12 DEF CameraNext

(* The display is PPApp's again once the streamer is gone, unless a start
   failed or it was killed before it had left a note of it, and it never is
   while the camera is still on it, whatever fails and whenever the streamer is
   stopped or killed (converter/run_pipeline.go, display.go).               *)
THEOREM DisplayGoesBack == BoxSpec => []DisplayHandedBack /\ NotWhileScannedOut
  <1>1. BoxInit => CameraInv
    BY CameraStarts DEF BoxInit
  <1>2. [BoxNext]_boxVars => [CameraNext]_cameraVars
    BY DEF BoxNext, Keeps, boxVars
  <1>3. CameraInv => DisplayHandedBack
    <2> SUFFICES ASSUME CameraInv, main = "off" PROVE ppapp \/ "display" \in spoilt
      BY DEF DisplayHandedBack
    <2> QED BY NothingDeferred DEF CameraInv, DefersInv, NothingBefore, DarkIsDeferred
  <1>4. CameraInv /\ [CameraNext]_cameraVars => [~ppapp /\ ppapp' => scanout = "none"]_cameraVars
    <2> SUFFICES ASSUME CameraInv, CameraNext, ~ppapp, ppapp' PROVE scanout = "none"
      OBVIOUS
    <2>1. CASE Undo \/ StopPost
      BY <2>1, UndoKeeps, UnitKeeps
    <2>2. CASE StartPPApp
      <3>1. Deferred = {}
        BY <2>2, NothingDeferred DEF StartPPApp, CameraInv, DefersInv, NothingBefore
      <3> QED BY <3>1 DEF CameraInv, SinkIsDeferred
    <2>3. Undo \/ StopPost \/ StartPPApp
      BY DEF CameraNext, StartRun, Take, Mark, Launch, Listen, Sink, Dial, Library, Point, Scan, Drain,
             Exit, PumpFrames, Deliver, Crash, Systemctl, ChildDies, Choose, takes
    <2> QED BY <2>1, <2>2, <2>3
  <1> QED BY <1>1, <1>2, <1>3, <1>4, CameraKeeps, PTL DEF BoxSpec, NotWhileScannedOut

(* The decoder is pointed at what its owner last chose again once the
   streamer is gone, unless it was killed or the box refused, if nobody chooses
   another source while the camera is shown (converter/decoder.go).         *)
THEOREM SelectionGoesBack == ASSUME ~Chooses PROVE BoxSpec => []SelectionComesBack
  <1>1. BoxInit => CameraInv /\ SelectionIsKept
    BY CameraStarts DEF BoxInit
  <1>2. [BoxNext]_boxVars => [CameraNext]_cameraVars
    BY DEF BoxNext, Keeps, boxVars
  <1>3. CameraInv /\ SelectionIsKept => SelectionComesBack
    BY NothingDeferred DEF CameraInv, DefersInv, NothingBefore, SelectionIsKept, SelectionComesBack
  <1> QED BY <1>1, <1>2, <1>3, CameraKeeps, SelectionKeeps, PTL DEF BoxSpec

-----------------------------------------------------------------------------
(* The gateway's paths.                                                     *)

(* A single page: what a second one holds masked may be gone meanwhile.     *)
OneTab == \A t, u \in Tabs : t = u

Wheres        == {"publish", "", "rtmp", "rtsp", "nowhere"}
TrueUrls      == [to : Wheres, key : StreamKeys \cup {""}]
ShownUrls     == [to : Wheres, key : StreamKeys \cup {"", "hidden"}]
TrueForwards  == [id : Ids \cup {""}, url : TrueUrls]
ShownForwards == [id : Ids \cup {""}, url : ShownUrls]
TruePaths     == [name : PathNames, source : TrueUrls, forward : Seq(TrueForwards)]
TrueConfs     == [paths : Seq(TruePaths), display : PathNames \cup {""}, camera : PathNames \cup {""}]

(* What a page shows masked is there to be put back: under the same name,
   and the same number.                                                     *)
KnownForwards(c, n) ==
  {f \in ShownForwards : f.url.key = "hidden" =>
     \E g \in ForwardsOf(Named(c, n)) : g.id = f.id /\ f.url = Masked(g.url)}
KnownPaths(c) ==
  {p \in [name : PathNames, source : ShownUrls, forward : Seq(ShownForwards)] :
     /\ p.source.key = "hidden" => \E o \in Named(c, p.name) : p.source = Masked(o.source)
     /\ p.forward \in Seq(KnownForwards(c, p.name))}
KnownConfs(c) ==
  [paths : Seq(KnownPaths(c)), display : PathNames \cup {""}, camera : PathNames \cup {""}]

PathsInv ==
  /\ gatewayConf \in TrueConfs /\ ValidPaths(gatewayConf)
  /\ page \in [Tabs -> KnownConfs(gatewayConf)]

-----------------------------------------------------------------------------
(* Sequences of things of a kind.                                           *)
LEMMA ElementsOf ==
  ASSUME NEW S, NEW s \in Seq(S)
  PROVE  ToSet(s) \subseteq S /\ DOMAIN s = 1..Len(s) /\ \A i \in DOMAIN s : s[i] \in S
  BY DEF ToSet

LEMMA SeqMade ==
  ASSUME NEW S, NEW n \in Nat, NEW w, w = [i \in 1..n |-> w[i]], \A i \in 1..n : w[i] \in S
  PROVE  w \in Seq(S)
  OBVIOUS

LEMMA Shortening ==
  ASSUME NEW S, NEW s \in Seq(S), NEW i \in DOMAIN s
  PROVE  RemoveAt(s, i) \in Seq(S)
  <1>1. i \in Int /\ Len(s) \in Int /\ i >= 1 /\ i <= Len(s)
    BY ElementsOf
  <1>2. SubSeq(s, 1, i - 1) \in Seq(S)
    <2>1. \A k \in 1..(i - 1) : s[k] \in S
      BY <1>1
    <2> QED BY <1>1, <2>1, SubSeqProperties
  <1>3. SubSeq(s, i + 1, Len(s)) \in Seq(S)
    <2>1. \A k \in (i + 1)..Len(s) : s[k] \in S
      BY <1>1
    <2> QED BY <1>1, <2>1, SubSeqProperties
  <1> QED BY <1>2, <1>3, ConcatProperties DEF RemoveAt

(* What an EXCEPT makes of a record is a record with another field.         *)
LEMMA ForwardChanged ==
  ASSUME NEW f, f = [id |-> f.id, url |-> f.url], NEW v
  PROVE  /\ [f EXCEPT !.url = v] = [id |-> f.id, url |-> v]
         /\ [f EXCEPT !.id = v] = [id |-> v, url |-> f.url]
  <1>1. PICK i, u : i = f.id /\ u = f.url
    OBVIOUS
  <1>2. f = [id |-> i, url |-> u]
    BY <1>1
  <1>3. [[id |-> i, url |-> u] EXCEPT !.url = v] = [id |-> i, url |-> v]
    OBVIOUS
  <1>4. [[id |-> i, url |-> u] EXCEPT !.id = v] = [id |-> v, url |-> u]
    OBVIOUS
  <1> QED BY <1>1, <1>2, <1>3, <1>4

LEMMA PathChanged ==
  ASSUME NEW p, p = [name |-> p.name, source |-> p.source, forward |-> p.forward], NEW v, NEW w
  PROVE  /\ [p EXCEPT !.source = v, !.forward = w] = [name |-> p.name, source |-> v, forward |-> w]
         /\ [p EXCEPT !.name = v] = [name |-> v, source |-> p.source, forward |-> p.forward]
         /\ [p EXCEPT !.source = v] = [name |-> p.name, source |-> v, forward |-> p.forward]
         /\ [p EXCEPT !.forward = w] = [name |-> p.name, source |-> p.source, forward |-> w]
  <1>1. PICK n, s, f : n = p.name /\ s = p.source /\ f = p.forward
    OBVIOUS
  <1>2. p = [name |-> n, source |-> s, forward |-> f]
    BY <1>1
  <1>3. [p EXCEPT !.source = v, !.forward = w] = [name |-> n, source |-> v, forward |-> w]
    <2>1. [p EXCEPT !.source = v, !.forward = w] = [[p EXCEPT !.source = v] EXCEPT !.forward = w]
      OBVIOUS
    <2>2. [p EXCEPT !.source = v] = [name |-> n, source |-> v, forward |-> f]
      BY <1>2
    <2>3. [[name |-> n, source |-> v, forward |-> f] EXCEPT !.forward = w]
            = [name |-> n, source |-> v, forward |-> w]
      OBVIOUS
    <2> QED BY <2>1, <2>2, <2>3
  <1>4. [[name |-> n, source |-> s, forward |-> f] EXCEPT !.name = v]
          = [name |-> v, source |-> s, forward |-> f]
    OBVIOUS
  <1>5. [[name |-> n, source |-> s, forward |-> f] EXCEPT !.source = v]
          = [name |-> n, source |-> v, forward |-> f]
    OBVIOUS
  <1>6. [[name |-> n, source |-> s, forward |-> f] EXCEPT !.forward = w]
          = [name |-> n, source |-> s, forward |-> w]
    OBVIOUS
  <1> QED BY <1>1, <1>2, <1>3, <1>4, <1>5, <1>6

LEMMA ConfChanged ==
  ASSUME NEW c, c = [paths |-> c.paths, display |-> c.display, camera |-> c.camera], NEW v
  PROVE  /\ [c EXCEPT !.paths = v] = [paths |-> v, display |-> c.display, camera |-> c.camera]
         /\ [c EXCEPT !.display = v] = [paths |-> c.paths, display |-> v, camera |-> c.camera]
  <1>1. PICK p, d, m : p = c.paths /\ d = c.display /\ m = c.camera
    OBVIOUS
  <1>2. c = [paths |-> p, display |-> d, camera |-> m]
    BY <1>1
  <1>3. [[paths |-> p, display |-> d, camera |-> m] EXCEPT !.paths = v]
          = [paths |-> v, display |-> d, camera |-> m]
    OBVIOUS
  <1>4. [[paths |-> p, display |-> d, camera |-> m] EXCEPT !.display = v]
          = [paths |-> p, display |-> v, camera |-> m]
    OBVIOUS
  <1> QED BY <1>1, <1>2, <1>3, <1>4

LEMMA ForwardParts ==
  ASSUME NEW f \in ShownForwards
  PROVE  f.id \in Ids \cup {""} /\ f.url \in ShownUrls /\ f = [id |-> f.id, url |-> f.url]
  <1>1. f \in [id : Ids \cup {""}, url : ShownUrls]
    BY DEF ShownForwards
  <1> QED BY <1>1

LEMMA ForwardsMade ==
  /\ \A i \in Ids \cup {""}, u \in ShownUrls : [id |-> i, url |-> u] \in ShownForwards
  /\ \A i \in Ids \cup {""}, u \in TrueUrls : [id |-> i, url |-> u] \in TrueForwards
  BY DEF ShownForwards, TrueForwards

LEMMA ConfsMade ==
  ASSUME NEW S, NEW p \in S, NEW d \in PathNames \cup {""}, NEW m \in PathNames \cup {""}
  PROVE  [paths |-> p, display |-> d, camera |-> m]
           \in [paths : S, display : PathNames \cup {""}, camera : PathNames \cup {""}]
  OBVIOUS

LEMMA Masks ==
  ASSUME NEW u \in TrueUrls
  PROVE  /\ Masked(u) \in ShownUrls
         /\ u.key # "hidden"
         /\ u \in ShownUrls
  BY PathsAssumption DEF Masked, TrueUrls, ShownUrls

LEMMA Unmasked ==
  ASSUME NEW u \in ShownUrls, u.key # "hidden" PROVE u \in TrueUrls
  BY DEF TrueUrls, ShownUrls

(* The stored paths and forwards of a name: they have their types, and one
   number is one forward.                                                   *)
LEMMA StoredOnes ==
  ASSUME NEW c \in TrueConfs, NEW n
  PROVE  /\ Named(c, n) \subseteq TruePaths
         /\ ForwardsOf(Named(c, n)) \subseteq TrueForwards
  <1>1. c.paths \in Seq(TruePaths)
    BY DEF TrueConfs
  <1>2. Named(c, n) \subseteq TruePaths
    BY <1>1, ElementsOf DEF Named
  <1>3. ASSUME NEW p \in TruePaths PROVE ToSet(p.forward) \subseteq TrueForwards
    <2>1. p.forward \in Seq(TrueForwards)
      BY DEF TruePaths
    <2> QED BY <2>1, ElementsOf
  <1> QED BY <1>2, <1>3 DEF ForwardsOf

LEMMA OneOfANumber ==
  ASSUME NEW c, ValidPaths(c), NEW n,
         NEW f \in ForwardsOf(Named(c, n)), NEW g \in ForwardsOf(Named(c, n)), f.id = g.id
  PROVE  f = g
  <1>1. PICK p \in Named(c, n) : f \in ToSet(p.forward)
    BY DEF ForwardsOf
  <1>2. PICK q \in Named(c, n) : g \in ToSet(q.forward)
    BY DEF ForwardsOf
  <1>3. PICK i \in DOMAIN c.paths : p = c.paths[i]
    BY DEF Named, ToSet
  <1>4. PICK k \in DOMAIN c.paths : q = c.paths[k]
    BY DEF Named, ToSet
  <1>5. p.name = n /\ q.name = n
    BY DEF Named
  <1>6. p = q
    BY <1>3, <1>4, <1>5 DEF ValidPaths
  <1>7. PICK i1 \in DOMAIN p.forward : f = p.forward[i1]
    BY <1>1 DEF ToSet
  <1>8. PICK i2 \in DOMAIN p.forward : g = p.forward[i2]
    BY <1>2, <1>6 DEF ToSet
  <1>9. p \in ToSet(c.paths)
    BY DEF Named
  <1>10. \A a, b \in DOMAIN p.forward : p.forward[a].id = p.forward[b].id => a = b
    BY <1>9 DEF ValidPaths
  <1> QED BY <1>7, <1>8, <1>10

-----------------------------------------------------------------------------
(* A page as it is loaded shows what is stored.                             *)
LEMMA PublicIsKnown ==
  ASSUME NEW c \in TrueConfs PROVE Public(c) \in KnownConfs(c)
  <1>1. /\ c.paths \in Seq(TruePaths) /\ c.display \in PathNames \cup {""}
        /\ c.camera \in PathNames \cup {""}
    BY DEF TrueConfs
  <1>2. ASSUME NEW p \in ToSet(c.paths) PROVE MaskedPath(p) \in KnownPaths(c)
    <2>1. p \in TruePaths
      BY <1>1, ElementsOf
    <2>0. p.forward \in Seq(TrueForwards) /\ p.source \in TrueUrls /\ p.name \in PathNames
      BY <2>1 DEF TruePaths
    <2>2. p \in Named(c, p.name)
      BY DEF Named
    <2> DEFINE masked == [j \in DOMAIN p.forward |-> MaskedForward(p.forward[j])]
    <2>3. MaskedPath(p) = [name |-> p.name, source |-> Masked(p.source), forward |-> masked]
      <3>1. p = [name |-> p.name, source |-> p.source, forward |-> p.forward]
        BY <2>1 DEF TruePaths
      <3> QED BY <3>1, PathChanged, ZenonT(60) DEF MaskedPath
    <2>4. ASSUME NEW j \in DOMAIN p.forward
          PROVE  MaskedForward(p.forward[j]) \in KnownForwards(c, p.name)
      <3>1. PICK f \in TrueForwards : f = p.forward[j]
        BY <2>0, ElementsOf
      <3>2. f \in ForwardsOf(Named(c, p.name))
        BY <2>2, <3>1 DEF ForwardsOf, ToSet
      <3>3. f.id \in Ids \cup {""} /\ f.url \in TrueUrls
        BY DEF TrueForwards
      <3>4. MaskedForward(f) = [id |-> f.id, url |-> Masked(f.url)]
        <4>1. f = [id |-> f.id, url |-> f.url]
          BY DEF TrueForwards
        <4> QED BY <4>1, ForwardChanged DEF MaskedForward
      <3>5. MaskedForward(f) \in ShownForwards
        <4>1. Masked(f.url) \in ShownUrls
          BY <3>3, Masks
        <4>2. [id |-> f.id, url |-> Masked(f.url)] \in ShownForwards
          BY <3>3, <4>1, ForwardsMade, Zenon
        <4> QED BY <3>4, <4>2
      <3>6. MaskedForward(f).id = f.id /\ MaskedForward(f).url = Masked(f.url)
        BY <3>4
      <3>7. MaskedForward(f) \in KnownForwards(c, p.name)
        BY <3>2, <3>5, <3>6 DEF KnownForwards
      <3> QED BY <3>1, <3>7
    <2>5. DOMAIN p.forward = 1..Len(p.forward) /\ Len(p.forward) \in Nat
      BY <2>0
    <2>6. masked \in Seq(KnownForwards(c, p.name))
      BY <2>4, <2>5
    <2>7. masked \in Seq(ShownForwards)
      <3>1. \A j \in DOMAIN p.forward : MaskedForward(p.forward[j]) \in ShownForwards
        BY <2>4 DEF KnownForwards
      <3> QED BY <2>5, <3>1
    <2>8. Masked(p.source) \in ShownUrls
      BY <2>0, Masks
    <2>9. /\ MaskedPath(p).name = p.name /\ MaskedPath(p).source = Masked(p.source)
          /\ MaskedPath(p).forward = masked
      BY <2>3
    <2>10. MaskedPath(p) \in [name : PathNames, source : ShownUrls, forward : Seq(ShownForwards)]
      BY <2>0, <2>3, <2>7, <2>8
    <2> QED BY <2>2, <2>6, <2>9, <2>10 DEF KnownPaths
  <1>3. [i \in DOMAIN c.paths |-> MaskedPath(c.paths[i])] \in Seq(KnownPaths(c))
    <2>1. DOMAIN c.paths = 1..Len(c.paths) /\ Len(c.paths) \in Nat
      BY <1>1, LenProperties
    <2>2. \A i \in DOMAIN c.paths : MaskedPath(c.paths[i]) \in KnownPaths(c)
      BY <1>2 DEF ToSet
    <2> QED BY <2>1, <2>2
  <1>4. Public(c) = [paths |-> [i \in DOMAIN c.paths |-> MaskedPath(c.paths[i])],
                     display |-> c.display, camera |-> c.camera]
    <2>1. c = [paths |-> c.paths, display |-> c.display, camera |-> c.camera]
      BY DEF TrueConfs
    <2> QED BY <2>1, ConfChanged DEF Public
  <1>5. [paths |-> [i \in DOMAIN c.paths |-> MaskedPath(c.paths[i])],
         display |-> c.display, camera |-> c.camera] \in KnownConfs(c)
    BY <1>1, <1>3, ConfsMade, Zenon DEF KnownConfs
  <1> QED BY <1>4, <1>5

-----------------------------------------------------------------------------
(* What the page sends back, merged with what is stored.                    *)

(* What it knows of a path, and of a forward in it.                         *)
LEMMA KnownOnes ==
  ASSUME NEW c, NEW p \in KnownPaths(c)
  PROVE  /\ p.name \in PathNames /\ p.source \in ShownUrls
         /\ p.forward \in Seq(KnownForwards(c, p.name))
         /\ p = [name |-> p.name, source |-> p.source, forward |-> p.forward]
         /\ p.source.key = "hidden" => \E o \in Named(c, p.name) : p.source = Masked(o.source)
         /\ \A f \in KnownForwards(c, p.name) :
              f.id \in Ids \cup {""} /\ f.url \in ShownUrls /\ f = [id |-> f.id, url |-> f.url]
  <1>1. p \in [name : PathNames, source : ShownUrls, forward : Seq(ShownForwards)]
    BY DEF KnownPaths
  <1>2. p.name \in PathNames /\ p.source \in ShownUrls
    BY <1>1
  <1>3. p = [name |-> p.name, source |-> p.source, forward |-> p.forward]
    BY <1>1
  <1>4. \A f \in ShownForwards :
          f.id \in Ids \cup {""} /\ f.url \in ShownUrls /\ f = [id |-> f.id, url |-> f.url]
    BY ForwardParts
  <1> QED BY <1>2, <1>3, <1>4 DEF KnownPaths, KnownForwards

(* A merged forward is one that was stored, or it goes where the page says,
   in place of the stored one of its number or as a new one.                *)
LEMMA ForwardMerged ==
  ASSUME NEW c \in TrueConfs, NEW p \in KnownPaths(c), NEW fresh, NEW j \in DOMAIN p.forward,
         Numbered(Named(c, p.name), p.forward[j].id) = {} => fresh[<<p.name, j>>] \in Ids
  PROVE  LET g == MergedForwards(Named(c, p.name), p, fresh)[j]
         IN  /\ g \in TrueForwards
             /\ \/ g \in ForwardsOf(Named(c, p.name))
                \/ /\ g.url = p.forward[j].url
                   /\ \/ g.id = p.forward[j].id
                      \/ Numbered(Named(c, p.name), p.forward[j].id) = {}
  <1> DEFINE old == Named(c, p.name)
             g == MergedForwards(old, p, fresh)[j]
  <1>1. PICK f \in KnownForwards(c, p.name) : f = p.forward[j]
    BY KnownOnes, ElementsOf
  <1>2. PICK id, url : /\ id \in Ids \cup {""} /\ url \in ShownUrls /\ f = [id |-> id, url |-> url]
                       /\ id = f.id /\ url = f.url
    BY KnownOnes
  <1>3. url.key = "hidden" => \E o \in Numbered(old, id) : url = Masked(o.url)
    BY <1>2 DEF KnownForwards, Numbered
  <1>4. g = IF Numbered(old, id) = {} THEN [f EXCEPT !.id = fresh[<<p.name, j>>]]
            ELSE IF \E o \in Numbered(old, id) : url \in {Masked(o.url), Blank}
                 THEN CHOOSE o \in Numbered(old, id) : TRUE ELSE f
    <2>1. g = LET h == p.forward[j]  o == Numbered(old, h.id)
              IN  IF o = {} THEN [h EXCEPT !.id = fresh[<<p.name, j>>]]
                  ELSE IF \E x \in o : h.url \in {Masked(x.url), Blank} THEN CHOOSE x \in o : TRUE
                  ELSE h
      BY DEF MergedForwards
    <2>2. p.forward[j] = f /\ f.id = id /\ f.url = url
      BY <1>1, <1>2
    <2> QED BY <2>1, <2>2, Zenon
  <1>5. Numbered(old, id) \subseteq ForwardsOf(old) /\ ForwardsOf(old) \subseteq TrueForwards
    BY StoredOnes DEF Numbered
  <1> HIDE DEF old, g
  <1>6. CASE Numbered(old, id) = {}
    <2>1. PICK new \in Ids : new = fresh[<<p.name, j>>]
      BY <1>1, <1>2, <1>6 DEF old
    <2>2. g = [id |-> new, url |-> url]
      <3>1. f = [id |-> f.id, url |-> f.url]
        BY <1>2
      <3> QED BY <1>2, <1>4, <1>6, <2>1, <3>1, ForwardChanged
    <2>3. url \in TrueUrls
      BY <1>2, <1>3, <1>6, Unmasked
    <2>4. g \in TrueForwards
      <3>1. new \in Ids \cup {""}
        BY <2>1
      <3>2. [id |-> new, url |-> url] \in TrueForwards
        BY <2>3, <3>1, ForwardsMade, Zenon
      <3> QED BY <2>2, <3>2
    <2>5. g.url = url
      BY <2>2
    <2> QED BY <1>1, <1>2, <1>6, <2>4, <2>5 DEF old, g
  <1>7. CASE Numbered(old, id) # {} /\ \E o \in Numbered(old, id) : url \in {Masked(o.url), Blank}
    <2>1. g \in Numbered(old, id)
      BY <1>4, <1>7
    <2> QED BY <1>5, <2>1 DEF old, g
  <1>8. CASE Numbered(old, id) # {} /\ ~\E o \in Numbered(old, id) : url \in {Masked(o.url), Blank}
    <2>1. g = f
      BY <1>4, <1>8
    <2>2. url \in TrueUrls
      BY <1>2, <1>3, <1>8, Unmasked
    <2>3. f \in TrueForwards
      BY <1>2, <2>2, ForwardsMade, Zenon
    <2> QED BY <1>1, <2>1, <2>3 DEF old, g
  <1> QED BY <1>6, <1>7, <1>8

LEMMA SourceMerged ==
  ASSUME NEW c \in TrueConfs, NEW p \in KnownPaths(c)
  PROVE  MergedSource(Named(c, p.name), p) \in TrueUrls
  <1>1. CASE \E o \in Named(c, p.name) : p.source = Masked(o.source)
    <2>1. (CHOOSE o \in Named(c, p.name) : TRUE) \in Named(c, p.name)
      BY <1>1
    <2>2. \A o \in Named(c, p.name) : o.source \in TrueUrls
      BY StoredOnes DEF TruePaths
    <2> QED BY <1>1, <2>1, <2>2 DEF MergedSource
  <1>2. CASE ~\E o \in Named(c, p.name) : p.source = Masked(o.source)
    BY <1>2, KnownOnes, Unmasked DEF MergedSource
  <1> QED BY <1>1, <1>2

(* Every number that is drawn is one that may be drawn.                     *)
Draws(c, pg, fresh) ==
  \A i \in DOMAIN pg.paths : \A j \in DOMAIN pg.paths[i].forward :
    Numbered(Named(c, pg.paths[i].name), pg.paths[i].forward[j].id) = {}
      => fresh[<<pg.paths[i].name, j>>] \in Ids

LEMMA PathMerged ==
  ASSUME NEW c \in TrueConfs, NEW p \in KnownPaths(c), NEW fresh,
         \A j \in DOMAIN p.forward :
           Numbered(Named(c, p.name), p.forward[j].id) = {} => fresh[<<p.name, j>>] \in Ids
  PROVE  /\ MergedPath(Named(c, p.name), p, fresh) \in TruePaths
         /\ MergedPath(Named(c, p.name), p, fresh).name = p.name
         /\ MergedPath(Named(c, p.name), p, fresh).forward = MergedForwards(Named(c, p.name), p, fresh)
         /\ DOMAIN MergedForwards(Named(c, p.name), p, fresh) = DOMAIN p.forward
  <1>1. PICK s, w : s = MergedSource(Named(c, p.name), p)
                    /\ w = MergedForwards(Named(c, p.name), p, fresh)
    OBVIOUS
  <1>2. MergedPath(Named(c, p.name), p, fresh) = [name |-> p.name, source |-> s, forward |-> w]
    <2>1. p = [name |-> p.name, source |-> p.source, forward |-> p.forward]
      BY KnownOnes
    <2>2. MergedPath(Named(c, p.name), p, fresh) = [p EXCEPT !.source = s, !.forward = w]
      BY <1>1 DEF MergedPath
    <2> QED BY <2>1, <2>2, PathChanged
  <1>3. w = [j \in DOMAIN p.forward |-> w[j]] /\ DOMAIN w = DOMAIN p.forward
    BY <1>1 DEF MergedForwards
  <1>4. \A j \in DOMAIN p.forward : w[j] \in TrueForwards
    BY <1>1, ForwardMerged
  <1>5. DOMAIN p.forward = 1..Len(p.forward) /\ Len(p.forward) \in Nat
    BY KnownOnes, LenProperties
  <1>6. w \in Seq(TrueForwards)
    BY <1>3, <1>4, <1>5
  <1>7. s \in TrueUrls /\ p.name \in PathNames
    BY <1>1, SourceMerged, KnownOnes
  <1>8. [name |-> p.name, source |-> s, forward |-> w] \in TruePaths
    BY <1>6, <1>7 DEF TruePaths
  <1> QED BY <1>1, <1>2, <1>3, <1>8

(* Merge is right: no mask is stored, and a forward whose number was there
   goes elsewhere only if the page says so.                                 *)
LEMMA MergeIsTrue ==
  ASSUME NEW c \in TrueConfs, NEW pg \in KnownConfs(c), NEW fresh, Draws(c, pg, fresh)
  PROVE  Merge(c, pg, fresh) \in TrueConfs
  <1>1. /\ pg.paths \in Seq(KnownPaths(c)) /\ pg.display \in PathNames \cup {""}
        /\ pg.camera \in PathNames \cup {""}
        /\ pg = [paths |-> pg.paths, display |-> pg.display, camera |-> pg.camera]
    BY DEF KnownConfs
  <1>2. PICK w : w = [i \in DOMAIN pg.paths |->
                        MergedPath(Named(c, pg.paths[i].name), pg.paths[i], fresh)]
    OBVIOUS
  <1>3. DOMAIN pg.paths = 1..Len(pg.paths) /\ Len(pg.paths) \in Nat
    BY <1>1, LenProperties
  <1>4. ASSUME NEW i \in DOMAIN pg.paths PROVE w[i] \in TruePaths
    <2>1. PICK p \in KnownPaths(c) : p = pg.paths[i]
      BY <1>1, ElementsOf
    <2>2. \A j \in DOMAIN p.forward :
            Numbered(Named(c, p.name), p.forward[j].id) = {} => fresh[<<p.name, j>>] \in Ids
      BY <2>1 DEF Draws
    <2> QED BY <1>2, <2>1, <2>2, PathMerged
  <1>5. w \in Seq(TruePaths)
    <2>1. w = [i \in DOMAIN pg.paths |-> w[i]]
      BY <1>2
    <2>2. PICK len \in Nat : len = Len(pg.paths)
      BY <1>3
    <2>3. w = [i \in 1..len |-> w[i]] /\ \A i \in 1..len : w[i] \in TruePaths
      BY <1>3, <1>4, <2>1, <2>2
    <2> QED BY <2>3, SeqMade
  <1>6. Merge(c, pg, fresh) = [paths |-> w, display |-> pg.display, camera |-> pg.camera]
    <2>1. Merge(c, pg, fresh) = [pg EXCEPT !.paths = w]
      BY <1>2 DEF Merge
    <2> QED BY <1>1, <2>1, ConfChanged
  <1>7. [paths |-> w, display |-> pg.display, camera |-> pg.camera] \in TrueConfs
    BY <1>1, <1>5, ConfsMade, Zenon DEF TrueConfs
  <1> QED BY <1>6, <1>7

LEMMA MergeKeepsKeys ==
  ASSUME NEW c \in TrueConfs, ValidPaths(c), NEW pg \in KnownConfs(c), NEW fresh, Draws(c, pg, fresh),
         NEW n, NEW f \in ForwardsOf(Named(c, n)),
         NEW g \in Numbered(Named(Merge(c, pg, fresh), n), f.id), g.url # f.url
  PROVE  \E e \in ForwardsOf(Named(pg, n)) :
            e.url = g.url /\ (e.id = f.id \/ Numbered(Named(c, n), e.id) = {})
  <1>1. /\ pg.paths \in Seq(KnownPaths(c))
        /\ pg = [paths |-> pg.paths, display |-> pg.display, camera |-> pg.camera]
    BY DEF KnownConfs
  <1>2. PICK w : w = [i \in DOMAIN pg.paths |->
                        MergedPath(Named(c, pg.paths[i].name), pg.paths[i], fresh)]
    OBVIOUS
  <1>3. Merge(c, pg, fresh).paths = w
    <2>1. Merge(c, pg, fresh) = [pg EXCEPT !.paths = w]
      BY <1>2 DEF Merge
    <2>2. Merge(c, pg, fresh) = [paths |-> w, display |-> pg.display, camera |-> pg.camera]
      BY <1>1, <2>1, ConfChanged
    <2> QED BY <2>2
  <1>4. PICK q \in Named(Merge(c, pg, fresh), n) : g \in ToSet(q.forward)
    BY DEF Numbered, ForwardsOf
  <1>5. PICK i \in DOMAIN w : q = w[i] /\ q.name = n
    BY <1>3, <1>4 DEF Named, ToSet
  <1>6. PICK p \in KnownPaths(c) : p = pg.paths[i]
    BY <1>1, <1>2, <1>5, ElementsOf
  <1>7. \A j \in DOMAIN p.forward :
          Numbered(Named(c, p.name), p.forward[j].id) = {} => fresh[<<p.name, j>>] \in Ids
    BY <1>2, <1>5, <1>6 DEF Draws
  <1>8. q = MergedPath(Named(c, p.name), p, fresh)
    BY <1>2, <1>5, <1>6
  <1>9. /\ p.name = n /\ q.forward = MergedForwards(Named(c, p.name), p, fresh)
        /\ DOMAIN q.forward = DOMAIN p.forward
    <2>1. /\ MergedPath(Named(c, p.name), p, fresh).name = p.name
          /\ MergedPath(Named(c, p.name), p, fresh).forward = MergedForwards(Named(c, p.name), p, fresh)
          /\ DOMAIN MergedForwards(Named(c, p.name), p, fresh) = DOMAIN p.forward
      BY <1>7, PathMerged
    <2> QED BY <1>5, <1>8, <2>1
  <1>10. PICK j \in DOMAIN p.forward : g = MergedForwards(Named(c, p.name), p, fresh)[j]
    BY <1>4, <1>9 DEF ToSet
  <1>11. \/ g \in ForwardsOf(Named(c, n))
         \/ /\ g.url = p.forward[j].url
            /\ g.id = p.forward[j].id \/ Numbered(Named(c, n), p.forward[j].id) = {}
    <2>1. Numbered(Named(c, p.name), p.forward[j].id) = {} => fresh[<<p.name, j>>] \in Ids
      BY <1>7
    <2> DEFINE h == MergedForwards(Named(c, p.name), p, fresh)[j]
    <2>2. \/ h \in ForwardsOf(Named(c, p.name))
          \/ /\ h.url = p.forward[j].url
             /\ h.id = p.forward[j].id \/ Numbered(Named(c, p.name), p.forward[j].id) = {}
      BY <2>1, ForwardMerged
    <2>3. g = h /\ p.name = n
      BY <1>9, <1>10
    <2> HIDE DEF h
    <2> QED BY <2>2, <2>3
  <1>12. g.id = f.id
    BY DEF Numbered
  <1>13. g \notin ForwardsOf(Named(c, n))
    BY <1>12, OneOfANumber
  <1>14. p.forward[j] \in ForwardsOf(Named(pg, n))
    <2>1. p \in Named(pg, n)
      BY <1>2, <1>5, <1>6, <1>9 DEF Named, ToSet
    <2> QED BY <2>1 DEF ForwardsOf, ToSet
  <1> QED BY <1>11, <1>12, <1>13, <1>14

-----------------------------------------------------------------------------
(* The owner at the page.                                                   *)
LEMMA EditKeeps ==
  ASSUME PathsInv, NEW t \in Tabs, NEW edited \in Seq(KnownPaths(gatewayConf)), Edit(t, edited)
  PROVE  PathsInv' /\ gatewayConf' = gatewayConf
  <1>1. /\ page \in [Tabs -> KnownConfs(gatewayConf)] /\ gatewayConf' = gatewayConf
        /\ page' = [page EXCEPT ![t] = [page[t] EXCEPT !.paths = edited]]
    BY DEF PathsInv, Edit
  <1>2. /\ page[t].display \in PathNames \cup {""} /\ page[t].camera \in PathNames \cup {""}
        /\ page[t] = [paths |-> page[t].paths, display |-> page[t].display, camera |-> page[t].camera]
    BY <1>1 DEF KnownConfs
  <1>3. PICK pg : pg = [page[t] EXCEPT !.paths = edited]
    OBVIOUS
  <1>4. pg = [paths |-> edited, display |-> page[t].display, camera |-> page[t].camera]
    BY <1>2, <1>3, ConfChanged
  <1>5. pg \in KnownConfs(gatewayConf)
    <2>1. [paths |-> edited, display |-> page[t].display, camera |-> page[t].camera]
            \in KnownConfs(gatewayConf)
      BY <1>2, ConfsMade, Zenon DEF KnownConfs
    <2> QED BY <1>4, <2>1
  <1>6. page' \in [Tabs -> KnownConfs(gatewayConf)]
    BY <1>1, <1>3, <1>5
  <1>7. page' \in [Tabs -> KnownConfs(gatewayConf')]
    BY <1>1, <1>6
  <1> QED BY <1>1, <1>7 DEF PathsInv

LEMMA PathMade ==
  ASSUME NEW c, NEW n \in PathNames, NEW s \in ShownUrls, NEW w \in Seq(KnownForwards(c, n)),
         s.key = "hidden" => \E o \in Named(c, n) : s = Masked(o.source)
  PROVE  [name |-> n, source |-> s, forward |-> w] \in KnownPaths(c)
  <1>1. PICK p : p = [name |-> n, source |-> s, forward |-> w]
    OBVIOUS
  <1>2. p.name = n /\ p.source = s /\ p.forward = w
    BY <1>1
  <1>3. w \in Seq(ShownForwards)
    <2>1. KnownForwards(c, n) \subseteq ShownForwards
      BY DEF KnownForwards
    <2> QED BY <2>1
  <1>4. p \in [name : PathNames, source : ShownUrls, forward : Seq(ShownForwards)]
    BY <1>1, <1>3
  <1>5. p \in KnownPaths(c)
    BY <1>2, <1>4 DEF KnownPaths
  <1> QED BY <1>1, <1>5

(* What may be typed is no mask.                                            *)
LEMMA TypedUrls ==
  \A u \in SourceUrls \cup ForwardUrls \cup {Blank, Publish} : u \in ShownUrls /\ u.key # "hidden"
  <1>1. (CHOOSE k \in StreamKeys : TRUE) \in StreamKeys
    BY PathsAssumption
  <1>2. PICK k \in StreamKeys : k = CHOOSE x \in StreamKeys : TRUE
    BY <1>1
  <1>3. \A u \in SourceUrls : u = Publish \/ u = Url("rtsp", k) \/ u = Url("nowhere", "")
    BY <1>2 DEF SourceUrls
  <1>4. \A u \in ForwardUrls : u = Url("nowhere", "") \/ \E x \in StreamKeys : u = Url("rtmp", x)
    BY DEF ForwardUrls
  <1>5. \A x \in StreamKeys \cup {""}, w \in Wheres : Url(w, x) \in ShownUrls /\ Url(w, x).key # "hidden"
    BY PathsAssumption DEF Url, ShownUrls
  <1>6. Publish = Url("publish", "") /\ Blank = Url("", "")
    BY DEF Publish, Blank
  <1> QED BY <1>3, <1>4, <1>5, <1>6 DEF Wheres

(* One path of a page becomes another one that is known.                    *)
LEMMA PathEdited ==
  ASSUME PathsInv, NEW t \in Tabs, NEW i \in DOMAIN page[t].paths, NEW p \in KnownPaths(gatewayConf)
  PROVE  [page[t].paths EXCEPT ![i] = p] \in Seq(KnownPaths(gatewayConf))
  <1>1. page[t].paths \in Seq(KnownPaths(gatewayConf))
    BY DEF PathsInv, KnownConfs
  <1> QED BY <1>1

LEMMA EditsKnown ==
  ASSUME PathsInv, ~Renames, NEW t \in Tabs
  PROVE  /\ \A n \in PathNames : AddPath(t, n) => PathsInv' /\ gatewayConf' = gatewayConf
         /\ \A i \in DOMAIN page[t].paths :
              /\ DropPath(t, i) => PathsInv' /\ gatewayConf' = gatewayConf
              /\ \A n \in PathNames : Rename(t, i, n) => PathsInv' /\ gatewayConf' = gatewayConf
              /\ \A u \in SourceUrls : TypeSource(t, i, u) => PathsInv' /\ gatewayConf' = gatewayConf
              /\ \A u \in ForwardUrls : AddForward(t, i, u) => PathsInv' /\ gatewayConf' = gatewayConf
              /\ \A j \in DOMAIN page[t].paths[i].forward :
                   /\ DropForward(t, i, j) => PathsInv' /\ gatewayConf' = gatewayConf
                   /\ \A u \in ForwardUrls \cup {Blank} :
                        TypeForward(t, i, j, u) => PathsInv' /\ gatewayConf' = gatewayConf
  <1> DEFINE c == gatewayConf
             paths == page[t].paths
             StillKnown == PathsInv' /\ gatewayConf' = gatewayConf
  <1>1. paths \in Seq(KnownPaths(c))
    BY DEF PathsInv, KnownConfs
  <1>2. ASSUME NEW edited \in Seq(KnownPaths(c)), Edit(t, edited) PROVE StillKnown
    BY <1>2, EditKeeps
  <1>3. ASSUME NEW n \in PathNames, AddPath(t, n) PROVE StillKnown
    <2>1. <<>> \in Seq(KnownForwards(c, n))
      OBVIOUS
    <2>2. [name |-> n, source |-> Publish, forward |-> <<>>] \in KnownPaths(c)
      BY <2>1, TypedUrls, PathMade
    <2>3. Append(paths, [name |-> n, source |-> Publish, forward |-> <<>>]) \in Seq(KnownPaths(c))
      BY <1>1, <2>2, AppendProperties
    <2> QED BY <1>2, <1>3, <2>3 DEF AddPath
  <1>4. ASSUME NEW i \in DOMAIN paths PROVE DropPath(t, i) => StillKnown
    <2>1. RemoveAt(paths, i) \in Seq(KnownPaths(c))
      BY <1>1, Shortening
    <2> QED BY <1>2, <2>1 DEF DropPath
  <1>5. ASSUME NEW i \in DOMAIN paths
        PROVE  /\ \A n \in PathNames : Rename(t, i, n) => StillKnown
               /\ \A u \in SourceUrls : TypeSource(t, i, u) => StillKnown
               /\ \A u \in ForwardUrls : AddForward(t, i, u) => StillKnown
               /\ \A j \in DOMAIN paths[i].forward :
                    /\ DropForward(t, i, j) => StillKnown
                    /\ \A u \in ForwardUrls \cup {Blank} : TypeForward(t, i, j, u) => StillKnown
    <2>1. PICK p \in KnownPaths(c) : p = paths[i]
      BY <1>1, ElementsOf
    <2>2. /\ p.name \in PathNames /\ p.source \in ShownUrls
          /\ p.forward \in Seq(KnownForwards(c, p.name))
          /\ p = [name |-> p.name, source |-> p.source, forward |-> p.forward]
          /\ p.source.key = "hidden" => \E o \in Named(c, p.name) : p.source = Masked(o.source)
      BY KnownOnes
    <2>3. ASSUME NEW q \in KnownPaths(c), Edit(t, [paths EXCEPT ![i] = q]) PROVE StillKnown
      <3>1. [paths EXCEPT ![i] = q] \in Seq(KnownPaths(c))
        BY PathEdited
      <3> QED BY <1>2, <2>3, <3>1
    <2>4. ASSUME NEW n \in PathNames, Rename(t, i, n) PROVE StillKnown
      <3>1. Keyless(p) /\ Edit(t, [paths EXCEPT ![i] = [p EXCEPT !.name = n]])
        BY <2>1, <2>4 DEF Rename
      <3>2. p.source.key # "hidden" /\ \A j \in DOMAIN p.forward : p.forward[j].url.key # "hidden"
        BY <3>1 DEF Keyless, ToSet
      <3>3. p.forward \in Seq(KnownForwards(c, n))
        <4>1. ASSUME NEW j \in DOMAIN p.forward PROVE p.forward[j] \in KnownForwards(c, n)
          <5>1. p.forward[j] \in KnownForwards(c, p.name)
            BY <2>2, ElementsOf
          <5> QED BY <3>2, <5>1 DEF KnownForwards
        <4>2. DOMAIN p.forward = 1..Len(p.forward) /\ Len(p.forward) \in Nat
              /\ p.forward = [j \in DOMAIN p.forward |-> p.forward[j]]
          BY <2>2, LenProperties
        <4> QED BY <4>1, <4>2
      <3>4. [p EXCEPT !.name = n] = [name |-> n, source |-> p.source, forward |-> p.forward]
        BY <2>2, PathChanged
      <3>5. [name |-> n, source |-> p.source, forward |-> p.forward] \in KnownPaths(c)
        BY <2>2, <3>2, <3>3, PathMade
      <3> QED BY <2>3, <3>1, <3>4, <3>5
    <2>5. ASSUME NEW u \in SourceUrls, TypeSource(t, i, u) PROVE StillKnown
      <3>1. Edit(t, [paths EXCEPT ![i] = [p EXCEPT !.source = u]])
        BY <2>1, <2>5 DEF TypeSource
      <3>2. [p EXCEPT !.source = u] = [name |-> p.name, source |-> u, forward |-> p.forward]
        BY <2>2, PathChanged
      <3>3. u \in ShownUrls /\ u.key # "hidden"
        BY TypedUrls
      <3>4. [name |-> p.name, source |-> u, forward |-> p.forward] \in KnownPaths(c)
        BY <2>2, <3>3, PathMade
      <3> QED BY <2>3, <3>1, <3>2, <3>4
    <2>6. ASSUME NEW w \in Seq(KnownForwards(c, p.name)),
                 Edit(t, [paths EXCEPT ![i] = [p EXCEPT !.forward = w]])
          PROVE  StillKnown
      <3>1. [p EXCEPT !.forward = w] = [name |-> p.name, source |-> p.source, forward |-> w]
        BY <2>2, PathChanged
      <3>2. [name |-> p.name, source |-> p.source, forward |-> w] \in KnownPaths(c)
        BY <2>2, PathMade
      <3> QED BY <2>3, <2>6, <3>1, <3>2
    <2>7. ASSUME NEW u \in ForwardUrls, AddForward(t, i, u) PROVE StillKnown
      <3>1. PICK f : f = [id |-> "", url |-> u]
        OBVIOUS
      <3>2. f \in KnownForwards(c, p.name)
        <4>1. u \in ShownUrls /\ u.key # "hidden" /\ "" \in Ids \cup {""}
          BY TypedUrls
        <4>2. [id |-> "", url |-> u] \in ShownForwards
          BY <4>1, ForwardsMade, Zenon
        <4>3. f.url = u
          BY <3>1
        <4> QED BY <3>1, <4>1, <4>2, <4>3 DEF KnownForwards
      <3>3. Append(p.forward, f) \in Seq(KnownForwards(c, p.name))
        BY <2>2, <3>2, AppendProperties
      <3>4. Edit(t, [paths EXCEPT ![i] = [p EXCEPT !.forward = Append(p.forward, f)]])
        BY <2>1, <2>7, <3>1 DEF AddForward
      <3> QED BY <2>6, <3>3, <3>4
    <2>8. ASSUME NEW j \in DOMAIN paths[i].forward, DropForward(t, i, j) PROVE StillKnown
      <3>1. RemoveAt(p.forward, j) \in Seq(KnownForwards(c, p.name))
        BY <2>1, <2>2, Shortening
      <3>2. Edit(t, [paths EXCEPT ![i] = [p EXCEPT !.forward = RemoveAt(p.forward, j)]])
        BY <2>1, <2>8 DEF DropForward
      <3> QED BY <2>6, <3>1, <3>2
    <2>9. ASSUME NEW j \in DOMAIN paths[i].forward, NEW u \in ForwardUrls \cup {Blank},
                 TypeForward(t, i, j, u)
          PROVE  StillKnown
      <3>1. PICK f \in KnownForwards(c, p.name) : f = p.forward[j]
        BY <2>1, <2>2, ElementsOf
      <3>2. f.id \in Ids \cup {""} /\ f = [id |-> f.id, url |-> f.url]
        BY ForwardParts DEF KnownForwards
      <3>3. PICK g : g = [f EXCEPT !.url = u]
        OBVIOUS
      <3>4. g = [id |-> f.id, url |-> u]
        BY <3>2, <3>3, ForwardChanged
      <3>5. u \in ShownUrls /\ u.key # "hidden"
        BY TypedUrls
      <3>6. g \in KnownForwards(c, p.name)
        <4>1. [id |-> f.id, url |-> u] \in ShownForwards
          BY <3>2, <3>5, ForwardsMade, Zenon
        <4>2. g.url = u
          BY <3>4
        <4> QED BY <3>4, <3>5, <4>1, <4>2 DEF KnownForwards
      <3>7. [p.forward EXCEPT ![j] = g] \in Seq(KnownForwards(c, p.name))
        BY <2>1, <2>2, <3>6
      <3>8. Edit(t, [paths EXCEPT ![i] = [p EXCEPT !.forward = [p.forward EXCEPT ![j] = g]]])
        BY <2>1, <2>9, <3>1, <3>3 DEF TypeForward
      <3> QED BY <2>6, <3>7, <3>8
    <2> QED BY <2>1, <2>4, <2>5, <2>7, <2>8, <2>9
  <1> QED BY <1>3, <1>4, <1>5

(* What is known of the paths depends on nothing but the paths.             *)
LEMMA SamePaths ==
  ASSUME NEW c, NEW d, d.paths = c.paths PROVE KnownConfs(d) = KnownConfs(c)
  <1>1. ASSUME NEW m PROVE Named(d, m) = Named(c, m)
    BY DEF Named
  <1>2. ASSUME NEW m, NEW f PROVE f \in KnownForwards(d, m) <=> f \in KnownForwards(c, m)
    BY <1>1 DEF KnownForwards
  <1>3. ASSUME NEW m PROVE KnownForwards(d, m) = KnownForwards(c, m)
    <2>1. KnownForwards(d, m) \subseteq KnownForwards(c, m)
      BY <1>2
    <2>2. KnownForwards(c, m) \subseteq KnownForwards(d, m)
      BY <1>2
    <2> QED BY <2>1, <2>2
  <1>4. ASSUME NEW p PROVE p \in KnownPaths(d) <=> p \in KnownPaths(c)
    <2>1. Named(d, p.name) = Named(c, p.name) /\ KnownForwards(d, p.name) = KnownForwards(c, p.name)
      BY <1>1, <1>3
    <2> QED BY <2>1 DEF KnownPaths
  <1>5. KnownPaths(d) = KnownPaths(c)
    BY <1>4
  <1> QED BY <1>5 DEF KnownConfs

(* Where nothing is stored the keys stay as they are.                       *)
LEMMA KeysRest ==
  ASSUME PathsInv, gatewayConf'.paths = gatewayConf.paths, NEW n,
         NEW f \in ForwardsOf(Named(gatewayConf, n)), NEW g \in Numbered(Named(gatewayConf', n), f.id)
  PROVE  g = f
  <1>1. Named(gatewayConf', n) = Named(gatewayConf, n)
    BY DEF Named
  <1>2. g \in ForwardsOf(Named(gatewayConf, n)) /\ g.id = f.id
    BY <1>1 DEF Numbered
  <1> QED BY <1>2, OneOfANumber DEF PathsInv

(* What is stored has no mask in it, so MediaMTX gets none.                 *)
LEMMA KeysAreHome == PathsInv => KeysGoHome
  <1> SUFFICES ASSUME PathsInv, NEW n \in DOMAIN Render(gatewayConf),
                      NEW u \in Render(gatewayConf)[n].pushes \cup {Render(gatewayConf)[n].pulls}
               PROVE  u.key # "hidden"
    BY DEF KeysGoHome
  <1>1. gatewayConf \in TrueConfs
    BY DEF PathsInv
  <1>2. n \in {p.name : p \in ToSet(gatewayConf.paths)}
    BY DEF Render
  <1>3. Named(gatewayConf, n) # {}
    BY <1>2 DEF Named
  <1>4. PICK p \in Named(gatewayConf, n) : p = CHOOSE x \in Named(gatewayConf, n) : TRUE
    BY <1>3
  <1>5. p \in TruePaths
    BY <1>1, StoredOnes
  <1>6. Render(gatewayConf)[n] = [pulls |-> IF p.source = Blank THEN Publish ELSE p.source,
                                  pushes |-> {f.url : f \in ToSet(p.forward)}]
    BY <1>2, <1>4 DEF Render
  <1>7. u = Publish \/ u = p.source \/ \E f \in ToSet(p.forward) : u = f.url
    <2>1. /\ Render(gatewayConf)[n].pulls = IF p.source = Blank THEN Publish ELSE p.source
          /\ Render(gatewayConf)[n].pushes = {f.url : f \in ToSet(p.forward)}
      BY <1>6
    <2> QED BY <2>1
  <1>8. p.source \in TrueUrls /\ p.forward \in Seq(TrueForwards)
    BY <1>5 DEF TruePaths
  <1>9. \A f \in ToSet(p.forward) : f.url \in TrueUrls
    <2>1. ToSet(p.forward) \subseteq TrueForwards
      BY <1>8, ElementsOf
    <2> QED BY <2>1 DEF TrueForwards
  <1> QED BY <1>7, <1>8, <1>9, Masks, TypedUrls

KeysOnlyTyped ==
  \A n \in DOMAIN Render(gatewayConf) : \A f \in ForwardsOf(Named(gatewayConf, n)) :
    \A g \in Numbered(Named(gatewayConf', n), f.id) :
      g.url # f.url => \E t \in Tabs : \E e \in ForwardsOf(Named(page[t], n)) :
                          /\ e.url = g.url
                          /\ e.id = f.id \/ Numbered(Named(gatewayConf, n), e.id) = {}

LEMMA PathsStart == PathsInit => PathsInv
  <1> SUFFICES ASSUME PathsInit PROVE PathsInv
    OBVIOUS
  <1>1. PICK p : p = [name |-> "cam", source |-> Publish, forward |-> <<>>]
    OBVIOUS
  <1>2. p \in TruePaths /\ p.name = "cam" /\ p.source = Publish /\ p.forward = <<>>
    <2>1. Publish \in TrueUrls
      BY TypedUrls, Unmasked
    <2>2. <<>> \in Seq(TrueForwards)
      OBVIOUS
    <2>3. "cam" \in PathNames
      BY PathsAssumption
    <2> QED BY <1>1, <2>1, <2>2, <2>3 DEF TruePaths
  <1>3. PICK s : s = <<p>>
    OBVIOUS
  <1>4. s \in Seq(TruePaths) /\ DOMAIN s = {1} /\ s[1] = p
    BY <1>2, <1>3
  <1>5. DefaultConf = [paths |-> s, display |-> "", camera |-> "cam"]
    BY <1>1, <1>3 DEF DefaultConf
  <1>6. DefaultConf \in TrueConfs
    <2>1. "" \in PathNames \cup {""} /\ "cam" \in PathNames \cup {""}
      BY PathsAssumption
    <2>2. [paths |-> s, display |-> "", camera |-> "cam"] \in TrueConfs
      BY <1>4, <2>1, ConfsMade, Zenon DEF TrueConfs
    <2> QED BY <1>5, <2>2
  <1>7. ValidPaths(DefaultConf)
    <2>1. DefaultConf.paths = s /\ DefaultConf.display = "" /\ DefaultConf.camera = "cam"
      BY <1>5
    <2>2. ToSet(s) = {p}
      BY <1>4 DEF ToSet
    <2>3. ValidSource(p)
      BY <1>2 DEF ValidSource
    <2>4. DOMAIN p.forward = {} /\ ToSet(p.forward) = {}
      BY <1>2 DEF ToSet
    <2>5. {q.name : q \in ToSet(s)} = {"cam"}
      BY <1>2, <2>2
    <2> QED BY <1>2, <1>4, <2>1, <2>2, <2>3, <2>4, <2>5 DEF ValidPaths
  <1>8. Public(DefaultConf) \in KnownConfs(DefaultConf)
    BY <1>6, PublicIsKnown
  <1>9. gatewayConf = DefaultConf /\ page = [t \in Tabs |-> Public(DefaultConf)]
    BY DEF PathsInit
  <1>10. page \in [Tabs -> KnownConfs(gatewayConf)]
    BY <1>8, <1>9
  <1> QED BY <1>6, <1>7, <1>9, <1>10 DEF PathsInv

LEMMA PathsKeep ==
  ASSUME OneTab, ~Renames, PathsInv, [PathsNext]_pathVars PROVE PathsInv' /\ KeysOnlyTyped
  <1> DEFINE StillKnown == PathsInv' /\ gatewayConf' = gatewayConf
  <1>1. ASSUME PathsInv', gatewayConf'.paths = gatewayConf.paths PROVE PathsInv' /\ KeysOnlyTyped
    BY <1>1, KeysRest DEF KeysOnlyTyped
  <1>2. ASSUME StillKnown PROVE PathsInv' /\ KeysOnlyTyped
    BY <1>1, <1>2
  <1>3. ASSUME NEW t \in Tabs, Loaded(t, gatewayConf'), gatewayConf' \in TrueConfs, ValidPaths(gatewayConf')
        PROVE  PathsInv'
    <2>1. Public(gatewayConf') \in KnownConfs(gatewayConf')
      BY <1>3, PublicIsKnown
    <2>2. page \in [Tabs -> KnownConfs(gatewayConf)]
      BY DEF PathsInv
    <2>3. page' = [page EXCEPT ![t] = Public(gatewayConf')] /\ \A u \in Tabs : u = t
      BY <1>3 DEF Loaded, OneTab
    <2>4. page' \in [Tabs -> KnownConfs(gatewayConf')]
      BY <2>1, <2>2, <2>3
    <2> QED BY <1>3, <2>4 DEF PathsInv
  <1>4. ASSUME NEW t \in Tabs, Reload(t) PROVE PathsInv' /\ KeysOnlyTyped
    <2>1. gatewayConf' = gatewayConf /\ Loaded(t, gatewayConf')
      BY <1>4 DEF Reload
    <2>2. gatewayConf' \in TrueConfs /\ ValidPaths(gatewayConf')
      BY <2>1 DEF PathsInv
    <2> QED BY <1>1, <1>3, <2>1, <2>2
  <1>5. ASSUME NEW t \in Tabs, PostPaths(t) PROVE PathsInv' /\ KeysOnlyTyped
    <2>1. PICK fresh \in [New(page[t]) -> Ids] :
            IF ValidPaths(Merge(gatewayConf, page[t], fresh))
            THEN gatewayConf' = Merge(gatewayConf, page[t], fresh)
                 /\ Loaded(t, Merge(gatewayConf, page[t], fresh))
            ELSE UNCHANGED pathVars
      BY <1>5 DEF PostPaths
    <2>2. gatewayConf \in TrueConfs /\ ValidPaths(gatewayConf) /\ page[t] \in KnownConfs(gatewayConf)
      BY DEF PathsInv
    <2>3. Draws(gatewayConf, page[t], fresh)
      <3>1. ASSUME NEW i \in DOMAIN page[t].paths, NEW j \in DOMAIN page[t].paths[i].forward,
                   Numbered(Named(gatewayConf, page[t].paths[i].name),
                            page[t].paths[i].forward[j].id) = {}
            PROVE  <<page[t].paths[i].name, j>> \in New(page[t])
        <4>1. PICK p : p = page[t].paths[i]
          OBVIOUS
        <4>2. p \in ToSet(page[t].paths)
          BY <4>1 DEF ToSet
        <4>3. j \in {k \in DOMAIN p.forward : Numbered(Named(gatewayConf, p.name), p.forward[k].id) = {}}
          BY <3>1, <4>1
        <4>4. <<p.name, j>> \in {<<p.name, k>> : k \in
                {k \in DOMAIN p.forward : Numbered(Named(gatewayConf, p.name), p.forward[k].id) = {}}}
          BY <4>3
        <4>5. {<<p.name, k>> : k \in
                 {k \in DOMAIN p.forward : Numbered(Named(gatewayConf, p.name), p.forward[k].id) = {}}}
                \subseteq New(page[t])
          BY <4>2 DEF New
        <4> QED BY <4>1, <4>4, <4>5
      <3> QED BY <3>1 DEF Draws
    <2>4. CASE ValidPaths(Merge(gatewayConf, page[t], fresh))
      <3>1. gatewayConf' = Merge(gatewayConf, page[t], fresh) /\ Loaded(t, gatewayConf')
        BY <2>1, <2>4
      <3>2. gatewayConf' \in TrueConfs /\ ValidPaths(gatewayConf')
        BY <2>2, <2>3, <2>4, <3>1, MergeIsTrue
      <3>3. ASSUME NEW n, NEW f \in ForwardsOf(Named(gatewayConf, n)),
                   NEW g \in Numbered(Named(gatewayConf', n), f.id), g.url # f.url
            PROVE  \E e \in ForwardsOf(Named(page[t], n)) :
                      e.url = g.url /\ (e.id = f.id \/ Numbered(Named(gatewayConf, n), e.id) = {})
        <4>1. g \in Numbered(Named(Merge(gatewayConf, page[t], fresh), n), f.id)
          BY <3>1
        <4>2. PICK c, pg : c = gatewayConf /\ pg = page[t]
          OBVIOUS
        <4>3. /\ c \in TrueConfs /\ ValidPaths(c) /\ pg \in KnownConfs(c) /\ Draws(c, pg, fresh)
              /\ f \in ForwardsOf(Named(c, n)) /\ g \in Numbered(Named(Merge(c, pg, fresh), n), f.id)
          BY <2>2, <2>3, <4>1, <4>2
        <4>4. \E e \in ForwardsOf(Named(pg, n)) :
                 e.url = g.url /\ (e.id = f.id \/ Numbered(Named(c, n), e.id) = {})
          BY <3>3, <4>3, MergeKeepsKeys
        <4> QED BY <4>2, <4>4
      <3> QED BY <1>3, <3>1, <3>2, <3>3 DEF KeysOnlyTyped
    <2>5. CASE ~ValidPaths(Merge(gatewayConf, page[t], fresh))
      <3>1. UNCHANGED pathVars
        BY <2>1, <2>5
      <3> QED BY <1>2, <3>1 DEF pathVars, PathsInv
    <2> QED BY <2>4, <2>5
  <1>6. ASSUME NEW n \in PathNames \cup {""}, Display(n) PROVE PathsInv' /\ KeysOnlyTyped
    <2>1. /\ gatewayConf' = [gatewayConf EXCEPT !.display = n] /\ ValidPaths(gatewayConf')
          /\ page' = page
      BY <1>6 DEF Display
    <2>2. /\ gatewayConf.paths \in Seq(TruePaths) /\ gatewayConf.camera \in PathNames \cup {""}
          /\ gatewayConf = [paths |-> gatewayConf.paths, display |-> gatewayConf.display,
                            camera |-> gatewayConf.camera]
      BY DEF PathsInv, TrueConfs
    <2>3. gatewayConf' = [paths |-> gatewayConf.paths, display |-> n, camera |-> gatewayConf.camera]
      BY <2>1, <2>2, ConfChanged
    <2>4. gatewayConf' \in TrueConfs
      <3>1. [paths |-> gatewayConf.paths, display |-> n, camera |-> gatewayConf.camera] \in TrueConfs
        BY <2>2, ConfsMade, Zenon DEF TrueConfs
      <3> QED BY <2>3, <3>1
    <2>5. gatewayConf'.paths = gatewayConf.paths
      BY <2>3
    <2>6. KnownConfs(gatewayConf') = KnownConfs(gatewayConf)
      <3>1. PICK c, d : c = gatewayConf /\ d = gatewayConf'
        OBVIOUS
      <3>2. KnownConfs(d) = KnownConfs(c)
        BY <2>5, <3>1, SamePaths
      <3> QED BY <3>1, <3>2
    <2>7. page' \in [Tabs -> KnownConfs(gatewayConf')]
      BY <2>1, <2>6 DEF PathsInv
    <2> QED BY <1>1, <2>1, <2>4, <2>5, <2>7 DEF PathsInv
  <1>7. ASSUME NEW t \in Tabs, NEW i \in DOMAIN page[t].paths,
               \/ DropPath(t, i)
               \/ \E n \in PathNames : Rename(t, i, n)
               \/ \E u \in SourceUrls : TypeSource(t, i, u)
               \/ \E u \in ForwardUrls : AddForward(t, i, u)
               \/ \E j \in DOMAIN page[t].paths[i].forward :
                    DropForward(t, i, j) \/ \E u \in ForwardUrls \cup {Blank} : TypeForward(t, i, j, u)
        PROVE  PathsInv' /\ KeysOnlyTyped
    BY <1>2, <1>7, EditsKnown
  <1>8. ASSUME NEW t \in Tabs, NEW n \in PathNames, AddPath(t, n) PROVE PathsInv' /\ KeysOnlyTyped
    BY <1>2, <1>8, EditsKnown
  <1>9. CASE UNCHANGED pathVars
    BY <1>2, <1>9 DEF pathVars, PathsInv
  <1> QED BY <1>4, <1>5, <1>6, <1>7, <1>8, <1>9 DEF PathsNext

(* The keys of the paths stay with their forwards and what is shown masked is
   never stored, whatever one page adds, drops and types, for any names, keys
   and numbers that are drawn (gateway/config.go, Merge).                   *)
THEOREM KeysHold == ASSUME OneTab, ~Renames PROVE BoxSpec => KeysAreKept
  <1>1. BoxInit => PathsInv
    BY PathsStart DEF BoxInit
  <1>2. [BoxNext]_boxVars => [PathsNext]_pathVars
    BY DEF BoxNext, Keeps, boxVars
  <1>3. PathsInv /\ [PathsNext]_pathVars => PathsInv' /\ [KeysOnlyTyped]_pathVars
    BY PathsKeep
  <1>4. PathsInv' => KeysGoHome'
    BY KeysAreHome, PTL
  <1>5. PathsInv' /\ [KeysOnlyTyped]_pathVars => [KeysGoHome' /\ KeysOnlyTyped]_pathVars
    BY <1>4
  <1> QED BY <1>1, <1>2, <1>3, <1>5, PTL DEF BoxSpec, KeysAreKept, KeysOnlyTyped
=============================================================================
