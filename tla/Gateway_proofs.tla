--------------------------- MODULE Gateway_proofs ----------------------------
(***************************************************************************)
(* Proofs about Gateway, for any paths and sources, whatever fails and is  *)
(* cut off.                                                                *)
(***************************************************************************)
EXTENDS Gateway, TLAPS

USE GatewayAssumption DEF Steps

(* What the proofs about the owner's selection assume and keep.             *)
IndInv == TypeOK /\ HomeInv

-----------------------------------------------------------------------------
(* What a request holds: its parts have their types, and replacing a part   *)
(* by one of the right type leaves a request.                               *)
LEMMA JobParts ==
    ASSUME NEW j \in Job
    PROVE  /\ j.before \in Config /\ j.after \in Config /\ j.st \in DecoderState
           /\ j.st.path \in Paths \cup {NoPath}
           /\ j.st.prev.mode \in Modes /\ j.st.prev.name \in Names
           /\ j.after.show \in Paths \cup {NoPath}
           /\ \A w \in BOOLEAN : [j EXCEPT !.warned = w] \in Job
           /\ \A s \in DecoderState : [j EXCEPT !.st = s] \in Job
<1>1. /\ j.before \in Config /\ j.after \in Config /\ j.st \in DecoderState
      /\ \A w \in BOOLEAN : [j EXCEPT !.warned = w] \in Job
      /\ \A s \in DecoderState : [j EXCEPT !.st = s] \in Job
  BY DEF Job
<1>2. j.st.path \in Paths \cup {NoPath} /\ j.st.prev \in Selection BY <1>1 DEF DecoderState
<1>3. j.st.prev.mode \in Modes /\ j.st.prev.name \in Names BY <1>2 DEF Selection
<1>4. j.after.show \in Paths \cup {NoPath} BY <1>1 DEF Config
<1> QED BY <1>1, <1>2, <1>3, <1>4

(* The same for the selection that Take remembers, file by file.            *)
LEMMA Remembers ==
    ASSUME NEW j \in Job
    PROVE  /\ \A n \in Names : [j EXCEPT !.st.prev.name = n] \in Job
           /\ \A m \in Modes : [j EXCEPT !.st.prev.mode = m] \in Job
<1>1. j.st \in DecoderState /\ j.st.prev \in Selection BY DEF Job, DecoderState
<1>2. ASSUME NEW n \in Names PROVE [j EXCEPT !.st.prev.name = n] \in Job
  <2>1. [j.st.prev EXCEPT !.name = n] \in Selection BY <1>1 DEF Selection
  <2>2. [j.st EXCEPT !.prev.name = n] \in DecoderState BY <1>1, <2>1 DEF DecoderState
  <2> QED BY <2>2 DEF Job
<1>3. ASSUME NEW m \in Modes PROVE [j EXCEPT !.st.prev.mode = m] \in Job
  <2>1. [j.st.prev EXCEPT !.mode = m] \in Selection BY <1>1 DEF Selection
  <2>2. [j.st EXCEPT !.prev.mode = m] \in DecoderState BY <1>1, <2>1 DEF DecoderState
  <2> QED BY <2>2 DEF Job
<1> QED BY <1>2, <1>3

(* A fresh install has the types, and nobody is at the decoder.             *)
LEMMA InitInd == ASSUME Init PROVE IndInv
<1>1. config \in Config /\ yml \in Config BY DEF Init, DefaultConfig, Config
<1>2. /\ Nothing \in DecoderState /\ mode \in Modes /\ name \in Names
      /\ [mode |-> mode, name |-> name] \in Selection
  BY DEF Init, Selection, Modes, Names, DecoderState, Nothing
<1>3. job \in [Handlers -> Job] BY <1>1, <1>2 DEF Init, Job
<1>4. HubType BY <1>1 DEF Init, HubType
<1>5. DecoderType BY <1>2 DEF Init, DecoderType, Files
<1>6. RequestType BY <1>3 DEF Init, RequestType, Places
<1>7. TypeOK BY <1>4, <1>5, <1>6 DEF Init, TypeOK
<1>8. HomeInv BY DEF Init, HomeInv, HandlerInv, AtDecoder
<1> QED BY <1>7, <1>8 DEF IndInv

(* The steps of a save keep the types.                                      *)
LEMMA ApplyTypes == ASSUME TypeOK, NEW h \in Handlers, Apply(h) PROVE TypeOK'
<1> USE DEF TypeOK
<1>1. job[h] \in Job BY DEF RequestType
<1>2. Wanted(h) \in Paths \cup {NoPath} BY <1>1, JobParts DEF Wanted, Shows
<1>3. HubType'
  <2>1. job[h].after \in Config /\ job[h].after.enabled \in BOOLEAN
    BY <1>1, JobParts DEF Config
  <2>2. CASE SaveConfig(h) \/ RenderYml(h) \/ SwitchHub(h)
    BY <2>1, <2>2 DEF HubType, SaveConfig, RenderYml, SwitchHub, SwitchUnit, mtx
  <2>3. CASE UNCHANGED <<config, mtx>> BY <2>3 DEF HubType, mtx
  <2> QED BY <2>2, <2>3 DEF Apply, LoadState, readSourceName, readSettings, writeList,
             writeSettings, writeSourceName, NotRemoved, saveState, Restart, GiveUp
<1>4. pc' \in [Handlers -> Places]
  <2>1. \E place \in Places : GoTo(h, place)
    BY DEF Places, Apply, SaveConfig, RenderYml, SwitchHub, ThenSync, LoadState,
       readSourceName, readSettings, writeList, writeSettings, writeSourceName, NotRemoved,
       saveState, Restart, GiveUp
  <2> QED BY <2>1 DEF GoTo, RequestType
<1>5. job' \in [Handlers -> Job]
  <2>1. \/ UNCHANGED job \/ Warn(h)
        \/ job' = [job EXCEPT ![h].st = state]
        \/ job' = [job EXCEPT ![h].st.prev.name = name]
        \/ job' = [job EXCEPT ![h].st.prev.mode = mode]
    BY DEF Apply, SaveConfig, RenderYml, SwitchHub, SwitchUnit, LoadState,
       readSourceName, readSettings, writeList, writeSettings, writeSourceName, NotRemoved,
       saveState, Restart, GiveUp
  <2>2. \E j \in Job : job' = [job EXCEPT ![h] = j]
    <3>1. job = [job EXCEPT ![h] = job[h]] BY DEF RequestType
    <3>2. Warn(h) => job' = [job EXCEPT ![h] = [job[h] EXCEPT !.warned = TRUE]] BY DEF Warn
    <3> QED BY <1>1, <2>1, <3>1, <3>2, JobParts, Remembers DEF DecoderType
  <2> QED BY <2>2 DEF RequestType
<1>6. DecoderType'
  <2>1. mode' \in Modes
    BY <1>1, JobParts DEF DecoderType, Modes, Apply, SaveConfig, RenderYml, SwitchHub, LoadState,
       readSourceName, readSettings, writeList, writeSettings, writeSourceName, NotRemoved,
       saveState, Restart, GiveUp, files, Prev
  <2>2. name' \in Names
    BY <1>1, <1>2, JobParts DEF DecoderType, Names, Apply, SaveConfig, RenderYml, SwitchHub,
       LoadState, readSourceName, readSettings, writeList, writeSettings, writeSourceName,
       NotRemoved, saveState, Restart, GiveUp, files, Prev
  <2>3. state' \in DecoderState
    <3>1. Nothing \in DecoderState /\ [job[h].st EXCEPT !.path = Wanted(h)] \in DecoderState
      BY <1>1, <1>2, JobParts DEF DecoderState, Nothing, Selection, Modes, Names
    <3> QED BY <3>1 DEF DecoderType, Apply, SaveConfig, RenderYml, SwitchHub, LoadState,
       readSourceName, readSettings, writeList, writeSettings, writeSourceName, NotRemoved,
       saveState, Restart, GiveUp, files
  <2>4. running' \in Selection
    <3>1. Files \in Selection BY DEF DecoderType, Files, Selection
    <3> QED BY <3>1 DEF DecoderType, Apply, SaveConfig, RenderYml, SwitchHub, LoadState,
       readSourceName, readSettings, writeList, writeSettings, writeSourceName, NotRemoved,
       saveState, Restart, GiveUp
  <2> QED BY <2>1, <2>2, <2>3, <2>4 DEF DecoderType
<1>7. list' \subseteq Paths /\ crashes' \in 0..MaxCrashes
  BY <1>2 DEF Apply, SaveConfig, RenderYml, SwitchHub, LoadState, readSourceName, readSettings,
     writeList, writeSettings, writeSourceName, NotRemoved, saveState, Restart, GiveUp, files
<1> QED BY <1>3, <1>4, <1>5, <1>6, <1>7 DEF RequestType

(* So do a request's arrival and whatever happens around bdgw.              *)
LEMMA OtherTypes ==
    ASSUME TypeOK,
           \/ \E h \in Handlers : handleConfig(h) \/ handleDisplay(h)
           \/ OwnerSelects \/ PPAppStarts \/ HubStarts \/ HubDies \/ Killed \/ PowerCut
    PROVE  TypeOK'
<1> USE DEF TypeOK
<1>0. Files \in Selection BY DEF DecoderType, Files, Selection
<1>1. ASSUME NEW h \in Handlers, NEW c \in Config, Request(h, c) PROVE TypeOK'
  <2>1. Nothing \in DecoderState BY DEF DecoderState, Nothing, Selection, Modes, Names
  <2>2. [before |-> config, after |-> c, st |-> Nothing, warned |-> FALSE] \in Job
    BY <2>1 DEF Job, HubType
  <2>3. RequestType' BY <1>1, <2>2 DEF Request, GoTo, RequestType, Places
  <2> QED BY <1>1, <2>3 DEF Request, HubType, DecoderType, mtx, files
<1>2. ASSUME NEW h \in Handlers, handleConfig(h) \/ handleDisplay(h) PROVE TypeOK'
  <2>1. \A p \in Paths \cup {NoPath} : [config EXCEPT !.show = p] \in Config
    BY DEF HubType, Config
  <2> QED BY <1>1, <1>2, <2>1 DEF handleConfig, handleDisplay
<1>3. CASE OwnerSelects
  <2>1. mode' \in Modes /\ name' \in Names BY <1>3 DEF OwnerSelects, Modes, Names
  <2>2. running' \in Selection BY <1>3, <2>1 DEF OwnerSelects, Selection
  <2> QED BY <1>3, <2>1, <2>2 DEF OwnerSelects, DecoderType, HubType, RequestType, mtx
<1>4. CASE PPAppStarts
  BY <1>0, <1>4 DEF PPAppStarts, DecoderType, HubType, RequestType, mtx, files
<1>5. CASE HubStarts
  <2>1. hub' \in BOOLEAN BY <1>5 DEF HubStarts, HubType, Config
  <2> QED BY <1>5, <2>1 DEF HubStarts, DecoderType, HubType, RequestType, files
<1>6. CASE HubDies
  BY <1>6 DEF HubDies, DecoderType, HubType, RequestType, files
<1>7. CASE Killed \/ PowerCut
  <2>1. Lost BY <1>7 DEF Killed, PowerCut
  <2>2. RequestType'
    <3>1. \A h \in Handlers : [job[h] EXCEPT !.warned = @ \/ pc[h] # "idle"] \in Job
      BY DEF RequestType, Job
    <3> QED BY <2>1, <3>1 DEF Lost, RequestType, Places
  <2>3. crashes' \in 0..MaxCrashes BY <2>1 DEF Lost
  <2> QED BY <1>0, <1>7, <2>2, <2>3 DEF Killed, PowerCut, DecoderType, HubType, mtx, files
<1> QED BY <1>2, <1>3, <1>4, <1>5, <1>6, <1>7

(* TypeOK is an invariant, whatever fails and is cut off.                   *)
THEOREM TypesHold == Spec => []TypeOK
<1>1. Init => TypeOK BY InitInd DEF IndInv
<1>2. TypeOK /\ [Next]_vars => TypeOK'
  <2>1. TypeOK /\ UNCHANGED vars => TypeOK' BY DEF TypeOK, HubType, DecoderType, RequestType, vars, mtx, files
  <2> QED BY <2>1, ApplyTypes, OtherTypes DEF Next
<1> QED BY <1>1, <1>2, PTL DEF Spec

-----------------------------------------------------------------------------
(* A request leaves what the others hold alone, and with one request at a   *)
(* time there are no others.                                                *)
LEMMA OnlyOne == ASSUME OneByOne, NEW h \in Handlers, HandlerInv(h)' PROVE HomeInv'
  BY DEF OneByOne, HomeInv

(* The steps of a save keep HomeInv.                                        *)
LEMMA ApplyKeeps == ASSUME IndInv, OneByOne, NEW h \in Handlers, Apply(h) PROVE HomeInv'
<1> USE DEF IndInv, At, GoTo, AtDecoder
<1>1. SUFFICES HandlerInv(h)' BY OnlyOne
<1>2. HandlerInv(h) /\ job[h] \in Job BY DEF HomeInv, TypeOK, RequestType
<1>3. pc \in [Handlers -> Places] /\ job \in [Handlers -> Job] BY DEF TypeOK, RequestType
<1>4. CASE SaveConfig(h) \/ RenderYml(h) \/ SwitchHub(h)
  <2>1. pc'[h] \notin AtDecoder
    BY <1>3, <1>4 DEF SaveConfig, RenderYml, SwitchHub, ThenSync
  <2> QED BY <2>1 DEF HandlerInv
<1>5. CASE LoadState(h)
  <2>1. job'[h].st = state /\ job'[h].after = job[h].after /\ UNCHANGED <<state, name, mode>>
    BY <1>3, <1>5 DEF LoadState, Job, files
  <2>2. /\ pc'[h] \in AtDecoder => state.path # Wanted(h)
        /\ pc'[h] = "prevName" => state.path = NoPath
        /\ pc'[h] \in {"idle", "prevName", "entry"}
        /\ pc'[h] = "entry" => state.path # NoPath
    BY <1>3, <1>5 DEF LoadState
  <2> QED BY <2>1, <2>2 DEF HandlerInv, Wanted, Took, Prev
<1>6. CASE readSourceName(h)
  <2>1. /\ job'[h].st.path = job[h].st.path /\ job'[h].after = job[h].after
        /\ job'[h].st.prev.name = name /\ UNCHANGED <<state, name, mode>>
    BY <1>2, <1>3, <1>6 DEF readSourceName, Job, DecoderState, Selection, files
  <2>2. pc[h] = "prevName" /\ pc'[h] = "prevMode" BY <1>3, <1>6 DEF readSourceName
  <2> QED BY <1>2, <2>1, <2>2 DEF HandlerInv, Wanted, Took, Prev
<1>7. CASE readSettings(h)
  <2>1. /\ job'[h].st.path = job[h].st.path /\ job'[h].after = job[h].after
        /\ job'[h].st.prev.name = job[h].st.prev.name
        /\ job'[h].st.prev.mode = mode /\ UNCHANGED <<state, name, mode>>
    BY <1>2, <1>3, <1>7 DEF readSettings, Job, DecoderState, Selection, files
  <2>2. pc[h] = "prevMode" /\ pc'[h] = "entry" BY <1>3, <1>7 DEF readSettings
  <2> QED BY <1>2, <2>1, <2>2 DEF HandlerInv, Wanted, Took, Prev
<1>8. CASE writeList(h) \/ writeSettings(h)
  <2>1. UNCHANGED <<state, job, name>> BY <1>8 DEF writeList, writeSettings
  <2>2. CASE writeList(h)
    BY <1>2, <1>3, <2>1, <2>2 DEF writeList, HandlerInv, Wanted, Took, Prev
  <2>3. CASE writeSettings(h)
    <3>1. Wanted(h) = NoPath => mode' = Plain(Prev(h)).mode
      <4>1. Prev(h) \in Selection BY <1>2 DEF Prev, Job, DecoderState
      <4> QED BY <2>3, <4>1 DEF writeSettings, Plain, Selection
    <3>2. pc[h] = "mode" /\ pc'[h] = "name" BY <1>3, <2>3 DEF writeSettings
    <3> QED BY <1>2, <2>1, <3>1, <3>2 DEF HandlerInv, Wanted, Took, Prev
  <2> QED BY <1>8, <2>2, <2>3
<1>9. CASE writeSourceName(h)
  BY <1>2, <1>3, <1>9 DEF writeSourceName, HandlerInv, Wanted, Took, Prev
<1>10. CASE NotRemoved(h)
  BY <1>2, <1>3, <1>10 DEF NotRemoved, HandlerInv, Wanted, Took, Prev, files
<1>11. CASE saveState(h) \/ Restart(h) \/ GiveUp(h)
  <2>1. pc'[h] \notin AtDecoder BY <1>3, <1>11 DEF saveState, Restart, GiveUp
  <2> QED BY <2>1 DEF HandlerInv
<1> QED BY <1>4, <1>5, <1>6, <1>7, <1>8, <1>9, <1>10, <1>11 DEF Apply

(* So does everything else.                                                 *)
LEMMA OtherKeeps ==
    ASSUME IndInv, OneByOne,
           \/ \E h \in Handlers : handleConfig(h) \/ handleDisplay(h)
           \/ OwnerSelects \/ PPAppStarts \/ HubStarts \/ HubDies \/ Killed \/ PowerCut
    PROVE  HomeInv'
<1>1. ASSUME NEW h \in Handlers, NEW c, Request(h, c) PROVE HomeInv'
  <2>1. pc'[h] = "config" BY <1>1 DEF Request, GoTo, IndInv, TypeOK, RequestType
  <2>2. HandlerInv(h)' BY <2>1 DEF HandlerInv, AtDecoder
  <2> QED BY <2>2, OnlyOne
<1>2. CASE \E h \in Handlers : handleConfig(h) \/ handleDisplay(h)
  BY <1>1, <1>2 DEF handleConfig, handleDisplay
<1>3. CASE OwnerSelects
  BY <1>3 DEF OwnerSelects, Idle, HomeInv, HandlerInv, AtDecoder
<1>4. CASE PPAppStarts \/ HubStarts \/ HubDies
  BY <1>4 DEF PPAppStarts, HubStarts, HubDies, files, IndInv, HomeInv, HandlerInv, Wanted, Took, Prev
<1>5. CASE Killed \/ PowerCut
  BY <1>5 DEF Killed, PowerCut, Lost, HomeInv, HandlerInv, AtDecoder
<1> QED BY <1>2, <1>3, <1>4, <1>5

(* With one save at a time, what a request remembers is what it found.      *)
THEOREM Invariance == ASSUME OneByOne PROVE Spec => []IndInv
<1>1. Init => IndInv BY InitInd
<1>2. IndInv /\ [Next]_vars => HomeInv'
  <2>1. IndInv /\ UNCHANGED vars => HomeInv'
    BY DEF IndInv, HomeInv, HandlerInv, vars, files, Wanted, Took, Prev
  <2> QED BY <2>1, ApplyKeeps, OtherKeeps DEF Next
<1> QED BY <1>1, <1>2, TypesHold, PTL DEF Spec, IndInv

-----------------------------------------------------------------------------
(* Home read for the one request there is, before and after a step.         *)
LEMMA HomeIs ==
    ASSUME OneByOne, NEW h \in Handlers
    PROVE  /\ Home = IF state.path # NoPath THEN Plain(state.prev)
                     ELSE IF Taking(h) THEN Plain(Prev(h)) ELSE Plain(Files)
           /\ Home' = IF state'.path # NoPath THEN Plain(state'.prev)
                      ELSE IF Taking(h)' THEN Plain(Prev(h)') ELSE Plain(Files')
<1>1. Taking(h) => (CHOOSE g \in Handlers : Taking(g)) = h
  BY DEF OneByOne
<1>2. Taking(h)' => (CHOOSE g \in Handlers : Taking(g)') = h
  BY DEF OneByOne
<1>3. ((\E g \in Handlers : Taking(g)) <=> Taking(h)) /\ ((\E g \in Handlers : Taking(g)') <=> Taking(h)')
  BY DEF OneByOne
<1>4. Home = IF state.path # NoPath THEN Plain(state.prev)
             ELSE IF Taking(h) THEN Plain(Prev(h)) ELSE Plain(Files)
  BY <1>1, <1>3 DEF Home
<1>5. Home' = IF state'.path # NoPath THEN Plain(state'.prev)
              ELSE IF Taking(h)' THEN Plain(Prev(h)') ELSE Plain(Files')
  BY <1>2, <1>3 DEF Home
<1> QED BY <1>4, <1>5

(* A step of a save leaves the owner's selection alone; saving the state    *)
(* lends the decoder, moves the loan or ends it.                            *)
LEMMA ApplyRefines ==
    ASSUME IndInv, OneByOne, NEW h \in Handlers, Apply(h), ~Loses(h)
    PROVE  Home' = Home /\ state'.path \in Paths \cup {NoPath}
<1> USE DEF IndInv, At, GoTo
<1>1. HandlerInv(h) /\ job[h] \in Job BY DEF HomeInv, TypeOK, RequestType
<1>2. pc \in [Handlers -> Places] /\ job \in [Handlers -> Job] /\ state.path \in Paths \cup {NoPath}
  BY DEF TypeOK, RequestType, DecoderType, DecoderState
<1>3. CASE SaveConfig(h) \/ RenderYml(h) \/ SwitchHub(h) \/ LoadState(h) \/ readSourceName(h)
           \/ readSettings(h) \/ Restart(h)
  <2>1. ~Taking(h) /\ ~Taking(h)' /\ UNCHANGED <<mode, name, state>>
    BY <1>2, <1>3 DEF Taking, SaveConfig, RenderYml, SwitchHub, ThenSync, LoadState,
       readSourceName, readSettings, Restart, files
  <2> QED BY <1>2, <2>1, HomeIs DEF Files
<1>4. CASE writeList(h)
  <2>1. ~Taking(h) /\ Taking(h)' /\ UNCHANGED <<mode, name, state, job>>
    BY <1>2, <1>4 DEF Taking, writeList
  <2>2. CASE state.path = NoPath
    <3>1. Prev(h).name = name /\ Prev(h).mode = mode /\ Prev(h) \in Selection
      BY <1>1, <1>4, <2>2 DEF writeList, HandlerInv, AtDecoder, Took, Prev, Job, DecoderState
    <3>2. Prev(h) = Files BY <3>1 DEF Files, Selection
    <3> QED BY <1>2, <2>1, <2>2, <3>2, HomeIs DEF Prev
  <2>3. CASE state.path # NoPath BY <1>2, <2>1, <2>3, HomeIs
  <2> QED BY <2>2, <2>3
<1>5. CASE writeSettings(h) \/ writeSourceName(h)
  <2>1. Taking(h) /\ Taking(h)' /\ UNCHANGED <<state, job>>
    BY <1>2, <1>5 DEF Taking, writeSettings, writeSourceName
  <2> QED BY <1>2, <2>1, HomeIs DEF Prev
<1>6. CASE saveState(h)
  <2>1. pc[h] = "record" /\ pc'[h] = "restart" /\ UNCHANGED <<mode, name, job>>
    BY <1>2, <1>6 DEF saveState
  <2>2. Wanted(h) \in Paths \cup {NoPath} BY <1>1, JobParts DEF Wanted, Shows
  <2>3. Prev(h) \in Selection /\ Plain(Prev(h)) \in Selection
    BY <1>1 DEF Prev, Job, DecoderState, Selection, Modes, Plain
  <2>4. CASE Wanted(h) # NoPath
    <3>1. state'.path = Wanted(h) /\ state'.prev = Prev(h)
      BY <1>1, <1>6, <2>4 DEF saveState, Prev, Job, DecoderState
    <3>2. Home = Plain(Prev(h))
      BY <1>1, <2>1, HomeIs DEF HandlerInv, AtDecoder, Took, Prev, Taking
    <3> QED BY <2>2, <2>4, <3>1, <3>2, HomeIs
  <2>5. CASE Wanted(h) = NoPath
    <3>1. state' = Nothing /\ ~Taking(h)' BY <1>6, <2>1, <2>5 DEF saveState, Taking
    <3>2. Home' = Plain(Files) BY <2>1, <3>1, HomeIs DEF Nothing, Files
    <3>3. state.path # NoPath /\ state.prev = Prev(h)
      BY <1>1, <2>1, <2>5 DEF HandlerInv, AtDecoder, Took, Prev
    <3>4. mode = Plain(Prev(h)).mode /\ name = Plain(Prev(h)).name
      BY <1>1, <2>1, <2>3, <2>5 DEF HandlerInv, Plain, Selection, Loses
    <3>5. mode # "unset" BY <2>3, <3>4 DEF Plain, Selection
    <3>6. Plain(Files) = [mode |-> mode, name |-> name] BY <3>5 DEF Plain, Files
    <3>7. Plain(Prev(h)) = [mode |-> mode, name |-> name] BY <2>3, <3>4 DEF Selection
    <3> QED BY <3>1, <3>2, <3>3, <3>6, <3>7, HomeIs DEF Nothing
  <2> QED BY <2>4, <2>5
<1>7. CASE NotRemoved(h)
  <2>1. UNCHANGED <<state, mode, name>> /\ state.path # NoPath
    BY <1>1, <1>7 DEF NotRemoved, files, HandlerInv, AtDecoder
  <2> QED BY <1>2, <2>1, HomeIs
<1>8. CASE GiveUp(h)
  <2>1. ~Taking(h)' /\ UNCHANGED <<mode, name, state>> /\ (Taking(h) => state.path # NoPath)
    BY <1>2, <1>8 DEF Taking, GiveUp, files, Loses
  <2> QED BY <1>2, <2>1, HomeIs DEF Files
<1> QED BY <1>3, <1>4, <1>5, <1>6, <1>7, <1>8 DEF Apply

(* Only the owner changes the selection, and only while nothing is lent.    *)
LEMMA OtherRefines ==
    ASSUME IndInv, OneByOne,
           \/ \E h \in Handlers : handleConfig(h) \/ handleDisplay(h)
           \/ OwnerSelects \/ PPAppStarts \/ HubStarts \/ HubDies \/ Killed \/ PowerCut,
           ~\E h \in Handlers : Loses(h)
    PROVE  Promise!Next \/ UNCHANGED <<Home, state.path>>
<1> USE DEF Promise!Next
<1>1. ASSUME NEW h \in Handlers, NEW c, Request(h, c) PROVE UNCHANGED <<Home, state.path>>
  <2>1. ~Taking(h) /\ ~Taking(h)' /\ UNCHANGED <<mode, name, state>>
    BY <1>1 DEF Request, Taking, At, GoTo, files, IndInv, TypeOK, RequestType
  <2> QED BY <2>1, HomeIs DEF Files
<1>2. CASE \E h \in Handlers : handleConfig(h) \/ handleDisplay(h)
  BY <1>1, <1>2 DEF handleConfig, handleDisplay
<1>3. CASE OwnerSelects
  <2>1. \A h \in Handlers : ~Taking(h) /\ ~Taking(h)' BY <1>3 DEF OwnerSelects, Idle, Taking
  <2>2. UNCHANGED state BY <1>3 DEF OwnerSelects
  <2>3. CASE state.path # NoPath BY <2>2, <2>3 DEF Home
  <2>4. CASE state.path = NoPath
    <3>1. Home' = Plain(Files') BY <2>1, <2>2, <2>4 DEF Home
    <3>2. Files' = [mode |-> "NDI", name |-> name'] /\ name' \in Sources
      BY <1>3 DEF OwnerSelects, Files
    <3>3. Home' \in [mode : {"NDI"}, name : Sources \cup {NoPath}] BY <3>1, <3>2 DEF Plain
    <3> QED BY <2>2, <2>4, <3>3 DEF Promise!Choose
  <2> QED BY <2>3, <2>4
<1>4. CASE PPAppStarts \/ HubStarts \/ HubDies
  <2>1. UNCHANGED <<state, mode, name, pc, job>>
    BY <1>4 DEF PPAppStarts, HubStarts, HubDies, files
  <2> QED BY <2>1 DEF Home, Taking, Prev, Files
<1>5. CASE Killed \/ PowerCut
  <2>1. UNCHANGED <<mode, name, state>> /\ \A h \in Handlers : pc'[h] = "idle"
    BY <1>5 DEF Killed, PowerCut, Lost, files
  <2>2. \A h \in Handlers : ~Taking(h)' /\ (Taking(h) => state.path # NoPath)
    BY <2>1 DEF Taking, Loses
  <2>3. CASE state.path # NoPath BY <2>1, <2>3 DEF Home
  <2>4. CASE state.path = NoPath
    <3>1. Home = Plain(Files) BY <2>2, <2>4 DEF Home
    <3>2. Home' = Plain(Files') BY <2>1, <2>2, <2>4 DEF Home
    <3> QED BY <2>1, <3>1, <3>2 DEF Files
  <2> QED BY <2>1, <2>3, <2>4
<1> QED BY <1>2, <1>3, <1>4, <1>5

(* decoder.go 25-27: what the owner had selected comes back, if one save at *)
(* a time is applied, but for the two steps of Loses.                       *)
THEOREM OwnersSelectionIsKept == ASSUME OneByOne PROVE Spec => HomeIsKept
<1>1. Init => Promise!Init
  <2> SUFFICES ASSUME Init PROVE Promise!Init OBVIOUS
  <2>1. state.path = NoPath BY DEF Init, Nothing
  <2>2. Home = Plain(Files) BY <2>1 DEF Init, Home, Taking
  <2>3. Home \in [mode : {"NDI"}, name : Sources \cup {NoPath}]
    BY <2>2 DEF Init, Files, Plain
  <2> QED BY <2>1, <2>3 DEF Promise!Init
<1> DEFINE Step == (\E h \in Handlers : Loses(h)) \/ Promise!Next \/ UNCHANGED <<Home, state.path>>
<1>2. IndInv /\ [Next]_vars => [Step]_vars
  <2>1. ASSUME IndInv, NEW h \in Handlers, Apply(h), ~Loses(h)
        PROVE  Promise!Next \/ UNCHANGED <<Home, state.path>>
    BY <2>1, ApplyRefines DEF Promise!Next, Promise!Lend, Promise!Return
  <2> QED BY <2>1, OtherRefines DEF Next
<1> HIDE DEF Step
<1>3. Spec => Promise!Init /\ [][Step]_vars BY <1>1, <1>2, Invariance, PTL DEF Spec
<1> QED BY <1>3 DEF HomeIsKept, Step

-----------------------------------------------------------------------------
(* How far a save has come, and what it has reached by then.                *)
Saved    == {"yml", "hub", "load"} \cup AtDecoder \cup {"restart"}
Rendered == Saved \ {"yml"}
Listed   == {"mode", "name", "record", "restart"}

Reached(h) ==
    /\ state.path = Wanted(h)
    /\ Wanted(h) # job[h].st.path => running = Files /\ list = {Wanted(h)} \ {NoPath}

TakenBy(h) ==
    /\ pc[h] \in Saved => config = job[h].after
    /\ pc[h] \in Rendered => yml = job[h].after
    /\ pc[h] \in Listed => list = {Wanted(h)} \ {NoPath}
    /\ pc[h] = "restart" => state.path = Wanted(h)
    /\ pc[h] = "idle" /\ ~job[h].warned /\ job[h].before # job[h].after =>
           config = job[h].after /\ yml = job[h].after /\ Reached(h)

TakenInv == \A h \in Handlers : TakenBy(h)

LEMMA OnlyTaken == ASSUME OneByOne, NEW h \in Handlers, TakenBy(h)' PROVE TakenInv'
  BY DEF OneByOne, TakenInv

(* A save gets on step by step, or ends with a warning.                     *)
LEMMA ApplyTakes == ASSUME TypeOK, TakenInv, OneByOne, NEW h \in Handlers, Apply(h) PROVE TakenInv'
<1> USE DEF At, GoTo, AtDecoder, Saved, Rendered, Listed
<1>1. SUFFICES TakenBy(h)' BY OnlyTaken
<1>2. TakenBy(h) /\ job[h] \in Job BY DEF TakenInv, TypeOK, RequestType
<1>3. pc \in [Handlers -> Places] /\ job \in [Handlers -> Job] BY DEF TypeOK, RequestType
<1>4. CASE SaveConfig(h)
  BY <1>3, <1>4 DEF SaveConfig, TakenBy
<1>5. CASE RenderYml(h)
  BY <1>2, <1>3, <1>5 DEF RenderYml, TakenBy
<1>6. CASE SwitchHub(h)
  <2>1. job'[h].before = job[h].before /\ job'[h].after = job[h].after
    BY <1>2, <1>3, <1>6 DEF SwitchHub, SwitchUnit, Warn, Job
  <2>2. pc[h] = "hub" /\ UNCHANGED <<config, yml>>
        /\ pc'[h] = IF job[h].before # job[h].after THEN "load" ELSE "idle"
    BY <1>3, <1>6 DEF SwitchHub, ThenSync
  <2> QED BY <1>2, <2>1, <2>2 DEF TakenBy
<1>7. CASE LoadState(h)
  <2>1. /\ job'[h].st = state /\ job'[h].after = job[h].after /\ pc[h] = "load"
        /\ UNCHANGED <<config, yml, state>>
    BY <1>3, <1>7 DEF LoadState, Job, files, mtx
  <2>2. pc'[h] \in {"idle", "prevName", "entry"} /\ (pc'[h] = "idle" => state.path = Wanted(h))
    BY <1>3, <1>7 DEF LoadState
  <2> QED BY <1>2, <2>1, <2>2 DEF TakenBy, Reached, Wanted
<1>8. CASE readSourceName(h) \/ readSettings(h)
  <2>1. /\ job'[h].after = job[h].after /\ pc[h] \in {"prevName", "prevMode"}
        /\ pc'[h] \in {"prevMode", "entry"} /\ UNCHANGED <<config, yml>>
    BY <1>2, <1>3, <1>8 DEF readSourceName, readSettings, Job, mtx
  <2> QED BY <1>2, <2>1 DEF TakenBy
<1>9. CASE writeList(h) \/ writeSettings(h) \/ writeSourceName(h) \/ NotRemoved(h)
  <2>1. /\ UNCHANGED <<config, yml, job>> /\ pc[h] \in {"entry"} \cup Listed
        /\ pc'[h] \in {"mode", "name", "record"}
    BY <1>3, <1>9 DEF writeList, writeSettings, writeSourceName, NotRemoved, mtx
  <2>2. list' = {Wanted(h)} \ {NoPath}
    BY <1>2, <1>3, <1>9 DEF writeList, writeSettings, writeSourceName, NotRemoved, files, TakenBy
  <2> QED BY <1>2, <2>1, <2>2 DEF TakenBy, Wanted
<1>10. CASE saveState(h)
  <2>1. UNCHANGED <<config, yml, job, list>> /\ pc[h] = "record" /\ pc'[h] = "restart"
    BY <1>3, <1>10 DEF saveState, mtx
  <2>2. state'.path = Wanted(h)
    <3>1. [job[h].st EXCEPT !.path = Wanted(h)].path = Wanted(h)
      BY <1>2, JobParts DEF DecoderState
    <3> QED BY <1>10, <3>1 DEF saveState, Nothing
  <2> QED BY <1>2, <2>1, <2>2 DEF TakenBy, Wanted
<1>11. CASE Restart(h)
  <2>1. UNCHANGED <<config, yml, job, files>> /\ pc[h] = "restart" /\ pc'[h] = "idle" /\ running' = Files
    BY <1>3, <1>11 DEF Restart, mtx
  <2> QED BY <1>2, <2>1 DEF TakenBy, Reached, Wanted, Files, files
<1>12. CASE GiveUp(h)
  <2>1. pc'[h] = "idle" /\ job'[h].warned
    BY <1>2, <1>3, <1>12 DEF GiveUp, Warn, Job
  <2> QED BY <2>1 DEF TakenBy
<1> QED BY <1>4, <1>5, <1>6, <1>7, <1>8, <1>9, <1>10, <1>11, <1>12 DEF Apply

(* Nothing around a save undoes it: PPApp reads its files whenever it       *)
(* starts, MediaMTX its config, and a save that is cut off is not answered. *)
LEMMA OtherTakes ==
    ASSUME TypeOK, TakenInv, OneByOne,
           \/ \E h \in Handlers : handleConfig(h) \/ handleDisplay(h)
           \/ OwnerSelects \/ PPAppStarts \/ HubStarts \/ HubDies \/ Killed \/ PowerCut
    PROVE  TakenInv'
<1>1. ASSUME NEW h \in Handlers, NEW c, Request(h, c) PROVE TakenInv'
  <2>1. pc'[h] = "config" BY <1>1 DEF Request, GoTo, TypeOK, RequestType
  <2>2. TakenBy(h)' BY <2>1 DEF TakenBy, Saved, Rendered, Listed, AtDecoder
  <2> QED BY <2>2, OnlyTaken
<1>2. CASE \E h \in Handlers : handleConfig(h) \/ handleDisplay(h)
  BY <1>1, <1>2 DEF handleConfig, handleDisplay
<1>3. CASE OwnerSelects \/ PPAppStarts
  <2>1. UNCHANGED <<config, yml, list, state, pc, job>> /\ running' = Files'
    BY <1>3 DEF OwnerSelects, PPAppStarts, files, mtx, Files
  <2> QED BY <2>1 DEF TakenInv, TakenBy, Reached, Wanted
<1>4. CASE HubStarts \/ HubDies
  <2>1. UNCHANGED <<config, files, running, pc, job>> /\ (yml' = yml \/ yml' = config)
    BY <1>4 DEF HubStarts, HubDies
  <2> QED BY <2>1 DEF TakenInv, TakenBy, Reached, Wanted, files, Files, Saved, Rendered
<1>5. CASE Killed \/ PowerCut
  <2>1. UNCHANGED <<config, yml, files>> /\ (running' = running \/ running' = Files)
    BY <1>5 DEF Killed, PowerCut, mtx
  <2> SUFFICES ASSUME NEW h \in Handlers PROVE TakenBy(h)' BY DEF TakenInv
  <2>2. /\ pc'[h] = "idle" /\ job'[h].before = job[h].before /\ job'[h].after = job[h].after
        /\ job'[h].st = job[h].st /\ (~job'[h].warned => ~job[h].warned /\ pc[h] = "idle")
    <3>1. pc'[h] = "idle" /\ job'[h] = [job[h] EXCEPT !.warned = @ \/ pc[h] # "idle"]
      BY <1>5 DEF Killed, PowerCut, Lost
    <3>2. job[h] \in Job BY DEF TypeOK, RequestType
    <3>3. /\ job'[h].before = job[h].before /\ job'[h].after = job[h].after /\ job'[h].st = job[h].st
          /\ job'[h].warned = (job[h].warned \/ pc[h] # "idle")
      BY <3>1, <3>2 DEF Job
    <3> QED BY <3>1, <3>3
  <2> QED BY <2>1, <2>2
          DEF TakenInv, TakenBy, Reached, Wanted, files, Files, Saved, Rendered, Listed, AtDecoder
<1> QED BY <1>2, <1>3, <1>4, <1>5

(* A save that is answered without a warning (serve.go, apply) is in        *)
(* effect, in mediamtx.yml, in decoder-state.json and in PPApp, whatever    *)
(* failed, was cut off or was selected before, if one save at a time is     *)
(* applied.                                                                 *)
THEOREM SavesAreTaken == ASSUME OneByOne PROVE Spec => []ChangeIsTaken
<1>1. Init => TakenInv
  BY DEF Init, TakenInv, TakenBy, Saved, Rendered, Listed, AtDecoder
<1>2. TypeOK /\ TakenInv /\ [Next]_vars => TakenInv'
  <2>1. TakenInv /\ UNCHANGED vars => TakenInv'
    BY DEF TakenInv, TakenBy, Reached, Wanted, Files, vars, files, mtx
  <2> QED BY <2>1, ApplyTakes, OtherTakes DEF Next
<1>3. TakenInv => ChangeIsTaken
  BY DEF TakenInv, TakenBy, Reached, ChangeIsTaken, Answered, Idle, Wanted
<1> QED BY <1>1, <1>2, <1>3, TypesHold, PTL DEF Spec

=============================================================================
