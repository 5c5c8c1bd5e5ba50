------------------------ MODULE OutputRunner_proofs ------------------------
(***************************************************************************)
(* Proofs about OutputRunner, for any callers and formats and any number   *)
(* of trials: every trial has somebody to end it, restarts exclude each    *)
(* other, only Keep keeps; and, with a disk that works, PPApp is on a      *)
(* format nobody kept only while it is tried.                              *)
(***************************************************************************)
EXTENDS OutputRunner, TLAPS

USE RunnerAssumption DEF disk, fields, actors, world

(* A box that has never run satisfies the invariant.                        *)
LEMMA InitInd == ASSUME Init PROVE IndInv
<1> USE DEF Init
<1>1. TypeOK
  <2>1. cfg \in Config /\ shim \in Config BY DEF Config
  <2>2. gen \in 0..MaxTrials OBVIOUS
  <2>3. FieldType BY <2>2 DEF FieldType
  <2>4. ActorType BY DEF ActorType, Places
  <2>5. WorldType BY DEF WorldType
  <2> QED BY <2>1, <2>3, <2>4, <2>5 DEF TypeOK
<1>2. DownInv /\ MutexInv BY DEF DownInv, MutexInv
<1>3. OneRestart BY DEF OneRestart, Restarting
<1>4. TimerInv BY DEF TimerInv, Starting, Gens, Actors
<1>5. TrialInv BY DEF TrialInv
<1> QED BY <1>1, <1>2, <1>3, <1>4, <1>5 DEF IndInv

-----------------------------------------------------------------------------
(* A request of a handler (TryFormat, Keep, Revert, SetAOI, RestartDecoder) *)
(* keeps the types.                                                         *)
LEMMA RequestTypes == ASSUME IndInv, NEW a \in Callers, Request(a) PROVE TypeOK'
<1> USE DEF IndInv, TypeOK
<1>1. ASSUME NEW f \in Formats, TryKept(a, f) PROVE TypeOK'
  <2>1. cfg' \in Config /\ shim' \in Config BY <1>1 DEF TryKept, Free, StopTrial, GoTo, Config, FieldType
  <2>2. trial' \in Formats \cup {None} /\ gen' \in 0..MaxTrials BY <1>1 DEF TryKept, Free, StopTrial, GoTo, FieldType
  <2>3. busy' \in BOOLEAN BY <1>1 DEF TryKept, Free, StopTrial, GoTo, FieldType
  <2>4. armed' \subseteq Gens BY <1>1 DEF TryKept, Free, StopTrial, GoTo, FieldType
  <2>5. ActorType' BY <1>1 DEF TryKept, Free, StopTrial, GoTo, ActorType, Places, FieldType, Actors, Gens
  <2>6. WorldType' BY <1>1 DEF TryKept, Free, StopTrial, GoTo, WorldType, Config
  <2> QED BY <2>1, <2>2, <2>3, <2>4, <2>5, <2>6 DEF FieldType
<1>2. ASSUME NEW f \in Formats, Try(a, f) PROVE TypeOK'
  <2>1. cfg' \in Config /\ shim' \in Config BY <1>2 DEF Try, Free, WriteShim, WriteFails, GoTo, Config, FieldType
  <2>2. trial' \in Formats \cup {None} /\ gen' \in 0..MaxTrials BY <1>2 DEF Try, Free, WriteShim, WriteFails, GoTo, FieldType
  <2>3. busy' \in BOOLEAN BY <1>2 DEF Try, Free, WriteShim, WriteFails, GoTo, FieldType
  <2>4. armed' \subseteq Gens BY <1>2 DEF Try, Free, WriteShim, WriteFails, GoTo, FieldType
  <2>5. ActorType' BY <1>2 DEF Try, Free, WriteShim, WriteFails, GoTo, ActorType, Places, FieldType, Actors, Gens
  <2>6. WorldType' BY <1>2 DEF Try, Free, WriteShim, WriteFails, GoTo, WorldType, Config
  <2> QED BY <2>1, <2>2, <2>3, <2>4, <2>5, <2>6 DEF FieldType
<1>3. CASE Keep(a)
  <2>1. cfg' \in Config /\ shim' \in Config BY <1>3 DEF Keep, Free, StopTrial, Config, FieldType
  <2>2. trial' \in Formats \cup {None} /\ gen' \in 0..MaxTrials BY <1>3 DEF Keep, Free, StopTrial, FieldType
  <2>3. busy' \in BOOLEAN BY <1>3 DEF Keep, Free, StopTrial, FieldType
  <2>4. armed' \subseteq Gens BY <1>3 DEF Keep, Free, StopTrial, FieldType
  <2>5. ActorType' BY <1>3 DEF Keep, Free, StopTrial, ActorType, Places, FieldType, Actors, Gens
  <2>6. WorldType' BY <1>3 DEF Keep, Free, StopTrial, WorldType, Config
  <2> QED BY <2>1, <2>2, <2>3, <2>4, <2>5, <2>6 DEF FieldType
<1>4. CASE Revert(a)
  <2>1. cfg' \in Config /\ shim' \in Config BY <1>4 DEF Revert, Free, GoTo, Config, FieldType
  <2>2. trial' \in Formats \cup {None} /\ gen' \in 0..MaxTrials BY <1>4 DEF Revert, Free, GoTo, FieldType
  <2>3. busy' \in BOOLEAN BY <1>4 DEF Revert, Free, GoTo, FieldType
  <2>4. armed' \subseteq Gens BY <1>4 DEF Revert, Free, GoTo, FieldType
  <2>5. ActorType' BY <1>4 DEF Revert, Free, GoTo, ActorType, Places, FieldType, Actors, Gens
  <2>6. WorldType' BY <1>4 DEF Revert, Free, GoTo, WorldType, Config
  <2> QED BY <2>1, <2>2, <2>3, <2>4, <2>5, <2>6 DEF FieldType
<1>5. CASE SetAOI(a)
  <2>1. cfg' \in Config /\ shim' \in Config BY <1>5 DEF SetAOI, Free, GoTo, Config, FieldType
  <2>2. trial' \in Formats \cup {None} /\ gen' \in 0..MaxTrials BY <1>5 DEF SetAOI, Free, GoTo, FieldType
  <2>3. busy' \in BOOLEAN BY <1>5 DEF SetAOI, Free, GoTo, FieldType
  <2>4. armed' \subseteq Gens BY <1>5 DEF SetAOI, Free, GoTo, FieldType
  <2>5. ActorType' BY <1>5 DEF SetAOI, Free, GoTo, ActorType, Places, FieldType, Actors, Gens
  <2>6. WorldType' BY <1>5 DEF SetAOI, Free, GoTo, WorldType, Config
  <2> QED BY <2>1, <2>2, <2>3, <2>4, <2>5, <2>6 DEF FieldType
<1>6. CASE RestartDecoder(a)
  <2>1. cfg' \in Config /\ shim' \in Config BY <1>6 DEF RestartDecoder, Free, GoTo, Config, FieldType
  <2>2. trial' \in Formats \cup {None} /\ gen' \in 0..MaxTrials BY <1>6 DEF RestartDecoder, Free, GoTo, FieldType
  <2>3. busy' \in BOOLEAN BY <1>6 DEF RestartDecoder, Free, GoTo, FieldType
  <2>4. armed' \subseteq Gens BY <1>6 DEF RestartDecoder, Free, GoTo, FieldType
  <2>5. ActorType' BY <1>6 DEF RestartDecoder, Free, GoTo, ActorType, Places, FieldType, Actors, Gens
  <2>6. WorldType' BY <1>6 DEF RestartDecoder, Free, GoTo, WorldType, Config
  <2> QED BY <2>1, <2>2, <2>3, <2>4, <2>5, <2>6 DEF FieldType
<1> QED BY <1>1, <1>2, <1>3, <1>4, <1>5, <1>6 DEF Request, Continue, Process

(* So does what an actor goes on with once it has mu or PPApp's answer.     *)
LEMMA ContinueTypes == ASSUME IndInv, NEW a \in Actors, Continue(a) PROVE TypeOK'
<1> USE DEF IndInv, TypeOK
<1>1. CASE WriteKept(a)
  <2>1. cfg' \in Config /\ shim' \in Config BY <1>1 DEF WriteKept, WriteConf, WriteShim, WriteFails, RestartIf, GoTo, Config, FieldType
  <2>2. trial' \in Formats \cup {None} /\ gen' \in 0..MaxTrials BY <1>1 DEF WriteKept, WriteConf, WriteShim, WriteFails, RestartIf, GoTo, FieldType
  <2>3. busy' \in BOOLEAN BY <1>1 DEF WriteKept, WriteConf, WriteShim, WriteFails, RestartIf, GoTo, FieldType
  <2>4. armed' \subseteq Gens BY <1>1 DEF WriteKept, WriteConf, WriteShim, WriteFails, RestartIf, GoTo, FieldType
  <2>5. ActorType' BY <1>1 DEF WriteKept, WriteConf, WriteShim, WriteFails, RestartIf, GoTo, ActorType, Places, FieldType, Actors, Gens
  <2>6. WorldType' BY <1>1 DEF WriteKept, WriteConf, WriteShim, WriteFails, RestartIf, GoTo, WorldType, Config
  <2> QED BY <2>1, <2>2, <2>3, <2>4, <2>5, <2>6 DEF FieldType
<1>2. CASE WriteAOI(a)
  <2>1. Active \in Formats BY DEF Active, Config, FieldType
  <2>2. cfg' \in Config /\ shim' \in Config BY <1>2, <2>1 DEF WriteAOI, WriteShim, WriteFails, GoTo, Config, FieldType
  <2>3. trial' \in Formats \cup {None} /\ gen' \in 0..MaxTrials BY <1>2, <2>1 DEF WriteAOI, WriteShim, WriteFails, GoTo, FieldType
  <2>4. busy' \in BOOLEAN BY <1>2, <2>1 DEF WriteAOI, WriteShim, WriteFails, GoTo, FieldType
  <2>5. armed' \subseteq Gens BY <1>2, <2>1 DEF WriteAOI, WriteShim, WriteFails, GoTo, FieldType
  <2>6. ActorType' BY <1>2, <2>1 DEF WriteAOI, WriteShim, WriteFails, GoTo, ActorType, Places, FieldType, Actors, Gens
  <2>7. WorldType' BY <1>2, <2>1 DEF WriteAOI, WriteShim, WriteFails, GoTo, WorldType, Config
  <2> QED BY <2>2, <2>3, <2>4, <2>5, <2>6, <2>7 DEF FieldType
<1>3. CASE Settle(a)
  <2>1. trial # None => gen \in Gens BY DEF TrialInv, FieldType, Gens
  <2>2. cfg' \in Config /\ shim' \in Config BY <1>3, <2>1 DEF Settle, WriteConf, WriteShim, WriteFails, Countdown, GoTo, Config, FieldType
  <2>3. trial' \in Formats \cup {None} /\ gen' \in 0..MaxTrials BY <1>3, <2>1 DEF Settle, WriteConf, WriteShim, WriteFails, Countdown, GoTo, FieldType
  <2>4. busy' \in BOOLEAN BY <1>3, <2>1 DEF Settle, WriteConf, WriteShim, WriteFails, Countdown, GoTo, FieldType
  <2>5. armed' \subseteq Gens BY <1>3, <2>1 DEF Settle, WriteConf, WriteShim, WriteFails, Countdown, GoTo, FieldType
  <2>6. ActorType' BY <1>3, <2>1 DEF Settle, WriteConf, WriteShim, WriteFails, Countdown, GoTo, ActorType, Places, FieldType, Actors, Gens
  <2>7. WorldType' BY <1>3, <2>1 DEF Settle, WriteConf, WriteShim, WriteFails, Countdown, GoTo, WorldType, Config
  <2> QED BY <2>2, <2>3, <2>4, <2>5, <2>6, <2>7 DEF FieldType
<1>4. CASE GoBack(a)
  <2>1. cfg' \in Config /\ shim' \in Config BY <1>4 DEF GoBack, StaleRevert, StopTrial, WriteConf, WriteShim, WriteFails, RestartIf, GoTo, Config, FieldType
  <2>2. trial' \in Formats \cup {None} /\ gen' \in 0..MaxTrials BY <1>4 DEF GoBack, StaleRevert, StopTrial, WriteConf, WriteShim, WriteFails, RestartIf, GoTo, FieldType
  <2>3. busy' \in BOOLEAN BY <1>4 DEF GoBack, StaleRevert, StopTrial, WriteConf, WriteShim, WriteFails, RestartIf, GoTo, FieldType
  <2>4. armed' \subseteq Gens BY <1>4 DEF GoBack, StaleRevert, StopTrial, WriteConf, WriteShim, WriteFails, RestartIf, GoTo, FieldType
  <2>5. ActorType' BY <1>4 DEF GoBack, StaleRevert, StopTrial, WriteConf, WriteShim, WriteFails, RestartIf, GoTo, ActorType, Places, FieldType, Actors, Gens
  <2>6. WorldType' BY <1>4 DEF GoBack, StaleRevert, StopTrial, WriteConf, WriteShim, WriteFails, RestartIf, GoTo, WorldType, Config
  <2> QED BY <2>1, <2>2, <2>3, <2>4, <2>5, <2>6 DEF FieldType
<1>5. CASE Restart(a)
  <2>1. cfg' \in Config /\ shim' \in Config BY <1>5 DEF Restart, GoTo, Config, FieldType
  <2>2. trial' \in Formats \cup {None} /\ gen' \in 0..MaxTrials BY <1>5 DEF Restart, GoTo, FieldType
  <2>3. busy' \in BOOLEAN BY <1>5 DEF Restart, GoTo, FieldType
  <2>4. armed' \subseteq Gens BY <1>5 DEF Restart, GoTo, FieldType
  <2>5. ActorType' BY <1>5 DEF Restart, GoTo, ActorType, Places, FieldType, Actors, Gens
  <2>6. WorldType' BY <1>5 DEF Restart, GoTo, WorldType, Config
  <2> QED BY <2>1, <2>2, <2>3, <2>4, <2>5, <2>6 DEF FieldType
<1>6. CASE Await(a)
  <2>1. cfg' \in Config /\ shim' \in Config BY <1>6 DEF Await, GoTo, Config, FieldType
  <2>2. trial' \in Formats \cup {None} /\ gen' \in 0..MaxTrials BY <1>6 DEF Await, GoTo, FieldType
  <2>3. busy' \in BOOLEAN BY <1>6 DEF Await, GoTo, FieldType
  <2>4. armed' \subseteq Gens BY <1>6 DEF Await, GoTo, FieldType
  <2>5. ActorType' BY <1>6 DEF Await, GoTo, ActorType, Places, FieldType, Actors, Gens
  <2>6. WorldType' BY <1>6 DEF Await, GoTo, WorldType, Config
  <2> QED BY <2>1, <2>2, <2>3, <2>4, <2>5, <2>6 DEF FieldType
<1>7. CASE Tell(a)
  <2>1. cfg' \in Config /\ shim' \in Config BY <1>7 DEF Tell, GoTo, Config, FieldType
  <2>2. trial' \in Formats \cup {None} /\ gen' \in 0..MaxTrials BY <1>7 DEF Tell, GoTo, FieldType
  <2>3. busy' \in BOOLEAN BY <1>7 DEF Tell, GoTo, FieldType
  <2>4. armed' \subseteq Gens BY <1>7 DEF Tell, GoTo, FieldType
  <2>5. ActorType' BY <1>7 DEF Tell, GoTo, ActorType, Places, FieldType, Actors, Gens
  <2>6. WorldType' BY <1>7 DEF Tell, GoTo, WorldType, Config
  <2> QED BY <2>1, <2>2, <2>3, <2>4, <2>5, <2>6 DEF FieldType
<1> QED BY <1>1, <1>2, <1>3, <1>4, <1>5, <1>6, <1>7 DEF Request, Continue, Process

(* So do --write-conf, Boot and a crash of bdout.                           *)
LEMMA ProcessTypes == ASSUME IndInv, Process PROVE TypeOK'
<1> USE DEF IndInv, TypeOK
<1>1. CASE Crash
  <2>1. cfg' \in Config /\ shim' \in Config BY <1>1 DEF Crash, Gone, Config, FieldType
  <2>2. trial' \in Formats \cup {None} /\ gen' \in 0..MaxTrials BY <1>1 DEF Crash, Gone, FieldType
  <2>3. busy' \in BOOLEAN BY <1>1 DEF Crash, Gone, FieldType
  <2>4. armed' \subseteq Gens BY <1>1 DEF Crash, Gone, FieldType
  <2>5. ActorType' BY <1>1 DEF Crash, Gone, ActorType, Places, FieldType, Actors, Gens
  <2>6. WorldType' BY <1>1 DEF Crash, Gone, WorldType, Config
  <2> QED BY <2>1, <2>2, <2>3, <2>4, <2>5, <2>6 DEF FieldType
<1>2. CASE PowerCut
  <2>1. cfg' \in Config /\ shim' \in Config BY <1>2 DEF PowerCut, Gone, Config, FieldType
  <2>2. trial' \in Formats \cup {None} /\ gen' \in 0..MaxTrials BY <1>2 DEF PowerCut, Gone, FieldType
  <2>3. busy' \in BOOLEAN BY <1>2 DEF PowerCut, Gone, FieldType
  <2>4. armed' \subseteq Gens BY <1>2 DEF PowerCut, Gone, FieldType
  <2>5. ActorType' BY <1>2 DEF PowerCut, Gone, ActorType, Places, FieldType, Actors, Gens
  <2>6. WorldType' BY <1>2 DEF PowerCut, Gone, WorldType, Config
  <2> QED BY <2>1, <2>2, <2>3, <2>4, <2>5, <2>6 DEF FieldType
<1>3. CASE StartPre
  <2>1. cfg' \in Config /\ shim' \in Config BY <1>3 DEF StartPre, WriteConf, WriteShim, WriteFails, Config, FieldType
  <2>2. trial' \in Formats \cup {None} /\ gen' \in 0..MaxTrials BY <1>3 DEF StartPre, WriteConf, WriteShim, WriteFails, FieldType
  <2>3. busy' \in BOOLEAN BY <1>3 DEF StartPre, WriteConf, WriteShim, WriteFails, FieldType
  <2>4. armed' \subseteq Gens BY <1>3 DEF StartPre, WriteConf, WriteShim, WriteFails, FieldType
  <2>5. ActorType' BY <1>3 DEF StartPre, WriteConf, WriteShim, WriteFails, ActorType, Places, FieldType, Actors, Gens
  <2>6. WorldType' BY <1>3 DEF StartPre, WriteConf, WriteShim, WriteFails, WorldType, Config
  <2> QED BY <2>1, <2>2, <2>3, <2>4, <2>5, <2>6 DEF FieldType
<1>4. CASE Boot
  <2>1. cfg' \in Config /\ shim' \in Config BY <1>4 DEF Boot, WriteConf, WriteShim, WriteFails, RestartIf, GoTo, Config, FieldType
  <2>2. trial' \in Formats \cup {None} /\ gen' \in 0..MaxTrials BY <1>4 DEF Boot, WriteConf, WriteShim, WriteFails, RestartIf, GoTo, FieldType
  <2>3. busy' \in BOOLEAN BY <1>4 DEF Boot, WriteConf, WriteShim, WriteFails, RestartIf, GoTo, FieldType
  <2>4. armed' \subseteq Gens BY <1>4 DEF Boot, WriteConf, WriteShim, WriteFails, RestartIf, GoTo, FieldType
  <2>5. ActorType' BY <1>4 DEF Boot, WriteConf, WriteShim, WriteFails, RestartIf, GoTo, ActorType, Places, FieldType, Actors, Gens
  <2>6. WorldType' BY <1>4 DEF Boot, WriteConf, WriteShim, WriteFails, RestartIf, GoTo, WorldType, Config
  <2> QED BY <2>1, <2>2, <2>3, <2>4, <2>5, <2>6 DEF FieldType
<1> QED BY <1>1, <1>2, <1>3, <1>4 DEF Request, Continue, Process

(* So do a timer that fires, PPApp, the source and a power cut.             *)
LEMMA OtherTypes ==
    ASSUME IndInv, Box \/ \E g \in Gens : TimerFires(g)
    PROVE  TypeOK'
<1> USE DEF IndInv, TypeOK
<1>1. CASE Box
  BY <1>1 DEF Box, PPAppStarts, PPAppAsks, PPAppAborts, RunnerStops, RunnerStarts,
              FieldType, ActorType, WorldType, Config
<1>2. ASSUME NEW g \in Gens, TimerFires(g) PROVE TypeOK'
  <2>1. FieldType' BY <1>2 DEF TimerFires, FieldType
  <2>2. ActorType' BY <1>2 DEF TimerFires, GoTo, ActorType, Places, Gens, Actors
  <2>3. WorldType' BY <1>2 DEF TimerFires, WorldType
  <2> QED BY <1>2, <2>1, <2>2, <2>3 DEF TimerFires
<1> QED BY <1>1, <1>2

-----------------------------------------------------------------------------
(* The rest of the invariant, action by action.                             *)

Rest == DownInv /\ MutexInv /\ OneRestart /\ TimerInv /\ TrialInv

(* A request takes mu when it is free, sets busy before it lets it go, and  *)
(* leaves no trial without someone to end it.                               *)
LEMMA RequestPreserves == ASSUME IndInv, NEW a \in Callers, Request(a) PROVE Rest'
<1> USE DEF IndInv, TypeOK, FieldType, ActorType, Gens, Actors
<1>1. ASSUME NEW f \in Formats, TryKept(a, f) PROVE Rest'
  <2>1. DownInv' BY <1>1 DEF TryKept, Free, StopTrial, GoTo, DownInv
  <2>2. MutexInv' BY <1>1 DEF TryKept, Free, StopTrial, GoTo, DownInv, MutexInv
  <2>3. OneRestart' BY <1>1 DEF TryKept, Free, StopTrial, GoTo, DownInv, OneRestart, Restarting, TimerInv
  <2>4. TimerInv' BY <1>1 DEF TryKept, Free, StopTrial, GoTo, DownInv, TimerInv, Starting
  <2>5. TrialInv' BY <1>1 DEF TryKept, Free, StopTrial, GoTo, DownInv, MutexInv, TimerInv, Starting, TrialInv, Owner
  <2> QED BY <2>1, <2>2, <2>3, <2>4, <2>5 DEF Rest
<1>2. ASSUME NEW f \in Formats, Try(a, f) PROVE Rest'
  <2>1. DownInv' BY <1>2 DEF Try, Free, WriteShim, WriteFails, GoTo, DownInv
  <2>2. MutexInv' BY <1>2 DEF Try, Free, WriteShim, WriteFails, GoTo, DownInv, MutexInv
  <2>3. OneRestart' BY <1>2 DEF Try, Free, WriteShim, WriteFails, GoTo, DownInv, OneRestart, Restarting, TimerInv
  <2>4. TimerInv' BY <1>2 DEF Try, Free, WriteShim, WriteFails, GoTo, DownInv, TimerInv, Starting
  <2>5. TrialInv' BY <1>2 DEF Try, Free, WriteShim, WriteFails, GoTo, DownInv, MutexInv, TimerInv, Starting, TrialInv, Owner
  <2> QED BY <2>1, <2>2, <2>3, <2>4, <2>5 DEF Rest
<1>3. CASE Keep(a)
  <2>1. DownInv' BY <1>3 DEF Keep, Free, StopTrial, DownInv
  <2>2. MutexInv' BY <1>3 DEF Keep, Free, StopTrial, DownInv, MutexInv
  <2>3. OneRestart' BY <1>3 DEF Keep, Free, StopTrial, DownInv, OneRestart, Restarting, TimerInv
  <2>4. TimerInv' BY <1>3 DEF Keep, Free, StopTrial, DownInv, TimerInv, Starting
  <2>5. TrialInv' BY <1>3 DEF Keep, Free, StopTrial, DownInv, MutexInv, TimerInv, Starting, TrialInv, Owner
  <2> QED BY <2>1, <2>2, <2>3, <2>4, <2>5 DEF Rest
<1>4. CASE Revert(a)
  <2>1. DownInv' BY <1>4 DEF Revert, Free, GoTo, DownInv
  <2>2. MutexInv' BY <1>4 DEF Revert, Free, GoTo, DownInv, MutexInv
  <2>3. OneRestart' BY <1>4 DEF Revert, Free, GoTo, DownInv, OneRestart, Restarting, TimerInv
  <2>4. TimerInv' BY <1>4 DEF Revert, Free, GoTo, DownInv, TimerInv, Starting
  <2>5. TrialInv' BY <1>4 DEF Revert, Free, GoTo, DownInv, MutexInv, TimerInv, Starting, TrialInv, Owner
  <2> QED BY <2>1, <2>2, <2>3, <2>4, <2>5 DEF Rest
<1>5. CASE SetAOI(a)
  <2>1. DownInv' BY <1>5 DEF SetAOI, Free, GoTo, DownInv
  <2>2. MutexInv' BY <1>5 DEF SetAOI, Free, GoTo, DownInv, MutexInv
  <2>3. OneRestart' BY <1>5 DEF SetAOI, Free, GoTo, DownInv, OneRestart, Restarting, TimerInv
  <2>4. TimerInv' BY <1>5 DEF SetAOI, Free, GoTo, DownInv, TimerInv, Starting
  <2>5. TrialInv' BY <1>5 DEF SetAOI, Free, GoTo, DownInv, MutexInv, TimerInv, Starting, TrialInv, Owner
  <2> QED BY <2>1, <2>2, <2>3, <2>4, <2>5 DEF Rest
<1>6. CASE RestartDecoder(a)
  <2>1. DownInv' BY <1>6 DEF RestartDecoder, Free, GoTo, DownInv
  <2>2. MutexInv' BY <1>6 DEF RestartDecoder, Free, GoTo, DownInv, MutexInv
  <2>3. OneRestart' BY <1>6 DEF RestartDecoder, Free, GoTo, DownInv, OneRestart, Restarting, TimerInv
  <2>4. TimerInv' BY <1>6 DEF RestartDecoder, Free, GoTo, DownInv, TimerInv, Starting
  <2>5. TrialInv' BY <1>6 DEF RestartDecoder, Free, GoTo, DownInv, MutexInv, TimerInv, Starting, TrialInv, Owner
  <2> QED BY <2>1, <2>2, <2>3, <2>4, <2>5 DEF Rest
<1> QED BY <1>1, <1>2, <1>3, <1>4, <1>5, <1>6 DEF Request, Continue, Process

(* The rest of an operation hands its trial to a timer, a revert or nobody. *)
LEMMA ContinuePreserves == ASSUME IndInv, NEW a \in Actors, Continue(a) PROVE Rest'
<1> USE DEF IndInv, TypeOK, FieldType, ActorType, Gens, Actors
<1>1. CASE WriteKept(a)
  <2>1. DownInv' BY <1>1 DEF WriteKept, WriteConf, WriteShim, WriteFails, RestartIf, GoTo, DownInv
  <2>2. MutexInv' BY <1>1 DEF WriteKept, WriteConf, WriteShim, WriteFails, RestartIf, GoTo, DownInv, MutexInv
  <2>3. OneRestart' BY <1>1 DEF WriteKept, WriteConf, WriteShim, WriteFails, RestartIf, GoTo, DownInv, OneRestart, Restarting, TimerInv, MutexInv
  <2>4. TimerInv' BY <1>1 DEF WriteKept, WriteConf, WriteShim, WriteFails, RestartIf, GoTo, DownInv, TimerInv, Starting
  <2>5. TrialInv' BY <1>1 DEF WriteKept, WriteConf, WriteShim, WriteFails, RestartIf, GoTo, DownInv, MutexInv, TimerInv, Starting, TrialInv, Owner
  <2> QED BY <2>1, <2>2, <2>3, <2>4, <2>5 DEF Rest
<1>2. CASE WriteAOI(a)
  <2>1. DownInv' BY <1>2 DEF WriteAOI, WriteShim, WriteFails, GoTo, DownInv
  <2>2. MutexInv' BY <1>2 DEF WriteAOI, WriteShim, WriteFails, GoTo, DownInv, MutexInv
  <2>3. OneRestart' BY <1>2 DEF WriteAOI, WriteShim, WriteFails, GoTo, DownInv, OneRestart, Restarting, TimerInv
  <2>4. TimerInv' BY <1>2 DEF WriteAOI, WriteShim, WriteFails, GoTo, DownInv, TimerInv, Starting
  <2>5. TrialInv' BY <1>2 DEF WriteAOI, WriteShim, WriteFails, GoTo, DownInv, MutexInv, TimerInv, Starting, TrialInv, Owner
  <2> QED BY <2>1, <2>2, <2>3, <2>4, <2>5 DEF Rest
<1>3. CASE Settle(a)
  <2>1. DownInv' BY <1>3 DEF Settle, WriteConf, WriteShim, WriteFails, Countdown, GoTo, DownInv
  <2>2. MutexInv' BY <1>3 DEF Settle, WriteConf, WriteShim, WriteFails, Countdown, GoTo, DownInv, MutexInv
  <2>3. OneRestart' BY <1>3 DEF Settle, WriteConf, WriteShim, WriteFails, Countdown, GoTo, DownInv, OneRestart, Restarting, TimerInv
  <2>4. TimerInv' BY <1>3 DEF Settle, WriteConf, WriteShim, WriteFails, Countdown, GoTo, DownInv, TimerInv, Starting
  <2>5. TrialInv' BY <1>3 DEF Settle, WriteConf, WriteShim, WriteFails, Countdown, GoTo, DownInv, MutexInv, TimerInv, Starting, TrialInv, Owner
  <2> QED BY <2>1, <2>2, <2>3, <2>4, <2>5 DEF Rest
<1>4. CASE GoBack(a)
  <2>1. DownInv' BY <1>4 DEF GoBack, StaleRevert, StopTrial, WriteConf, WriteShim, WriteFails, RestartIf, GoTo, DownInv
  <2>2. MutexInv' BY <1>4 DEF GoBack, StaleRevert, StopTrial, WriteConf, WriteShim, WriteFails, RestartIf, GoTo, DownInv, MutexInv
  <2>3. OneRestart' BY <1>4 DEF GoBack, StaleRevert, StopTrial, WriteConf, WriteShim, WriteFails, RestartIf, GoTo, DownInv, OneRestart, Restarting, TimerInv
  <2>4. TimerInv' BY <1>4 DEF GoBack, StaleRevert, StopTrial, WriteConf, WriteShim, WriteFails, RestartIf, GoTo, DownInv, TimerInv, Starting
  <2>5. TrialInv' BY <1>4 DEF GoBack, StaleRevert, StopTrial, WriteConf, WriteShim, WriteFails, RestartIf, GoTo, DownInv, MutexInv, TimerInv, Starting, TrialInv, Owner
  <2> QED BY <2>1, <2>2, <2>3, <2>4, <2>5 DEF Rest
<1>5. CASE Restart(a)
  <2>1. DownInv' BY <1>5 DEF Restart, GoTo, DownInv
  <2>2. MutexInv' BY <1>5 DEF Restart, GoTo, DownInv, MutexInv
  <2>3. OneRestart' BY <1>5 DEF Restart, GoTo, DownInv, OneRestart, Restarting, TimerInv
  <2>4. TimerInv' BY <1>5 DEF Restart, GoTo, DownInv, TimerInv, Starting
  <2>5. TrialInv' BY <1>5 DEF Restart, GoTo, DownInv, MutexInv, TimerInv, Starting, TrialInv, Owner
  <2> QED BY <2>1, <2>2, <2>3, <2>4, <2>5 DEF Rest
<1>6. CASE Await(a)
  <2>1. DownInv' BY <1>6 DEF Await, GoTo, DownInv
  <2>2. MutexInv' BY <1>6 DEF Await, GoTo, DownInv, MutexInv
  <2>3. OneRestart' BY <1>6 DEF Await, GoTo, DownInv, OneRestart, Restarting, TimerInv
  <2>4. TimerInv' BY <1>6 DEF Await, GoTo, DownInv, TimerInv, Starting
  <2>5. TrialInv' BY <1>6 DEF Await, GoTo, DownInv, MutexInv, TimerInv, Starting, TrialInv, Owner
  <2> QED BY <2>1, <2>2, <2>3, <2>4, <2>5 DEF Rest
<1>7. CASE Tell(a)
  <2>1. DownInv' BY <1>7 DEF Tell, GoTo, DownInv
  <2>2. MutexInv' BY <1>7 DEF Tell, GoTo, DownInv, MutexInv
  <2>3. OneRestart' BY <1>7 DEF Tell, GoTo, DownInv, OneRestart, Restarting, TimerInv
  <2>4. TimerInv' BY <1>7 DEF Tell, GoTo, DownInv, TimerInv, Starting
  <2>5. TrialInv' BY <1>7 DEF Tell, GoTo, DownInv, MutexInv, TimerInv, Starting, TrialInv, Owner
  <2> QED BY <2>1, <2>2, <2>3, <2>4, <2>5 DEF Rest
<1> QED BY <1>1, <1>2, <1>3, <1>4, <1>5, <1>6, <1>7 DEF Request, Continue, Process

(* A crash ends every trial together with its timers and actors; a start    *)
(* begins with none.                                                        *)
LEMMA ProcessPreserves == ASSUME IndInv, Process PROVE Rest'
<1> USE DEF IndInv, TypeOK, FieldType, ActorType, Gens, Actors
<1>1. CASE Crash
  <2>1. DownInv' BY <1>1 DEF Crash, Gone, DownInv
  <2>2. MutexInv' BY <1>1 DEF Crash, Gone, DownInv, MutexInv
  <2>3. OneRestart' BY <1>1 DEF Crash, Gone, DownInv, OneRestart, Restarting, TimerInv
  <2>4. TimerInv' BY <1>1 DEF Crash, Gone, DownInv, TimerInv, Starting
  <2>5. TrialInv' BY <1>1 DEF Crash, Gone, DownInv, MutexInv, TimerInv, Starting, TrialInv, Owner
  <2> QED BY <2>1, <2>2, <2>3, <2>4, <2>5 DEF Rest
<1>2. CASE PowerCut
  <2>1. DownInv' BY <1>2 DEF PowerCut, Gone, DownInv
  <2>2. MutexInv' BY <1>2 DEF PowerCut, Gone, DownInv, MutexInv
  <2>3. OneRestart' BY <1>2 DEF PowerCut, Gone, DownInv, OneRestart, Restarting, TimerInv
  <2>4. TimerInv' BY <1>2 DEF PowerCut, Gone, DownInv, TimerInv, Starting
  <2>5. TrialInv' BY <1>2 DEF PowerCut, Gone, DownInv, MutexInv, TimerInv, Starting, TrialInv, Owner
  <2> QED BY <2>1, <2>2, <2>3, <2>4, <2>5 DEF Rest
<1>3. CASE StartPre
  <2>1. DownInv' BY <1>3 DEF StartPre, WriteConf, WriteShim, WriteFails, DownInv
  <2>2. MutexInv' BY <1>3 DEF StartPre, WriteConf, WriteShim, WriteFails, DownInv, MutexInv
  <2>3. OneRestart' BY <1>3 DEF StartPre, WriteConf, WriteShim, WriteFails, DownInv, OneRestart, Restarting, TimerInv
  <2>4. TimerInv' BY <1>3 DEF StartPre, WriteConf, WriteShim, WriteFails, DownInv, TimerInv, Starting
  <2>5. TrialInv' BY <1>3 DEF StartPre, WriteConf, WriteShim, WriteFails, DownInv, MutexInv, TimerInv, Starting, TrialInv, Owner
  <2> QED BY <2>1, <2>2, <2>3, <2>4, <2>5 DEF Rest
<1>4. CASE Boot
  <2>1. DownInv' BY <1>4 DEF Boot, WriteConf, WriteShim, WriteFails, RestartIf, GoTo, DownInv
  <2>2. MutexInv' BY <1>4 DEF Boot, WriteConf, WriteShim, WriteFails, RestartIf, GoTo, DownInv, MutexInv
  <2>3. OneRestart' BY <1>4 DEF Boot, WriteConf, WriteShim, WriteFails, RestartIf, GoTo, DownInv, OneRestart, Restarting, TimerInv
  <2>4. TimerInv' BY <1>4 DEF Boot, WriteConf, WriteShim, WriteFails, RestartIf, GoTo, DownInv, TimerInv, Starting
  <2>5. TrialInv' BY <1>4 DEF Boot, WriteConf, WriteShim, WriteFails, RestartIf, GoTo, DownInv, MutexInv, TimerInv, Starting, TrialInv, Owner
  <2> QED BY <2>1, <2>2, <2>3, <2>4, <2>5 DEF Rest
<1> QED BY <1>1, <1>2, <1>3, <1>4 DEF Request, Continue, Process

(* A timer that fires finds its actor idle.                                 *)
LEMMA TimerPreserves == ASSUME IndInv, NEW g \in Gens, TimerFires(g) PROVE Rest'
<1> USE DEF IndInv, TypeOK, FieldType, ActorType, TimerFires, GoTo
<1>1. pc[g] = "out" /\ g = gen /\ g \in Actors /\ g # 0 BY DEF TimerInv, Gens, Actors
<1>2. DownInv' BY <1>1 DEF DownInv
<1>3. MutexInv' BY <1>1 DEF MutexInv
<1>4. OneRestart' BY <1>1 DEF OneRestart, Restarting
<1>5. TimerInv' BY <1>1 DEF TimerInv, Starting, Gens, Actors
<1>6. TrialInv' BY <1>1 DEF TrialInv, Owner
<1> QED BY <1>2, <1>3, <1>4, <1>5, <1>6 DEF Rest

(* The box around bdout touches nothing of this, nor does a stutter.        *)
LEMMA OthersPreserve ==
    ASSUME IndInv, UNCHANGED <<life, fields, actors>>
    PROVE  Rest'
<1> USE DEF IndInv
<1>1. DownInv' /\ MutexInv' BY DEF DownInv, MutexInv
<1>2. OneRestart' BY DEF OneRestart, Restarting
<1>3. TimerInv' BY DEF TimerInv, Starting
<1>4. TrialInv' BY DEF TrialInv, Owner, Starting
<1> QED BY <1>1, <1>2, <1>3, <1>4 DEF Rest

(* The invariant holds in every reachable state, whatever files cannot be   *)
(* written and however late PPApp starts.                                   *)
THEOREM Invariance == Spec => []IndInv
<1>1. Init => IndInv BY InitInd
<1>2. IndInv /\ [Next]_vars => IndInv'
  <2> SUFFICES ASSUME IndInv, [Next]_vars PROVE TypeOK' /\ Rest' BY DEF IndInv, Rest
  <2>1. ASSUME NEW a \in Callers, Request(a) PROVE TypeOK' /\ Rest'
    BY <2>1, RequestTypes, RequestPreserves
  <2>2. ASSUME NEW g \in Gens, TimerFires(g) PROVE TypeOK' /\ Rest'
    BY <2>2, OtherTypes, TimerPreserves
  <2>3. ASSUME NEW a \in Actors, Continue(a) PROVE TypeOK' /\ Rest'
    BY <2>3, ContinueTypes, ContinuePreserves
  <2>4. CASE Process BY <2>4, ProcessTypes, ProcessPreserves
  <2>5. CASE Box
    <3>1. UNCHANGED <<life, fields, actors>>
      BY <2>5 DEF Box, PPAppStarts, PPAppAsks, PPAppAborts, RunnerStops, RunnerStarts
    <3> QED BY <2>5, <3>1, OtherTypes, OthersPreserve
  <2>6. CASE UNCHANGED vars
    <3>1. TypeOK' BY <2>6 DEF vars, IndInv, TypeOK, FieldType, ActorType, WorldType
    <3> QED BY <2>6, <3>1, OthersPreserve DEF vars
  <2> QED BY <2>1, <2>2, <2>3, <2>4, <2>5, <2>6 DEF Next
<1> QED BY <1>1, <1>2, PTL DEF Spec

(* The decoder is restarted by one actor at a time, and busy says so.       *)
THEOREM RestartsExclude == Spec => []OneRestart
<1>1. IndInv => OneRestart BY DEF IndInv
<1> QED BY <1>1, Invariance, PTL

(* A trial always has a timer, a revert or a starter to end it.             *)
THEOREM TrialsAreOwned == Spec => []TrialHasOwner
<1>1. IndInv => TrialHasOwner BY DEF IndInv, TrialInv, TrialHasOwner
<1> QED BY <1>1, Invariance, PTL

-----------------------------------------------------------------------------
(* Only Keep keeps.                                                         *)

(* What a caller asks for is a step of the promise or nothing.              *)
LEMMA RequestRefines ==
    ASSUME IndInv, NEW a \in Callers, Request(a)
    PROVE  [Promise!Next]_(Promise!vars)
<1> USE DEF Promise!vars, Promise!Next, IndInv, TypeOK, Config
<1>1. ASSUME NEW f \in Formats, TryKept(a, f) PROVE [Promise!Next]_(Promise!vars)
  <2>1. trial' = None BY <1>1 DEF TryKept, StopTrial
  <2>2. cfg'.format = cfg.format \/ cfg'.format = Source BY <1>1 DEF TryKept
  <2> QED BY <2>1, <2>2 DEF Promise!GoBack, Promise!FollowSource
<1>2. ASSUME NEW f \in Formats, Try(a, f) PROVE [Promise!Next]_(Promise!vars)
  BY <1>2 DEF Try, Promise!Try, Promise!GoBack
<1>3. CASE Keep(a) BY <1>3 DEF Keep, StopTrial, Promise!Keep
<1>4. CASE Revert(a) BY <1>4 DEF Revert
<1>5. CASE SetAOI(a) BY <1>5 DEF SetAOI
<1>6. CASE RestartDecoder(a) BY <1>6 DEF RestartDecoder
<1> QED BY <1>1, <1>2, <1>3, <1>4, <1>5, <1>6 DEF Request

(* Everything else leaves the kept format alone, and at most ends a trial.  *)
LEMMA OthersKeep ==
    ASSUME \/ \E g \in Gens : TimerFires(g)
           \/ \E a \in Actors : Continue(a)
           \/ Process \/ Box \/ UNCHANGED vars
    PROVE  cfg' = cfg /\ trial' \in {trial, None}
BY DEF TimerFires, Continue, WriteKept, WriteAOI, Settle, GoBack, StopTrial, Restart, Await,
       Tell, Process, Crash, PowerCut, Gone, StartPre, Boot, Box, PPAppStarts, PPAppAsks,
       PPAppAborts, RunnerStops, RunnerStarts, vars

(* The runner keeps what KeptFormat promises, across crashes and power cuts *)
(* and whatever files cannot be written.                                    *)
THEOREM OnlyKeepKeeps == Spec => KeptOnlyByKeep
<1>1. Init => Promise!Init BY DEF Init, Promise!Init
<1>2. IndInv /\ [Next]_vars => [Promise!Next]_(Promise!vars)
  <2> SUFFICES ASSUME IndInv, [Next]_vars PROVE [Promise!Next]_(Promise!vars) OBVIOUS
  <2>1. ASSUME NEW a \in Callers, Request(a) PROVE [Promise!Next]_(Promise!vars)
    BY <2>1, RequestRefines
  <2>2. CASE ~ \E a \in Callers : Request(a)
    <3>1. cfg' = cfg /\ trial' \in {trial, None} BY <2>2, OthersKeep DEF Next
    <3> QED BY <3>1 DEF Promise!vars, Promise!Next, Promise!GoBack
  <2> QED BY <2>1, <2>2
<1> QED BY <1>1, <1>2, Invariance, PTL DEF Spec, KeptOnlyByKeep, Promise!Spec

-----------------------------------------------------------------------------
(* Where PPApp is, when files can be written and PPApp does not start in    *)
(* the half second after bdout gave up on it.                               *)

Works == MayFail = {} /\ LateStart = FALSE

(* On a box that has never run the screen, shim.conf and config.json agree. *)
LEMMA InitScreen == ASSUME Init PROVE ScreenInv
BY DEF Init, ScreenInv, ShimInv, HandedInv, GaveUp, Active

(* A request leaves an unkept format on the screen only under a trial or    *)
(* with a restart of PPApp still to come.                                   *)
LEMMA RequestScreen == ASSUME IndInv, ScreenInv, Works, NEW a \in Callers, Request(a) PROVE ScreenInv'
<1> USE DEF Works, IndInv, TypeOK, ActorType, Config, Actors, ScreenInv, Active, GaveUp
<1>1. ASSUME NEW f \in Formats, TryKept(a, f) PROVE ScreenInv'
  <2>1. ShimInv' BY <1>1 DEF TryKept, Free, StopTrial, GoTo, ShimInv, MutexInv, DownInv
  <2>2. HandedInv' BY <1>1 DEF TryKept, Free, StopTrial, GoTo, HandedInv, ShimInv, MutexInv, Changed, DownInv
  <2> QED BY <2>1, <2>2
<1>2. ASSUME NEW f \in Formats, Try(a, f) PROVE ScreenInv'
  <2>1. ShimInv' BY <1>2 DEF Try, Free, WriteShim, WriteFails, GoTo, ShimInv, MutexInv, DownInv
  <2>2. HandedInv' BY <1>2 DEF Try, Free, WriteShim, WriteFails, GoTo, HandedInv, ShimInv, MutexInv, Changed, DownInv
  <2> QED BY <2>1, <2>2
<1>3. CASE Keep(a)
  <2>1. ShimInv' BY <1>3 DEF Keep, Free, StopTrial, ShimInv, MutexInv, DownInv
  <2>2. HandedInv' BY <1>3 DEF Keep, Free, StopTrial, HandedInv, ShimInv, MutexInv, Changed, DownInv
  <2> QED BY <2>1, <2>2
<1>4. CASE Revert(a)
  <2>1. ShimInv' BY <1>4 DEF Revert, Free, GoTo, ShimInv, MutexInv, DownInv
  <2>2. HandedInv' BY <1>4 DEF Revert, Free, GoTo, HandedInv, ShimInv, MutexInv, Changed, DownInv
  <2> QED BY <2>1, <2>2
<1>5. CASE SetAOI(a)
  <2>1. ShimInv' BY <1>5 DEF SetAOI, Free, GoTo, ShimInv, MutexInv, DownInv
  <2>2. HandedInv' BY <1>5 DEF SetAOI, Free, GoTo, HandedInv, ShimInv, MutexInv, Changed, DownInv
  <2> QED BY <2>1, <2>2
<1>6. CASE RestartDecoder(a)
  <2>1. ShimInv' BY <1>6 DEF RestartDecoder, Free, GoTo, ShimInv, MutexInv, DownInv
  <2>2. HandedInv' BY <1>6 DEF RestartDecoder, Free, GoTo, HandedInv, ShimInv, MutexInv, Changed, DownInv
  <2> QED BY <2>1, <2>2
<1> QED BY <1>1, <1>2, <1>3, <1>4, <1>5, <1>6 DEF Request, Continue, Process

(* So does the rest of an operation: PPApp, being on time, has read the     *)
(* shim.conf that was written for it.                                       *)
LEMMA ContinueScreen == ASSUME IndInv, ScreenInv, Works, NEW a \in Actors, Continue(a) PROVE ScreenInv'
<1> USE DEF Works, IndInv, TypeOK, ActorType, Config, Actors, ScreenInv, Active, GaveUp
<1>1. CASE WriteKept(a)
  <2>1. ShimInv' BY <1>1 DEF WriteKept, WriteConf, WriteShim, WriteFails, RestartIf, GoTo, ShimInv, MutexInv, DownInv
  <2>2. HandedInv' BY <1>1 DEF WriteKept, WriteConf, WriteShim, WriteFails, RestartIf, GoTo, HandedInv, ShimInv, MutexInv, Changed, DownInv
  <2> QED BY <2>1, <2>2
<1>2. CASE WriteAOI(a)
  <2>1. ShimInv' BY <1>2 DEF WriteAOI, WriteShim, WriteFails, GoTo, ShimInv, MutexInv, DownInv
  <2>2. HandedInv' BY <1>2 DEF WriteAOI, WriteShim, WriteFails, GoTo, HandedInv, ShimInv, MutexInv, Changed, DownInv
  <2> QED BY <2>1, <2>2
<1>3. CASE Settle(a)
  <2>1. ShimInv' BY <1>3 DEF Settle, WriteConf, WriteShim, WriteFails, Countdown, GoTo, ShimInv, MutexInv, DownInv
  <2>2. HandedInv' BY <1>3 DEF Settle, WriteConf, WriteShim, WriteFails, Countdown, GoTo, HandedInv, ShimInv, MutexInv, Changed, DownInv
  <2> QED BY <2>1, <2>2
<1>4. CASE GoBack(a)
  <2>1. ShimInv' BY <1>4 DEF GoBack, StaleRevert, StopTrial, WriteConf, WriteShim, WriteFails, RestartIf, GoTo, ShimInv, MutexInv, DownInv
  <2>2. HandedInv' BY <1>4 DEF GoBack, StaleRevert, StopTrial, WriteConf, WriteShim, WriteFails, RestartIf, GoTo, HandedInv, ShimInv, MutexInv, Changed, DownInv
  <2> QED BY <2>1, <2>2
<1>5. CASE Restart(a)
  <2>1. ShimInv' BY <1>5 DEF Restart, GoTo, ShimInv, MutexInv, DownInv
  <2>2. HandedInv' BY <1>5 DEF Restart, GoTo, HandedInv, ShimInv, MutexInv, Changed, DownInv
  <2> QED BY <2>1, <2>2
<1>6. CASE Await(a)
  <2>1. ShimInv' BY <1>6 DEF Await, GoTo, ShimInv, MutexInv, DownInv
  <2>2. HandedInv' BY <1>6 DEF Await, GoTo, HandedInv, ShimInv, MutexInv, Changed, DownInv
  <2> QED BY <2>1, <2>2
<1>7. CASE Tell(a)
  <2>1. ShimInv' BY <1>7 DEF Tell, GoTo, ShimInv, MutexInv, DownInv
  <2>2. HandedInv' BY <1>7 DEF Tell, GoTo, HandedInv, ShimInv, MutexInv, Changed, DownInv
  <2> QED BY <2>1, <2>2
<1> QED BY <1>1, <1>2, <1>3, <1>4, <1>5, <1>6, <1>7 DEF Request, Continue, Process

(* A crash leaves the screen to the next start, which compares it with what *)
(* is kept (runner.go:100-130).                                             *)
LEMMA ProcessScreen == ASSUME IndInv, ScreenInv, Works, Process PROVE ScreenInv'
<1> USE DEF Works, IndInv, TypeOK, ActorType, Config, Actors, ScreenInv, Active, GaveUp
<1>1. CASE Crash
  <2>1. ShimInv' BY <1>1 DEF Crash, Gone, ShimInv, MutexInv, DownInv
  <2>2. HandedInv' BY <1>1 DEF Crash, Gone, HandedInv, ShimInv, MutexInv, Changed, DownInv
  <2> QED BY <2>1, <2>2
<1>2. CASE PowerCut
  <2>1. ShimInv' BY <1>2 DEF PowerCut, Gone, ShimInv, MutexInv, DownInv
  <2>2. HandedInv' BY <1>2 DEF PowerCut, Gone, HandedInv, ShimInv, MutexInv, Changed, DownInv
  <2> QED BY <2>1, <2>2
<1>3. CASE StartPre
  <2>1. ShimInv' BY <1>3 DEF StartPre, WriteConf, WriteShim, WriteFails, ShimInv, MutexInv, DownInv
  <2>2. HandedInv' BY <1>3 DEF StartPre, WriteConf, WriteShim, WriteFails, HandedInv, ShimInv, MutexInv, Changed, DownInv
  <2> QED BY <2>1, <2>2
<1>4. CASE Boot
  <2>1. ShimInv' BY <1>4 DEF Boot, WriteConf, WriteShim, WriteFails, RestartIf, GoTo, ShimInv, MutexInv, DownInv
  <2>2. HandedInv'
    <3>1. shim'.format = cfg.format /\ (Changed => shim.format # cfg.format) BY <1>4 DEF Boot, WriteConf, WriteShim, WriteFails, RestartIf, GoTo, Changed
    <3>2. UNCHANGED <<runner, ppapp, handed, failed>> BY <1>4 DEF Boot
    <3>3. \A a \in Actors : pc[a] = "out" BY <1>4 DEF Boot, DownInv
    <3>4. CASE pc' = [pc EXCEPT ![BootTask] = "restart"]
      BY <3>2, <3>3, <3>4 DEF HandedInv
    <3>5. CASE pc' = [pc EXCEPT ![BootTask] = "out"] /\ (~Mismatch \/ ~runner)
      BY <3>1, <3>2, <3>3, <3>5 DEF HandedInv, Mismatch
    <3> QED BY <1>4, <3>4, <3>5 DEF Boot, RestartIf, GoTo
  <2> QED BY <2>1, <2>2
<1> QED BY <1>1, <1>2, <1>3, <1>4 DEF Request, Continue, Process

(* A timer leads to a revert, and PPApp restarting by itself reads the same *)
(* shim.conf again.                                                         *)
LEMMA OtherScreen == ASSUME IndInv, ScreenInv, Works, Box \/ \E g \in Gens : TimerFires(g) PROVE ScreenInv'
<1> USE DEF Works, IndInv, TypeOK, ActorType, Config, Actors, ScreenInv, Active, GaveUp
<1>1. CASE Box
  <2>1. ShimInv' BY <1>1 DEF Box, PPAppStarts, PPAppAsks, PPAppAborts, RunnerStops, RunnerStarts, ShimInv, MutexInv, DownInv
  <2>2. HandedInv' BY <1>1 DEF Box, PPAppStarts, PPAppAsks, PPAppAborts, RunnerStops, RunnerStarts, HandedInv, ShimInv, MutexInv, Changed, DownInv
  <2> QED BY <2>1, <2>2
<1>2. ASSUME NEW g \in Gens, TimerFires(g) PROVE ScreenInv'
  <2>1. ShimInv' BY <1>2 DEF TimerFires, GoTo, ShimInv, MutexInv, DownInv
  <2>2. HandedInv'
    <3>1. pc[g] = "out" BY <1>2 DEF TimerFires, TimerInv
    <3> QED BY <1>2, <3>1 DEF TimerFires, GoTo, HandedInv, Gens
  <2> QED BY <2>1, <2>2
<1> QED BY <1>1, <1>2 DEF Request, Continue, Process

(* With a disk that works and a PPApp that is on time, the screen invariant *)
(* holds together with the runner's own.                                    *)
THEOREM ScreenInvariance == ASSUME Works PROVE Spec => [](IndInv /\ ScreenInv)
<1>1. Init => ScreenInv BY InitScreen
<1>2. IndInv /\ ScreenInv /\ [Next]_vars => ScreenInv'
  <2> SUFFICES ASSUME IndInv, ScreenInv, [Next]_vars PROVE ScreenInv' OBVIOUS
  <2>1. CASE UNCHANGED vars
    BY <2>1 DEF vars, ScreenInv, ShimInv, HandedInv, GaveUp, Active
  <2> QED BY <2>1, RequestScreen, ContinueScreen, ProcessScreen, OtherScreen DEF Next
<1> QED BY <1>1, <1>2, Invariance, PTL DEF Spec

(* With a disk that works and a PPApp on time, shim.conf says what the      *)
(* runner means whenever mu is free (runner.go:330-345).                    *)
THEOREM ShimIsRight == ASSUME Works PROVE Spec => []ShimFollows
<1>1. ScreenInv => ShimFollows BY DEF ScreenInv, ShimInv, ShimFollows
<1> QED BY <1>1, ScreenInvariance, PTL

(* runner.go 8-12: the screen is on a format nobody kept only while that    *)
(* one is tried, or something is about to put it right.                     *)
THEOREM UnkeptOnlyOnTrial == ASSUME Works PROVE Spec => []UnkeptIsOnTrial
<1>1. IndInv /\ ScreenInv => UnkeptIsOnTrial
  <2> SUFFICES ASSUME IndInv, ScreenInv, Unkept, trial = None, life = "up",
                      \A a \in Actors : pc[a] \notin {"write", "restart"}
               PROVE  FALSE
    BY DEF UnkeptIsOnTrial
  <2>1. mu = None \/ \E a \in Actors : pc[a] = "aoi"
    BY DEF IndInv, TypeOK, ActorType, MutexInv
  <2>2. shim.format = cfg.format BY <2>1 DEF ScreenInv, ShimInv, Active
  <2> QED BY <2>2 DEF ScreenInv, HandedInv, Unkept
<1> QED BY <1>1, ScreenInvariance, PTL
=============================================================================
