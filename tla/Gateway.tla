------------------------------ MODULE Gateway -------------------------------
(***************************************************************************)
(* bdgw, the streaming gateway's panel: a save from the tab                *)
(* (gateway/serve.go) and what it does to PPApp's source selection         *)
(* (gateway/decoder.go) and to MediaMTX's unit (gateway/mtx.go), one file  *)
(* at a time.  Requests run side by side, nothing serialises them; any     *)
(* write may fail; bdgw may be killed and the box may lose power.          *)
(*                                                                         *)
(* A path stands for the name of its entry in the OSD's list, for the      *)
(* SRT:... line that selects it and for the latency asked.  The entries    *)
(* that are not bdgw's are left out of the list, nothing here touches      *)
(* them.  The state file and config.json are read as written: writes are   *)
(* atomic renames.                                                         *)
(***************************************************************************)
EXTENDS Naturals, FiniteSets

CONSTANTS Handlers,     (* goroutines of the HTTP server                    *)
          Paths, NoPath,
          Sources,      (* what the owner can select on the stock page      *)
          MaxCrashes,   (* kills and power cuts, a bound                    *)
          MayFail       (* the steps that may fail                          *)

Steps == {"config", "yml", "hub", "load", "prevMode",
          "entry", "mode", "name", "record", "restart"}

ASSUME GatewayAssumption ==
    /\ NoPath \notin Paths /\ Sources \cap (Paths \cup {NoPath}) = {}
    /\ MaxCrashes \in Nat /\ MayFail \subseteq Steps

VARIABLES
    config,     (* config.json                                              *)
    yml,        (* the config mediamtx.yml was rendered from                *)
    unit, hub,  (* bd-mtx is started; MediaMTX runs                         *)
    mode, name, (* the selection in PPApp's files                           *)
    list,       (* our entries in the OSD's list                            *)
    state,      (* decoder-state.json                                       *)
    running,    (* the selection PPApp read when it last started            *)
    pc, job,    (* where a request is, and what it holds                    *)
    crashes

files == <<mode, name, list, state>>
mtx   == <<yml, unit, hub>>
vars  == <<config, mtx, files, running, pc, job, crashes>>

(* A display path of a config is one of its paths, Validate sees to that.   *)
Config    == [enabled : BOOLEAN, show : Paths \cup {NoPath}]
Modes     == {"NDI", "SRT", "unset"}
Names     == Sources \cup Paths \cup {NoPath}
Selection == [mode : Modes, name : Names]

(* DecoderState: Took is path # NoPath.                                     *)
DecoderState == [path : Paths \cup {NoPath}, prev : Selection]
Nothing      == [path |-> NoPath, prev |-> [mode |-> "unset", name |-> NoPath]]

Job == [before : Config, after : Config, st : DecoderState, warned : BOOLEAN]

Places == Steps \cup {"idle", "prevName"}

HubType     == config \in Config /\ yml \in Config /\ unit \in BOOLEAN /\ hub \in BOOLEAN
DecoderType == mode \in Modes /\ name \in Names /\ state \in DecoderState /\ running \in Selection
RequestType == pc \in [Handlers -> Places] /\ job \in [Handlers -> Job]

TypeOK == HubType /\ DecoderType /\ RequestType /\ list \subseteq Paths /\ crashes \in 0..MaxCrashes

(* A fresh install: the hub on, no path on the display.                     *)
DefaultConfig == [enabled |-> TRUE, show |-> NoPath]

Files == [mode |-> mode, name |-> name]

Init ==
    /\ config = DefaultConfig /\ yml = DefaultConfig
    /\ unit = TRUE /\ hub = FALSE
    /\ mode \in {"NDI", "unset"} /\ name \in Sources \cup {NoPath}
    /\ list = {} /\ state = Nothing /\ running = Files
    /\ pc = [h \in Handlers |-> "idle"]
    /\ job = [h \in Handlers |-> [before |-> config, after |-> config,
                                  st |-> Nothing, warned |-> FALSE]]
    /\ crashes = 0

-----------------------------------------------------------------------------
(* The path a config puts on HDMI.                                          *)
Shows(c) == IF c.enabled THEN c.show ELSE NoPath

Wanted(h) == Shows(job[h].after)
Prev(h)   == job[h].st.prev
Took(h)   == job[h].st.path # NoPath

At(h, step)      == pc[h] = step
GoTo(h, step)    == pc' = [pc EXCEPT ![h] = step]
Warn(h)          == job' = [job EXCEPT ![h].warned = TRUE]

(* A step went wrong and the request ends with an error or a warning; only  *)
(* a unit that cannot be switched and a selection that cannot be removed    *)
(* end nothing.                                                             *)
GiveUp(h) ==
    /\ pc[h] \in MayFail \ {"hub"}
    /\ ~(At(h, "name") /\ Wanted(h) = NoPath /\ Prev(h).name = NoPath)
    /\ GoTo(h, "idle") /\ Warn(h)
    /\ UNCHANGED <<config, mtx, files, running, crashes>>

-----------------------------------------------------------------------------
(* handleConfig and handleDisplay: the stored config is read, the edit is   *)
(* laid over it and validated.                                              *)
Request(h, after) ==
    /\ At(h, "idle")
    /\ job' = [job EXCEPT ![h] = [before |-> config, after |-> after,
                                  st |-> Nothing, warned |-> FALSE]]
    /\ GoTo(h, "config")
    /\ UNCHANGED <<config, mtx, files, running, crashes>>

handleConfig(h)  == \E c \in Config : Request(h, c)
handleDisplay(h) == \E p \in Paths \cup {NoPath} : Request(h, [config EXCEPT !.show = p])

(* apply, step by step.                                                     *)
SaveConfig(h) ==
    /\ At(h, "config")
    /\ config' = job[h].after /\ GoTo(h, "yml")
    /\ UNCHANGED <<mtx, files, running, job, crashes>>

RenderYml(h) ==
    /\ At(h, "yml")
    /\ yml' = job[h].after /\ GoTo(h, "hub")
    /\ UNCHANGED <<config, unit, hub, files, running, job, crashes>>

(* Mutant of ThenSync: only the gateway's switch is compared.               *)
SyncOnSwitch(h) ==
    GoTo(h, IF job[h].before.enabled # job[h].after.enabled THEN "load" ELSE "idle")

(* Only a change of what HDMI shows reaches the decoder.                    *)
ThenSync(h) ==
    GoTo(h, IF job[h].before # job[h].after THEN "load" ELSE "idle")

SwitchUnit(h, on) ==
    \/ unit' = on /\ hub' = FALSE /\ UNCHANGED job
    \/ "hub" \in MayFail /\ Warn(h) /\ UNCHANGED <<unit, hub>>

SwitchHub(h) ==
    /\ At(h, "hub")
    /\ IF job[h].before.enabled = job[h].after.enabled
       THEN UNCHANGED <<unit, hub, job>>
       ELSE SwitchUnit(h, job[h].after.enabled)
    /\ ThenSync(h)
    /\ UNCHANGED <<config, yml, files, running, crashes>>

-----------------------------------------------------------------------------
(* Mutants of LoadState: no early return; a second Take remembers again.    *)
NoEarlyReturn(h) ==
    /\ At(h, "load")
    /\ job' = [job EXCEPT ![h].st = state]
    /\ GoTo(h, IF Wanted(h) # NoPath /\ state.path = NoPath THEN "prevName" ELSE "entry")
    /\ UNCHANGED <<config, mtx, files, running, crashes>>

RemembersAgain(h) ==
    /\ At(h, "load")
    /\ job' = [job EXCEPT ![h].st = state]
    /\ GoTo(h, CASE state.path = Wanted(h) -> "idle"
                 [] state.path # Wanted(h) /\ Wanted(h) # NoPath -> "prevName"
                 [] OTHER -> "entry")
    /\ UNCHANGED <<config, mtx, files, running, crashes>>

(* Sync, and the early returns of Take and Release: nothing to do when what *)
(* decoder-state.json says is what is wanted.  Take remembers the owner's   *)
(* selection the first time, from two files.                                *)
LoadState(h) ==
    /\ At(h, "load")
    /\ job' = [job EXCEPT ![h].st = state]
    /\ GoTo(h, CASE state.path = Wanted(h) -> "idle"
                 [] state.path # Wanted(h) /\ state.path = NoPath -> "prevName"
                 [] OTHER -> "entry")
    /\ UNCHANGED <<config, mtx, files, running, crashes>>

readSourceName(h) ==
    /\ At(h, "prevName")
    /\ job' = [job EXCEPT ![h].st.prev.name = name] /\ GoTo(h, "prevMode")
    /\ UNCHANGED <<config, mtx, files, running, crashes>>

readSettings(h) ==
    /\ At(h, "prevMode")
    /\ job' = [job EXCEPT ![h].st.prev.mode = mode] /\ GoTo(h, "entry")
    /\ UNCHANGED <<config, mtx, files, running, crashes>>

(* Mutant of writeList: Release adds an entry too.                          *)
AddsAlways(h) ==
    /\ At(h, "entry")
    /\ list' = {Wanted(h)} /\ GoTo(h, "mode")
    /\ UNCHANGED <<config, mtx, mode, name, state, running, job, crashes>>

(* The three files and the state.  Take writes our path, Release what Take  *)
(* found.  What a step reads before it writes is not ours and is kept, so   *)
(* reading and writing are one step.                                        *)
writeList(h) ==
    /\ At(h, "entry")
    /\ list' = {Wanted(h)} \ {NoPath} /\ GoTo(h, "mode")
    /\ UNCHANGED <<config, mtx, mode, name, state, running, job, crashes>>

writeSettings(h) ==
    /\ At(h, "mode")
    /\ mode' = CASE Wanted(h) # NoPath -> "SRT"
                 [] Wanted(h) = NoPath /\ Prev(h).mode = "unset" -> "NDI"
                 [] OTHER -> Prev(h).mode
    /\ GoTo(h, "name")
    /\ UNCHANGED <<config, mtx, name, list, state, running, job, crashes>>

(* Nobody looks at whether a selection that was not there can be removed.   *)
writeSourceName(h) ==
    /\ At(h, "name")
    /\ name' = IF Wanted(h) # NoPath THEN Wanted(h) ELSE Prev(h).name
    /\ GoTo(h, "record")
    /\ UNCHANGED <<config, mtx, mode, list, state, running, job, crashes>>

NotRemoved(h) ==
    /\ At(h, "name") /\ "name" \in MayFail
    /\ Wanted(h) = NoPath /\ Prev(h).name = NoPath
    /\ GoTo(h, "record")
    /\ UNCHANGED <<config, mtx, files, running, job, crashes>>

saveState(h) ==
    /\ At(h, "record")
    /\ state' = IF Wanted(h) # NoPath THEN [job[h].st EXCEPT !.path = Wanted(h)]
                                      ELSE Nothing
    /\ GoTo(h, "restart")
    /\ UNCHANGED <<config, mtx, mode, name, list, running, job, crashes>>

Restart(h) ==
    /\ At(h, "restart")
    /\ running' = Files /\ GoTo(h, "idle")
    /\ UNCHANGED <<config, mtx, files, job, crashes>>

-----------------------------------------------------------------------------
Idle == \A h \in Handlers : pc[h] = "idle"

(* The owner selects a source on the stock page, which restarts PPApp.  It  *)
(* is one person: not while a save of theirs is being applied.              *)
OwnerSelects ==
    /\ Idle
    /\ name' \in Sources /\ mode' = "NDI"
    /\ running' = [mode |-> mode', name |-> name']
    /\ UNCHANGED <<config, mtx, list, state, pc, job, crashes>>

(* PPApp dies and systemd starts it again; it reads its files whenever it   *)
(* starts, halfway through somebody's changes too.                          *)
PPAppStarts ==
    /\ running' = Files
    /\ UNCHANGED <<config, mtx, files, pc, job, crashes>>

(* bd-mtx's run.sh renders the file before it starts MediaMTX, and exits,   *)
(* to be started again by systemd, when the gateway is switched off.        *)
HubStarts ==
    /\ unit /\ ~hub
    /\ yml' = config /\ hub' = config.enabled
    /\ UNCHANGED <<config, unit, files, running, pc, job, crashes>>

HubDies ==
    /\ hub /\ hub' = FALSE
    /\ UNCHANGED <<config, yml, unit, files, running, pc, job, crashes>>

(* bdgw is killed, or the box loses power and everything enabled starts     *)
(* again.  A save that was under way gets no answer, and a bdgw that starts *)
(* does not look at the decoder.                                            *)
Lost ==
    /\ crashes < MaxCrashes /\ crashes' = crashes + 1
    /\ pc' = [h \in Handlers |-> "idle"]
    /\ job' = [h \in Handlers |->
                  [job[h] EXCEPT !.warned = @ \/ pc[h] # "idle"]]

Killed   == Lost /\ UNCHANGED <<config, mtx, files, running>>
PowerCut == Lost /\ unit' = TRUE /\ hub' = FALSE /\ running' = Files
                 /\ UNCHANGED <<config, yml, files>>

Apply(h) ==
    \/ SaveConfig(h) \/ RenderYml(h) \/ SwitchHub(h)
    \/ LoadState(h) \/ readSourceName(h) \/ readSettings(h)
    \/ writeList(h) \/ writeSettings(h) \/ writeSourceName(h) \/ NotRemoved(h)
    \/ saveState(h) \/ Restart(h) \/ GiveUp(h)

Next ==
    \/ \E h \in Handlers : handleConfig(h) \/ handleDisplay(h) \/ Apply(h)
    \/ OwnerSelects \/ PPAppStarts \/ HubStarts \/ HubDies \/ Killed \/ PowerCut

Spec == Init /\ [][Next]_vars

-----------------------------------------------------------------------------
(* Whatever failed or was cut off before: a save that changes the config and *)
(* is answered without a warning has rendered the hub's file, and left on   *)
(* record, for the next start of the panel too, that the decoder is where   *)
(* config.json wants it; if it moved the decoder, then PPApp runs on the    *)
(* new selection and the OSD's list has our entry or none.                  *)
Answered(h) == Idle /\ ~job[h].warned /\ job[h].before # job[h].after

ChangeIsTaken ==
    \A h \in Handlers : Answered(h) =>
        /\ yml = config /\ state.path = Shows(config)
        /\ Wanted(h) # job[h].st.path => running = Files /\ list = {state.path} \ {NoPath}

(* PPApp is restarted for a change of selection only, never for a save that *)
(* changes nothing on HDMI.                                                 *)
RestartsForChange ==
    [][\A h \in Handlers :
          pc[h] = "restart" /\ pc'[h] = "idle" => job[h].st.path # state.path]_vars

(* The owner's own selection: what Take found, kept in its request until    *)
(* the state is saved.                                                      *)
Plain(s) == [s EXCEPT !.mode = IF @ = "unset" THEN "NDI" ELSE @]
Taking(h) == pc[h] \in {"mode", "name", "record"}
Home ==
    CASE state.path # NoPath -> Plain(state.prev)
      [] state.path = NoPath /\ (\E h \in Handlers : Taking(h)) ->
             Plain(Prev(CHOOSE h \in Handlers : Taking(h)))
      [] OTHER -> Plain(Files)

(* The two steps that lose it: a Take that stops after it has begun to      *)
(* write, before the state is saved; and a Release that could not remove    *)
(* our selection, nothing having been selected before, and goes on.         *)
Loses(h) ==
    \/ Taking(h) /\ state.path = NoPath /\ pc'[h] = "idle"
    \/ At(h, "record") /\ Wanted(h) = NoPath /\ Prev(h).name = NoPath /\ name # NoPath

(* But for those, whatever fails or is cut off, the decoder goes back to    *)
(* what its owner had chosen: every step is one of Selection, or none.      *)
Promise == INSTANCE Selection WITH
    Homes <- [mode : {"NDI"}, name : Sources \cup {NoPath}],
    home <- Home, lent <- state.path
HomeIsKept ==
    /\ Promise!Init
    /\ [][(\E h \in Handlers : Loses(h)) \/ Promise!Next \/ UNCHANGED <<Home, state.path>>]_vars

(* Why it is kept, with the assumption it rests on: one save at a time.     *)
OneByOne == \A g, h \in Handlers : g = h

AtDecoder == {"prevName", "prevMode", "entry", "mode", "name", "record"}

HandlerInv(h) ==
    /\ pc[h] \in AtDecoder =>
           /\ job[h].st.path = state.path /\ Wanted(h) # state.path
           /\ Took(h) => job[h].st = state
    /\ pc[h] \in {"prevName", "prevMode"} => ~Took(h)
    /\ pc[h] \in {"prevMode", "entry"} /\ ~Took(h) => Prev(h).name = name
    /\ pc[h] = "entry" /\ ~Took(h) => Prev(h).mode = mode
    /\ pc[h] \in {"name", "record"} /\ Wanted(h) = NoPath => mode = Plain(Prev(h)).mode
    /\ pc[h] = "record" /\ Wanted(h) = NoPath => Prev(h).name \in {name, NoPath}

HomeInv == \A h \in Handlers : HandlerInv(h)

-----------------------------------------------------------------------------
(* What the code's comments say of it and what does not hold.               *)

(* Between saves the decoder is where config.json wants it, and PPApp runs  *)
(* on what its files say: not with two saves side by side.                  *)
DecoderFollows == Idle => state.path = Shows(config) /\ running = Files

(* What is put back is never an entry of ours: not after a Take that was    *)
(* killed before it saved the state.                                        *)
PrevIsTheOwners == state.path # NoPath => state.prev.name \notin Paths

(* A save that reported no warning has been applied and PPApp shows it: not *)
(* when the restart of the save before failed.                              *)
AppliedIsShown == (\A h \in Handlers : ~job[h].warned) => DecoderFollows
=============================================================================
