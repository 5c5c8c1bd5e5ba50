------------------------------ MODULE MenuEntry ------------------------------
(***************************************************************************)
(* The entry of bdplay in the decoder's on-screen source list              *)
(* (player/trigger.go): the owner picks it, PPApp dials a local port, a    *)
(* datagram opens the browser, and on the way out the decoder's earlier    *)
(* selection is put back, so that PPApp, started again, does not dial.     *)
(*                                                                         *)
(* The two files of the selection are the decoder's.  Three actors go      *)
(* through both, one file after the other and under no common lock: who    *)
(* picks a source (on the menu, or at any time on the stock page), the     *)
(* guard's poll, and Restore at the end of a session.  A session is one    *)
(* step in and a few steps out (see Remote for the rest of it).            *)
(***************************************************************************)
EXTENDS Naturals

CONSTANTS Sources,    (* other sources                                       *)
          ModeOf      (* the mode of each                                    *)

ASSUME MenuEntryAssumption ==
    /\ ModeOf \in [Sources -> {"NDI", "SRT"}]
    /\ {"ours", "none", ""} \cap Sources = {}

VARIABLES
    name, mode,      (* birddog-source1-name; SourceSelection                *)
    half,            (* the pick whose second file is not written yet        *)
    tuned,           (* PPApp is up and dials us                             *)
    lastName, lastMode, seen, (* the guard's memory                          *)
    glance,          (* the name a poll has read, before it reads the mode   *)
    armed, quiet,    (* the listener; its quiet period has not passed        *)
    session,         (* none, open; on the way out: looked, asked, named,
                        closed                                               *)
    back,            (* what Restore got from Previous                       *)
    why,             (* history: why PPApp may be on our entry since the last
                        session was opened                                   *)
    crossed,         (* history: of "pick", "poll" and "restore" under way,
                        those into which a write of another has fallen       *)
    torn             (* history: of "files", "memory" and "back", those whose
                        two halves may not belong together                   *)

entryVars == <<name, mode, half, tuned, lastName, lastMode, seen, glance, armed, quiet,
               session, back, why, crossed, torn>>

Ours == "ours"
Mode(s) == IF s = Ours THEN "SRT" ELSE ModeOf[s]
Dials == name = Ours /\ mode = "SRT"
NoMemory == [name |-> "", mode |-> "NDI"]

EntryInit ==
    /\ name \in Sources \cup {Ours} /\ mode = Mode(name) /\ half = "none"
    /\ tuned = Dials /\ why = IF Dials THEN {"started on it"} ELSE {}
    /\ lastName = "none" /\ lastMode = "none" /\ seen = FALSE /\ glance = "none"
    /\ armed = TRUE /\ quiet = FALSE /\ session = "none" /\ back = NoMemory
    /\ crossed = {} /\ torn = {}

Files   == <<name, mode, half>>
Memory  == <<lastName, lastMode, seen>>
Trigger == <<armed, quiet>>
History == <<why, crossed, torn>>

Restoring == session \in {"looked", "asked", "named"}
UnderWay  == {x \in {"pick", "poll", "restore"} :
                 \/ x = "pick" /\ half # "none"
                 \/ x = "poll" /\ glance # "none"
                 \/ x = "restore" /\ Restoring}

(* x, which has written, crosses whatever else is under way.                *)
Crosses(x) == crossed' = crossed \cup (UnderWay \ {x})

(* x is over, having crossed the others with its last write.                *)
Ends(x) == crossed' = (crossed \cup UnderWay) \ {x}

(* The halves of x are in doubt or not.                                     *)
Doubt(x, if) == torn' = IF if THEN torn \cup {x} ELSE torn \ {x}

(* The owner picks a source on the menu or the web page; PPApp, if it is up,
   follows.                                                                 *)
Pick ==
    /\ half = "none"
    /\ \E s \in Sources \cup {Ours} :
         /\ name' = s /\ half' = Mode(s)
         /\ tuned' = (session = "none" /\ s = Ours)
         /\ why' = IF s = Ours THEN why \cup {"picked"} ELSE why
    /\ Ends("pick")
    /\ UNCHANGED <<mode, Memory, glance, Trigger, session, back, torn>>

PickEnds ==
    /\ half # "none" /\ mode' = half /\ half' = "none"
    /\ tuned' = (session = "none" /\ name = Ours /\ half = "SRT")
    /\ Doubt("files", "pick" \in crossed) /\ Ends("pick")
    /\ UNCHANGED <<name, Memory, glance, Trigger, session, back, why>>

(* Every 2 s: a selection that is not ours is remembered when its name is
   new, its mode with it.  The name is read before the lock is taken; a file
   that cannot be read is an empty name, or no mode.                        *)
Glance ==
    /\ glance = "none"
    /\ glance' \in {name, ""} \ {Ours}
    /\ ~seen \/ glance' # lastName
    /\ crossed' = IF half # "none" \/ session = "named" THEN crossed \cup {"poll"}
                                                        ELSE crossed \ {"poll"}
    /\ UNCHANGED <<Files, tuned, Memory, Trigger, session, back, why, torn>>

(* Mutant of Observe: the mode is read only the first time.                 *)
ObserveName ==
    /\ glance # "none" /\ glance' = "none"
    /\ lastName' = glance /\ seen' = TRUE
    /\ lastMode' \in IF seen THEN {lastMode} ELSE {mode, ""}
    /\ Doubt("memory", "poll" \in crossed \/ "files" \in torn \/ lastMode' = "")
    /\ crossed' = crossed \ {"poll"}
    /\ UNCHANGED <<Files, tuned, Trigger, session, back, why>>

Observe ==
    /\ glance # "none" /\ glance' = "none"
    /\ lastName' = glance /\ lastMode' \in {mode, ""} /\ seen' = TRUE
    /\ Doubt("memory", "poll" \in crossed \/ "files" \in torn \/ lastMode' = "")
    /\ crossed' = crossed \ {"poll"}
    /\ UNCHANGED <<Files, tuned, Trigger, session, back, why>>

(* A session is opened: what was picked before does not count any more.     *)
Opens == /\ session = "none" /\ session' = "open"
         /\ armed' = FALSE /\ tuned' = FALSE
         /\ why' = IF half = "none" THEN {} ELSE why

(* A datagram does it unless the listener is suspended or quiet.            *)
Datagram ==
    /\ tuned /\ armed /\ ~quiet /\ quiet' = TRUE
    /\ Opens
    /\ UNCHANGED <<Files, Memory, glance, back, crossed, torn>>

(* The API does it without the entry.                                       *)
Enter == Opens /\ UNCHANGED <<Files, Memory, glance, quiet, back, crossed, torn>>

QuietOver ==
    /\ quiet' = FALSE
    /\ UNCHANGED <<Files, tuned, Memory, glance, armed, session, back, History>>

-----------------------------------------------------------------------------
(* finish: Restore.  The selection is put back if the decoder points at us.  *)

RestoreLooks ==
    /\ session = "open"
    /\ \/ name # Ours /\ session' = "closed" /\ UNCHANGED why
       \/ name = Ours /\ session' = "looked" /\ UNCHANGED why
       \/ name = Ours /\ session' = "closed" /\ why' = why \cup {"failed"}
    /\ crossed' = IF half # "none" /\ session' = "looked" THEN crossed \cup {"restore"} ELSE crossed
    /\ UNCHANGED <<Files, tuned, Memory, glance, Trigger, back, torn>>

(* Mutant of Previous: without a memory nothing is written.                 *)
PreviousOrNone == IF seen /\ lastName # "" THEN [name |-> lastName, mode |-> lastMode]
                                           ELSE [name |-> "", mode |-> ""]

(* Without a memory the name is left alone and the mode is NDI.             *)
Previous == IF seen /\ lastName # "" THEN [name |-> lastName, mode |-> lastMode] ELSE NoMemory

RestoreAsks ==
    /\ session = "looked" /\ session' = "asked"
    /\ back' = Previous /\ Doubt("back", "memory" \in torn)
    /\ UNCHANGED <<Files, tuned, Memory, glance, Trigger, why, crossed>>

RestoreName ==
    /\ session = "asked"
    /\ \/ /\ session' = "named" /\ name' = (IF back.name = "" THEN name ELSE back.name)
          /\ Crosses("restore") /\ UNCHANGED why
       \/ /\ back.name # "" /\ session' = "closed" /\ UNCHANGED name
          /\ why' = why \cup {"failed"} /\ crossed' = crossed \ {"restore"}
    /\ UNCHANGED <<mode, half, tuned, Memory, glance, Trigger, back, torn>>

(* A mode that could not be read when it should be remembered is not written. *)
RestoreMode ==
    /\ session = "named" /\ session' = "closed"
    /\ \/ /\ mode' = (IF back.mode = "" THEN mode ELSE back.mode)
          /\ Doubt("files", "restore" \in crossed \/ "back" \in torn)
          /\ Ends("restore") /\ UNCHANGED why
       \/ /\ back.mode # "" /\ UNCHANGED mode
          /\ Doubt("files", TRUE) /\ why' = why \cup {"failed"}
          /\ crossed' = crossed \ {"restore"}
    /\ UNCHANGED <<name, half, tuned, Memory, glance, Trigger, back>>

(* The display goes back: PPApp starts on what the files say; the listener
   is armed again, with a quiet period.                                     *)
Leave ==
    /\ session = "closed"
    /\ session' = "none" /\ tuned' = Dials
    /\ armed' = TRUE /\ quiet' = TRUE
    /\ UNCHANGED <<Files, Memory, glance, back, History>>

(* bdplay is restarted: PPApp is started again by the unit, and the memory
   is gone.                                                                 *)
Restart ==
    /\ session' = "none" /\ tuned' = Dials
    /\ why' = IF Dials THEN why \cup {"started on it"} ELSE why
    /\ lastName' = "none" /\ lastMode' = "none" /\ seen' = FALSE /\ glance' = "none"
    /\ armed' = TRUE /\ quiet' = FALSE
    /\ crossed' = crossed \cap {"pick"}
    /\ torn' = IF session = "named" THEN torn \cup {"files"} ELSE torn
    /\ UNCHANGED <<Files, back>>

EntryNext == \/ Pick \/ PickEnds \/ Glance \/ Observe \/ Datagram \/ Enter \/ QuietOver
             \/ RestoreLooks \/ RestoreAsks \/ RestoreName \/ RestoreMode \/ Leave \/ Restart

(* The browser opens by itself only because its entry was picked since it
   was last opened: leaving it does not lead back into it, whether or not an
   earlier selection was ever seen or seen whole, whoever else picks and
   polls meanwhile.  The exceptions are a Restore that could not read or
   write a file, and a bdplay that was restarted with the entry selected.   *)
OpensForPick == tuned => why # {}

(* What Restore leaves behind is a selection there was: the mode that goes
   with the name.  The code promises that only of a memory that was read, and
   a pair that is written, while nobody else wrote either file (trigger.go:300
   and 308, 338 to 366 hold no lock against them) and while files could be
   read and written; torn has those exceptions.  A later poll, or a later
   pick, that nobody crosses makes good again what was torn.                *)
RestoresPair ==
    session = "closed" /\ half = "none" /\ name # Ours /\ "files" \notin torn
    => mode = ModeOf[name]

(* "keeps the last value that was not ours" (trigger.go:17): of the two
   reads of a poll, into which a pick may fall.                             *)
RemembersPair == seen /\ lastName # "" => lastMode = ModeOf[lastName]
=============================================================================
