--------------------------- MODULE PlayParts_proofs ---------------------------
(***************************************************************************)
(* Proofs about the parts of bdplay beside the session: the entry in the   *)
(* source list, the play set, the cache of pages, the CEC bus, the stick   *)
(* and the browser, for any sources, play set, document, bus, devices and  *)
(* files.                                                                  *)
(***************************************************************************)
EXTENDS PlayParts, FiniteSetTheorems, SequenceTheorems, WellFoundedInduction, TLAPS

-----------------------------------------------------------------------------
(* A step of the whole is a step of each part, or leaves it alone.          *)
LEMMA StepOfParts ==
  ASSUME [Next]_partsVars
  PROVE  /\ [StickNext]_stickVars /\ [EntryNext]_entryVars /\ [PlaylistNext]_playlistVars
         /\ [BrowserNext]_browserVars /\ [PdfNext]_pdfVars /\ [CecNext]_cecVars
  BY DEF Next, Keeps, partsVars

LEMMA StartsOfParts ==
  Init => StickInit /\ EntryInit /\ PlaylistInit /\ PdfInit /\ CecInit
  BY DEF Init

-----------------------------------------------------------------------------
(* The entry in the decoder's source list.                                  *)

Modes == {"NDI", "SRT"}

EntryTypes ==
  /\ name \in Sources \cup {Ours} /\ half \in Modes \cup {"none"}
  /\ glance \in Sources \cup {"none", ""}
  /\ seen \in BOOLEAN /\ (seen => lastName \in Sources \cup {""})
  /\ back.name \in Sources \cup {""} /\ (back.name = "" => back.mode = "NDI")
  /\ session \in {"none", "open", "looked", "asked", "named", "closed"}

(* What each of the three actors relies on while nobody crosses it.         *)
PickKept == half # "none" /\ "pick" \notin crossed => half = Mode(name)

PollKept ==
  glance \in Sources /\ "poll" \notin crossed
  => name = glance /\ half = "none" /\ session # "named"

RestoreKept ==
  Restoring /\ "restore" \notin crossed
  => /\ half = "none"
     /\ name = IF session = "named" /\ back.name # "" THEN back.name ELSE Ours

(* What is selected, remembered or to be put back goes together unless it is
   torn.                                                                    *)
FilesKept ==
  "files" \notin torn /\ half = "none" /\ session # "named" /\ name # Ours
  => mode = ModeOf[name]

MemoryKept == "memory" \notin torn /\ seen /\ lastName # "" => lastMode = ModeOf[lastName]

BackKept ==
  "back" \notin torn /\ session \in {"asked", "named"} /\ back.name # ""
  => back.mode = ModeOf[back.name]

(* On our entry without a reason, the decoder is on its way to NDI.         *)
WhyKept ==
  name = Ours /\ why = {}
  => /\ half = "none" /\ ~tuned
     /\ session = "named" => back.name = ""
     /\ session = "closed" => mode # "SRT"

EntryInv ==
  /\ EntryTypes /\ PickKept /\ PollKept /\ RestoreKept
  /\ FilesKept /\ MemoryKept /\ BackKept /\ WhyKept /\ OpensForPick

(* What is under way is crossed by a write, and stays crossed until it ends. *)
LEMMA CrossedFacts ==
  ASSUME NEW x
  PROVE  /\ Ends(x) => /\ half # "none" /\ x # "pick" => "pick" \in crossed'
                       /\ glance # "none" /\ x # "poll" => "poll" \in crossed'
                       /\ Restoring /\ x # "restore" => "restore" \in crossed'
                       /\ \A y : y \in crossed /\ y # x => y \in crossed'
         /\ Crosses(x) => /\ half # "none" /\ x # "pick" => "pick" \in crossed'
                          /\ glance # "none" /\ x # "poll" => "poll" \in crossed'
                          /\ Restoring /\ x # "restore" => "restore" \in crossed'
                          /\ \A y : y \in crossed => y \in crossed'
  BY DEF Ends, Crosses, UnderWay

LEMMA EntryStarts == EntryInit => EntryInv
  <1> SUFFICES ASSUME EntryInit PROVE EntryInv
    OBVIOUS
  <1> USE MenuEntryAssumption DEF EntryInit, Mode, Modes, Ours
  <1>1. EntryTypes
    BY DEF EntryTypes, NoMemory
  <1>2. PickKept
    BY DEF PickKept
  <1>3. PollKept
    BY DEF PollKept
  <1>4. RestoreKept
    BY DEF RestoreKept, Restoring
  <1>5. FilesKept
    BY DEF FilesKept
  <1>6. MemoryKept
    BY DEF MemoryKept
  <1>7. BackKept
    BY DEF BackKept
  <1>8. WhyKept
    BY DEF WhyKept, Dials
  <1>9. OpensForPick
    BY DEF OpensForPick, Dials
  <1> QED BY <1>1, <1>2, <1>3, <1>4, <1>5, <1>6, <1>7, <1>8, <1>9 DEF EntryInv

LEMMA EntryKeeps == EntryInv /\ [EntryNext]_entryVars => EntryInv'
  <1> SUFFICES ASSUME EntryInv, [EntryNext]_entryVars PROVE EntryInv'
    OBVIOUS
  <1> USE MenuEntryAssumption
      DEF EntryInv, EntryTypes, PickKept, PollKept, RestoreKept, FilesKept, MemoryKept, BackKept,
          WhyKept, OpensForPick, Restoring, Dials, Mode, Modes, Ours, Files, Memory, Trigger, History
  <1>1. CASE Pick
    <2>1. EntryTypes'
      BY <1>1, CrossedFacts DEF Pick
    <2>2. PickKept' /\ PollKept' /\ RestoreKept'
      <3>1. PickKept'
        BY <1>1 DEF Pick
      <3>2. PollKept'
        BY <1>1, CrossedFacts DEF Pick
      <3>3. RestoreKept'
        BY <1>1, CrossedFacts DEF Pick
      <3> QED BY <3>1, <3>2, <3>3
    <2>3. FilesKept' /\ MemoryKept' /\ BackKept'
      BY <1>1, CrossedFacts DEF Pick
    <2>4. WhyKept' /\ OpensForPick'
      BY <1>1, CrossedFacts DEF Pick
    <2> QED BY <2>1, <2>2, <2>3, <2>4
  <1>2. CASE PickEnds
    <2>1. EntryTypes'
      BY <1>2, CrossedFacts DEF PickEnds, Doubt
    <2>2. PickKept' /\ PollKept' /\ RestoreKept'
      BY <1>2, CrossedFacts DEF PickEnds, Doubt
    <2>3. FilesKept' /\ MemoryKept' /\ BackKept'
      BY <1>2, CrossedFacts DEF PickEnds, Doubt
    <2>4. WhyKept' /\ OpensForPick'
      BY <1>2, CrossedFacts DEF PickEnds, Doubt
    <2> QED BY <2>1, <2>2, <2>3, <2>4
  <1>3. CASE Glance
    <2>1. EntryTypes'
      BY <1>3 DEF Glance
    <2>2. PickKept' /\ PollKept' /\ RestoreKept'
      BY <1>3 DEF Glance
    <2>3. FilesKept' /\ MemoryKept' /\ BackKept'
      BY <1>3 DEF Glance
    <2>4. WhyKept' /\ OpensForPick'
      BY <1>3 DEF Glance
    <2> QED BY <2>1, <2>2, <2>3, <2>4
  <1>4. CASE Observe
    <2>1. EntryTypes'
      BY <1>4 DEF Observe, Doubt
    <2>2. PickKept' /\ PollKept' /\ RestoreKept'
      BY <1>4 DEF Observe, Doubt
    <2>3. FilesKept' /\ MemoryKept' /\ BackKept'
      BY <1>4 DEF Observe, Doubt
    <2>4. WhyKept' /\ OpensForPick'
      BY <1>4 DEF Observe, Doubt
    <2> QED BY <2>1, <2>2, <2>3, <2>4
  <1>5. CASE Datagram
    <2>1. EntryTypes'
      BY <1>5 DEF Datagram, Opens
    <2>2. PickKept' /\ PollKept' /\ RestoreKept'
      BY <1>5 DEF Datagram, Opens
    <2>3. FilesKept' /\ MemoryKept' /\ BackKept'
      BY <1>5 DEF Datagram, Opens
    <2>4. WhyKept' /\ OpensForPick'
      BY <1>5 DEF Datagram, Opens
    <2> QED BY <2>1, <2>2, <2>3, <2>4
  <1>6. CASE Enter
    <2>1. EntryTypes'
      BY <1>6 DEF Enter, Opens
    <2>2. PickKept' /\ PollKept' /\ RestoreKept'
      BY <1>6 DEF Enter, Opens
    <2>3. FilesKept' /\ MemoryKept' /\ BackKept'
      BY <1>6 DEF Enter, Opens
    <2>4. WhyKept' /\ OpensForPick'
      BY <1>6 DEF Enter, Opens
    <2> QED BY <2>1, <2>2, <2>3, <2>4
  <1>7. CASE QuietOver
    <2>1. EntryTypes'
      BY <1>7 DEF QuietOver
    <2>2. PickKept' /\ PollKept' /\ RestoreKept'
      BY <1>7 DEF QuietOver
    <2>3. FilesKept' /\ MemoryKept' /\ BackKept'
      BY <1>7 DEF QuietOver
    <2>4. WhyKept' /\ OpensForPick'
      BY <1>7 DEF QuietOver
    <2> QED BY <2>1, <2>2, <2>3, <2>4
  <1>8. CASE RestoreLooks
    <2>1. EntryTypes'
      BY <1>8 DEF RestoreLooks
    <2>2. PickKept' /\ PollKept' /\ RestoreKept'
      BY <1>8 DEF RestoreLooks
    <2>3. FilesKept' /\ MemoryKept' /\ BackKept'
      BY <1>8 DEF RestoreLooks
    <2>4. WhyKept' /\ OpensForPick'
      BY <1>8 DEF RestoreLooks
    <2> QED BY <2>1, <2>2, <2>3, <2>4
  <1>9. CASE RestoreAsks
    <2>1. EntryTypes'
      BY <1>9 DEF RestoreAsks, Previous, NoMemory, Doubt
    <2>2. PickKept' /\ PollKept' /\ RestoreKept'
      BY <1>9 DEF RestoreAsks, Previous, NoMemory, Doubt
    <2>3. FilesKept' /\ MemoryKept' /\ BackKept'
      BY <1>9 DEF RestoreAsks, Previous, NoMemory, Doubt
    <2>4. WhyKept' /\ OpensForPick'
      BY <1>9 DEF RestoreAsks, Previous, NoMemory, Doubt
    <2> QED BY <2>1, <2>2, <2>3, <2>4
  <1>10. CASE RestoreName
    <2>1. EntryTypes'
      BY <1>10, CrossedFacts DEF RestoreName
    <2>2. PickKept' /\ PollKept' /\ RestoreKept'
      BY <1>10, CrossedFacts DEF RestoreName
    <2>3. FilesKept' /\ MemoryKept' /\ BackKept'
      BY <1>10, CrossedFacts DEF RestoreName
    <2>4. WhyKept' /\ OpensForPick'
      BY <1>10, CrossedFacts DEF RestoreName
    <2> QED BY <2>1, <2>2, <2>3, <2>4
  <1>11. CASE RestoreMode
    <2>1. EntryTypes'
      BY <1>11, CrossedFacts DEF RestoreMode, Doubt
    <2>2. PickKept' /\ PollKept' /\ RestoreKept'
      BY <1>11, CrossedFacts DEF RestoreMode, Doubt
    <2>3. FilesKept' /\ MemoryKept' /\ BackKept'
      BY <1>11, CrossedFacts DEF RestoreMode, Doubt
    <2>4. WhyKept' /\ OpensForPick'
      BY <1>11, CrossedFacts DEF RestoreMode, Doubt
    <2> QED BY <2>1, <2>2, <2>3, <2>4
  <1>12. CASE Leave
    <2>1. EntryTypes'
      BY <1>12 DEF Leave
    <2>2. PickKept' /\ PollKept' /\ RestoreKept'
      BY <1>12 DEF Leave
    <2>3. FilesKept' /\ MemoryKept' /\ BackKept'
      BY <1>12 DEF Leave
    <2>4. WhyKept' /\ OpensForPick'
      BY <1>12 DEF Leave
    <2> QED BY <2>1, <2>2, <2>3, <2>4
  <1>13. CASE Restart
    <2>1. EntryTypes'
      BY <1>13 DEF Restart
    <2>2. PickKept' /\ PollKept' /\ RestoreKept'
      BY <1>13 DEF Restart
    <2>3. FilesKept' /\ MemoryKept' /\ BackKept'
      BY <1>13 DEF Restart
    <2>4. WhyKept' /\ OpensForPick'
      BY <1>13 DEF Restart
    <2> QED BY <2>1, <2>2, <2>3, <2>4
  <1>14. CASE UNCHANGED entryVars
    <2>1. EntryTypes'
      BY <1>14 DEF entryVars
    <2>2. PickKept' /\ PollKept' /\ RestoreKept'
      BY <1>14 DEF entryVars
    <2>3. FilesKept' /\ MemoryKept' /\ BackKept'
      BY <1>14 DEF entryVars
    <2>4. WhyKept' /\ OpensForPick'
      BY <1>14 DEF entryVars
    <2> QED BY <2>1, <2>2, <2>3, <2>4
  <1> QED BY <1>1, <1>2, <1>3, <1>4, <1>5, <1>6, <1>7, <1>8, <1>9, <1>10, <1>11, <1>12, <1>13,
             <1>14 DEF EntryNext

(* The browser opens only for a pick of its entry, whoever else picks, polls
   and restores at that moment and whatever fails, and a selection whose files
   nobody else wrote meanwhile is put back name and mode together, for any
   sources (player/trigger.go).                                             *)
THEOREM PicksAreHonoured == Spec => []PickIsHonoured
  <1>1. Init => EntryInv
    BY StartsOfParts, EntryStarts
  <1>2. EntryInv /\ [Next]_partsVars => EntryInv'
    BY StepOfParts, EntryKeeps
  <1>3. EntryInv => PickIsHonoured
    BY DEF EntryInv, PickIsHonoured, RestoresPair, FilesKept
  <1> QED BY <1>1, <1>2, <1>3, PTL DEF Spec

-----------------------------------------------------------------------------
(* The play set.                                                            *)

PlaylistTypes ==
  /\ random \in BOOLEAN /\ wrapped \in BOOLEAN /\ straight \in BOOLEAN
  /\ pos \in 0..Clips /\ lastPlayed \in 0..Clips /\ ended \in 0..Clips
  /\ seq \in Shuffles /\ (~random => seq = InOrder)
  /\ shown \in Seq(1..Clips)

(* A cycle nobody steers has shown what its order begins with.              *)
ShownInOrder ==
  straight => /\ Len(shown) = pos /\ \A i \in 1..pos : shown[i] = seq[i]
              /\ Clips > 1 => seq[1] # ended

PlaylistInv ==
  /\ PlaylistTypes /\ ShownInOrder
  /\ pos = Clips => lastPlayed = seq[Clips]

LEMMA InOrderIsShuffle == InOrder \in Shuffles
  BY PlaylistAssumption DEF InOrder, Shuffles

(* Swapping the ends of an order gives one.                                 *)
LEMMA SwappedIsShuffle ==
  ASSUME NEW s \in Shuffles
  PROVE  Swapped(s) \in Shuffles /\ Swapped(s)[1] = s[Clips]
  <1>1. /\ Swapped(s) \in [1..Clips -> 1..Clips] /\ 1 \in 1..Clips /\ Clips \in 1..Clips
        /\ \A i \in 1..Clips : Swapped(s)[i] = IF i = Clips THEN s[1]
                                                ELSE IF i = 1 THEN s[Clips] ELSE s[i]
    BY PlaylistAssumption DEF Swapped, Shuffles
  <1>2. ASSUME NEW i \in 1..Clips, NEW j \in 1..Clips, Swapped(s)[i] = Swapped(s)[j]
        PROVE  i = j
    BY <1>1, <1>2, PlaylistAssumption, ZenonT(60) DEF Shuffles
  <1>3. Swapped(s)[1] = s[Clips]
    BY <1>1
  <1> QED BY <1>1, <1>2, <1>3 DEF Shuffles

(* What reseq chooses is an order, in order unless it is random, and after a
   cycle does not begin with the item that ended it.                        *)
LEMMA ReseqGives ==
  ASSUME NEW rand \in BOOLEAN, NEW again \in BOOLEAN, NEW s \in Reseq(rand, again)
  PROVE  /\ s \in Shuffles /\ (~rand => s = InOrder)
         /\ rand /\ again /\ Clips > 1 => s[1] # lastPlayed
  <1>1. CASE ~rand
    BY <1>1, InOrderIsShuffle DEF Reseq
  <1>2. CASE rand
    <2>1. PICK t \in Shuffles :
            s = IF again /\ Clips > 1 /\ t[1] = lastPlayed THEN Swapped(t) ELSE t
      BY <1>2 DEF Reseq
    <2>2. Clips > 1 => t[1] # t[Clips]
      BY PlaylistAssumption DEF Shuffles
    <2> QED BY <1>2, <2>1, <2>2, SwappedIsShuffle
  <1> QED BY <1>1, <1>2

LEMMA PlaylistStarts == PlaylistInit => PlaylistInv
  <1> SUFFICES ASSUME PlaylistInit PROVE PlaylistInv
    OBVIOUS
  <1>1. seq \in Shuffles /\ (~random => seq = InOrder)
    BY InOrderIsShuffle DEF PlaylistInit
  <1>2. seq[1] \in 1..Clips
    BY <1>1, PlaylistAssumption DEF Shuffles
  <1>3. /\ random \in BOOLEAN /\ wrapped = FALSE /\ straight = TRUE
        /\ pos = 0 /\ lastPlayed = 0 /\ ended = 0 /\ shown = <<>>
    BY DEF PlaylistInit
  <1>4. PlaylistTypes
    <2>1. 0 \in 0..Clips
      BY PlaylistAssumption
    <2> QED BY <1>1, <1>3, <2>1, EmptySeq DEF PlaylistTypes
  <1>5. ShownInOrder
    BY <1>2, <1>3, EmptySeq DEF ShownInOrder
  <1> QED BY <1>3, <1>4, <1>5, PlaylistAssumption DEF PlaylistInv

LEMMA NextKeeps == ASSUME PlaylistInv, NextClip PROVE PlaylistInv'
  <1>0. pos \in 0..Clips /\ Clips \in Nat \ {0}
    BY PlaylistAssumption DEF PlaylistInv, PlaylistTypes
  <1>1. CASE pos < Clips
    <2>1. /\ pos' = pos + 1 /\ lastPlayed' = seq[pos + 1] /\ shown' = Append(shown, seq[pos + 1])
          /\ UNCHANGED <<random, wrapped, seq, ended, straight>>
      <3>1. ~(pos >= Clips)
        BY <1>0, <1>1
      <3> QED BY <3>1 DEF NextClip, Returns
    <2>2. seq[pos + 1] \in 1..Clips
      BY <1>0, <1>1 DEF PlaylistInv, PlaylistTypes, Shuffles
    <2>3. /\ shown' \in Seq(1..Clips) /\ Len(shown') = Len(shown) + 1
          /\ \A i \in 1..Len(shown) : shown'[i] = shown[i]
          /\ shown'[Len(shown) + 1] = seq[pos + 1]
      BY <2>1, <2>2, AppendProperties DEF PlaylistInv, PlaylistTypes
    <2>4. PlaylistTypes'
      <3>1. pos' \in 0..Clips /\ lastPlayed' \in 0..Clips
        BY <1>0, <1>1, <2>1, <2>2
      <3> QED BY <2>1, <2>3, <3>1 DEF PlaylistInv, PlaylistTypes
    <2>5. ShownInOrder'
      BY <1>0, <1>1, <2>1, <2>3 DEF PlaylistInv, ShownInOrder
    <2> QED BY <1>0, <1>1, <2>1, <2>4, <2>5 DEF PlaylistInv
  <1>2. CASE pos >= Clips
    <2>1. /\ seq' \in Reseq(random, TRUE) /\ pos' = 1
          /\ lastPlayed' = seq'[1] /\ shown' = Append(<<>>, seq'[1])
          /\ ended' = lastPlayed /\ straight' = TRUE /\ random' = random /\ wrapped' = TRUE
      <3>1. ~(pos < Clips)
        BY <1>0, <1>2
      <3> QED BY <3>1 DEF NextClip, Returns
    <2>2. /\ seq' \in Shuffles /\ (~random => seq' = InOrder)
          /\ random /\ Clips > 1 => seq'[1] # lastPlayed
      BY <2>1, ReseqGives DEF PlaylistInv, PlaylistTypes
    <2>3. seq'[1] \in 1..Clips
      BY <1>0, <2>2 DEF Shuffles
    <2>4. shown' \in Seq(1..Clips) /\ Len(shown') = 1 /\ shown'[1] = seq'[1]
      BY <2>1, <2>3, EmptySeq, AppendProperties
    <2>5. pos = Clips /\ lastPlayed = seq[Clips]
      BY <1>0, <1>2 DEF PlaylistInv
    <2>6. ~random => seq'[1] = 1 /\ lastPlayed = Clips
      BY <1>0, <2>2, <2>5 DEF PlaylistInv, PlaylistTypes, InOrder
    <2>7. PlaylistTypes'
      <3>1. pos' \in 0..Clips /\ lastPlayed' \in 0..Clips /\ ended' \in 0..Clips
        BY <1>0, <2>1, <2>3 DEF PlaylistInv, PlaylistTypes
      <3> QED BY <2>1, <2>2, <2>4, <3>1 DEF PlaylistInv, PlaylistTypes
    <2>8. ShownInOrder'
      <3>1. Clips > 1 => seq'[1] # lastPlayed
        BY <1>0, <2>2, <2>6 DEF PlaylistInv, PlaylistTypes
      <3> QED BY <2>1, <2>4, <3>1 DEF ShownInOrder
    <2> QED BY <2>1, <2>7, <2>8 DEF PlaylistInv
  <1> QED BY <1>0, <1>1, <1>2

LEMMA PlaylistKeeps == PlaylistInv /\ [PlaylistNext]_playlistVars => PlaylistInv'
  <1> SUFFICES ASSUME PlaylistInv, [PlaylistNext]_playlistVars PROVE PlaylistInv'
    OBVIOUS
  <1> USE PlaylistAssumption DEF PlaylistInv, PlaylistTypes, ShownInOrder
  <1>1. CASE PrevClip
    <2>1. pos' \in 0..Clips /\ pos' # Clips /\ straight' = FALSE
      BY <1>1 DEF PrevClip
    <2>2. shown' \in Seq(1..Clips) /\ ended' \in 0..Clips
      BY <1>1, EmptySeq DEF PrevClip
    <2> QED BY <1>1, <2>1, <2>2 DEF PrevClip
  <1>2. CASE SetOrder
    <2>1. seq' \in Shuffles /\ (random => seq' = InOrder)
      BY <1>2, ReseqGives DEF SetOrder
    <2>2. pos' \in 0..Clips /\ pos' # Clips /\ random' \in BOOLEAN /\ straight' = FALSE
      BY <1>2 DEF SetOrder
    <2>3. shown' \in Seq(1..Clips) /\ ended' \in 0..Clips
      BY <1>2, EmptySeq DEF SetOrder
    <2>4. ~random' => random
      BY <1>2 DEF SetOrder
    <2> QED BY <1>2, <2>1, <2>2, <2>3, <2>4 DEF SetOrder
  <1>3. CASE SetLoop
    BY <1>3 DEF SetLoop
  <1>4. CASE UNCHANGED playlistVars
    BY <1>4 DEF playlistVars
  <1> QED BY <1>1, <1>2, <1>3, <1>4, NextKeeps DEF PlaylistNext

(* A cycle nobody steers shows every item once, and never one twice in a row
   across its end, for any number of items, in any order and whatever was
   shuffled or steered before it (player/playlist.go).                      *)
THEOREM EachIsShownOnce == Spec => []ShowsEachOnce
  <1>1. Init => PlaylistInv
    BY StartsOfParts, PlaylistStarts
  <1>2. PlaylistInv /\ [Next]_partsVars => PlaylistInv'
    BY StepOfParts, PlaylistKeeps
  <1>3. PlaylistInv => ShowsEachOnce
    <2> SUFFICES ASSUME PlaylistInv, straight PROVE ShowsEachOnce
      BY DEF ShowsEachOnce
    <2> USE DEF PlaylistInv, PlaylistTypes, ShownInOrder
    <2>1. DOMAIN shown = 1..pos /\ 1..pos \subseteq 1..Clips
      BY PlaylistAssumption, LenProperties
    <2>2. \A i, j \in DOMAIN shown : shown[i] = shown[j] => i = j
      BY <2>1 DEF Shuffles
    <2>3. shown # <<>> => pos >= 1
      BY EmptySeq
    <2>4. shown # <<>> /\ Clips > 1 => shown[1] # ended
      BY <2>1, <2>3
    <2> QED BY <2>2, <2>4 DEF ShowsEachOnce
  <1> QED BY <1>1, <1>2, <1>3, PTL DEF Spec

-----------------------------------------------------------------------------
(* The cache of pages.                                                      *)

OneRender == \A r, s \in Renders : r = s

PdfInv ==
  /\ tmp \subseteq Pages /\ cached \in {{}, Pages}
  /\ at \in [Renders -> [pc : {"idle", "clean", "render", "install", "rename", "served"},
                         pages : SUBSET Pages, from : {"cache", "tmp"}]]
  /\ \A r \in Renders : at[r].pc \in {"install", "rename"} => tmp = Pages

LEMMA PdfStarts == PdfInit => PdfInv
  BY DEF PdfInit, PdfInv, Idle

LEMMA PdfKeeps ==
  ASSUME OneRender, ~PruneCut, PdfInv, [PdfNext]_pdfVars PROVE PdfInv'
  <1> USE DEF OneRender, PdfInv, In, To
  <1>1. ASSUME NEW r \in Renders, Look(r) PROVE PdfInv'
    BY <1>1 DEF Look
  <1>2. ASSUME NEW r \in Renders, Clean(r) PROVE PdfInv'
    BY <1>2 DEF Clean
  <1>3. ASSUME NEW r \in Renders, Draw(r) PROVE PdfInv'
    BY <1>3 DEF Draw
  <1>4. ASSUME NEW r \in Renders, Finish(r) PROVE PdfInv'
    BY <1>4 DEF Finish, Gives, Idle
  <1>5. ASSUME NEW r \in Renders, Drop(r) PROVE PdfInv'
    BY <1>5 DEF Drop
  <1>6. ASSUME NEW r \in Renders, Install(r) PROVE PdfInv'
    BY <1>6 DEF Install, Serves
  <1>7. ASSUME NEW r \in Renders, NothingLeft(r) PROVE PdfInv'
    BY <1>7 DEF NothingLeft, Gives, Idle
  <1>8. ASSUME NEW r \in Renders, Shown(r) PROVE PdfInv'
    BY <1>8 DEF Shown, Idle
  <1>9. CASE Prune
    BY <1>9 DEF Prune
  <1>10. CASE PowerCut
    BY <1>10 DEF PowerCut, Idle
  <1>11. CASE UNCHANGED pdfVars
    BY <1>11 DEF pdfVars
  <1> QED BY <1>1, <1>2, <1>3, <1>4, <1>5, <1>6, <1>7, <1>8, <1>9, <1>10, <1>11 DEF PdfNext

(* One Render at a time leaves a whole deck in the cache or none, for any
   number of pages, wherever it fails, is killed or the power goes, as long
   as the removal of an old deck is not cut (player/pdf.go).                *)
THEOREM CacheHolds == OneRender /\ ~PruneCut => (Spec => []CachedIsWhole)
  <1> SUFFICES ASSUME OneRender, ~PruneCut PROVE Spec => []CachedIsWhole
    OBVIOUS
  <1>1. Init => PdfInv
    BY StartsOfParts, PdfStarts
  <1>2. PdfInv /\ [Next]_partsVars => PdfInv'
    BY StepOfParts, PdfKeeps
  <1>3. PdfInv => CachedIsWhole
    BY DEF PdfInv, CachedIsWhole
  <1> QED BY <1>1, <1>2, <1>3, PTL DEF Spec

-----------------------------------------------------------------------------
(* The CEC bus.                                                             *)

(* What is sent as an answer is what is only taken note of.                 *)
Sent == Informational \cup Requests \cup Presses
        \cup {"set stream path", "who is active", "active source"}
Args == {"", "ours", "theirs"}
Messages == [op : Sent, from : {"us", "other", "unregistered"}, all : BOOLEAN,
             arg : Args, hops : {0, 1}]
NotAnswered(m) == m.hops = 1 => m.op \in Informational

InboxInv ==
  inbox \in Seq(Messages) /\ \A i \in 1..Len(inbox) : NotAnswered(inbox[i])

AnswerInv ==
  answer = Nothing \/ (answer \in Messages /\ answer.hops = 1 /\ answer.op \in Informational)

CecInv == InboxInv /\ AnswerInv /\ ClaimsItsInput

LEMMA InformationalIsNotAnswered ==
  ASSUME NEW m, m.op \in Informational PROVE ReplyTo(m) = "none"
  BY DEF ReplyTo, Informational, Presses

LEMMA ReplyIsInformational ==
  ASSUME NEW m, ReplyTo(m) # "none" PROVE ReplyTo(m) \in Informational
  BY DEF ReplyTo, Informational, Presses

LEMMA ActiveSourceIsNotAnswered ==
  ASSUME NEW m, m.op = "active source" PROVE ReplyTo(m) = "none"
  BY DEF ReplyTo, Informational, Presses

LEMMA EmptyInbox == ASSUME inbox' = <<>> PROVE InboxInv'
  BY EmptySeq DEF InboxInv

(* A message that comes in is appended, or the adapter has lost one.        *)
LEMMA ReceivesKeeps ==
  ASSUME InboxInv, ClaimsItsInput, NEW m \in Messages, m.hops = 0, Receives(m),
         UNCHANGED <<dev, active, saying>>
  PROVE  InboxInv' /\ (source' = source \/ m.op = "active source" => ClaimsItsInput')
  <1>1. CASE inbox' = Append(inbox, m) /\ UNCHANGED blurred
    <2>1. inbox' \in Seq(Messages)
      BY <1>1, AppendProperties DEF InboxInv
    <2>2. /\ Len(inbox') = Len(inbox) + 1 /\ inbox'[Len(inbox) + 1] = m
          /\ \A i \in 1..Len(inbox) : inbox'[i] = inbox[i]
      BY <1>1, AppendProperties DEF InboxInv
    <2>3. /\ Len(inbox) \in Nat
          /\ DOMAIN inbox = 1..Len(inbox) /\ DOMAIN inbox' = 1..Len(inbox')
      BY <2>1, LenProperties DEF InboxInv
    <2>4. \A i \in 1..Len(inbox') : NotAnswered(inbox'[i])
      <3>1. \A i \in 1..Len(inbox') : i = Len(inbox) + 1 \/ i \in 1..Len(inbox)
        BY <2>2, <2>3
      <3>2. /\ \A i \in 1..Len(inbox) : NotAnswered(inbox'[i])
            /\ NotAnswered(inbox'[Len(inbox) + 1])
        BY <2>2 DEF InboxInv, NotAnswered
      <3> QED BY <3>1, <3>2
    <2>5. /\ \A i \in DOMAIN inbox : i \in DOMAIN inbox' /\ inbox'[i] = inbox[i]
          /\ Len(inbox) + 1 \in DOMAIN inbox'
      BY <2>2, <2>3
    <2>6. source' = source \/ m.op = "active source" => ClaimsItsInput'
      BY <1>1, <2>2, <2>5 DEF ClaimsItsInput, Up
    <2> QED BY <2>1, <2>4, <2>6 DEF InboxInv
  <1>2. CASE blurred' = TRUE /\ UNCHANGED inbox
    BY <1>2 DEF InboxInv, ClaimsItsInput, Up
  <1> QED BY <1>1, <1>2 DEF Receives

LEMMA HandleKeeps == ASSUME CecInv, Handle PROVE CecInv'
  <1> DEFINE m == Head(inbox)
  <1>0. inbox' = Tail(inbox) /\ inbox' \in Seq(Messages) /\ m \in Messages
    BY HeadTailProperties DEF CecInv, InboxInv, Handle
  <1>1. /\ Len(inbox') = Len(inbox) - 1
        /\ \A i \in 1..Len(inbox') : inbox'[i] = inbox[i + 1]
    BY HeadTailProperties DEF CecInv, InboxInv, Handle
  <1>2. /\ Len(inbox) \in Nat \ {0} /\ 1 \in DOMAIN inbox /\ m = inbox[1]
        /\ DOMAIN inbox = 1..Len(inbox) /\ DOMAIN inbox' = 1..Len(inbox')
    <2>1. Len(inbox) \in Nat \ {0}
      BY EmptySeq DEF CecInv, InboxInv, Handle
    <2>2. DOMAIN inbox = 1..Len(inbox) /\ DOMAIN inbox' = 1..Len(inbox')
      BY <1>0, LenProperties DEF CecInv, InboxInv
    <2>3. 1 \in DOMAIN inbox
      BY <2>1, <2>2
    <2>4. m = inbox[1]
      OBVIOUS
    <2> QED BY <2>1, <2>2, <2>3, <2>4
  <1>3. InboxInv'
    <2>1. \A i \in 1..Len(inbox') : NotAnswered(inbox'[i])
      BY <1>1, <1>2 DEF CecInv, InboxInv, NotAnswered
    <2> QED BY <1>0, <2>1 DEF InboxInv
  <1>4. UNCHANGED <<dev, known, source, blurred>>
    BY DEF Handle
  <1>5. NotAnswered(m)
    BY <1>2 DEF CecInv, InboxInv
  <1>6. \/ UNCHANGED answer
        \/ /\ ReplyTo(m) # "none"
           /\ answer' = Msg(ReplyTo(m), "us", FALSE, "", m.hops + 1)
    BY DEF Handle
  <1>7. \/ active' = active /\ saying' = saying
        \/ saying' = saying \cup {"pump"}
        \/ active' = FALSE
    BY DEF Handle, Announced, Heard
  <1>8. m.op = "active source" => active' = FALSE
    BY ActiveSourceIsNotAnswered DEF Handle, Heard
  <1> HIDE DEF m
  <1>9. AnswerInv'
    <2>1. CASE UNCHANGED answer
      BY <2>1 DEF CecInv, AnswerInv
    <2>2. CASE /\ ReplyTo(m) # "none"
               /\ answer' = Msg(ReplyTo(m), "us", FALSE, "", m.hops + 1)
      <3>1. m.hops = 0
        BY <1>0, <1>5, <2>2, InformationalIsNotAnswered DEF NotAnswered, Messages
      <3>2. ReplyTo(m) \in Informational
        BY <2>2, ReplyIsInformational
      <3>3. ReplyTo(m) \in Sent
        BY <3>2 DEF Sent
      <3> DEFINE r == ReplyTo(m)
      <3> HIDE DEF r
      <3>4. answer' = [op |-> r, from |-> "us", all |-> FALSE, arg |-> "", hops |-> 1]
        <4>1. m.hops + 1 = 1
          BY <3>1
        <4>2. answer' = Msg(ReplyTo(m), "us", FALSE, "", 1)
          BY <2>2, <4>1
        <4> QED BY <4>2 DEF Msg, r
      <3>5. r \in Sent /\ "" \in Args
        BY <3>3 DEF r, Args
      <3>6. answer' \in Messages
        BY <3>4, <3>5 DEF Messages
      <3> QED BY <3>2, <3>4, <3>6 DEF AnswerInv, r
    <2> QED BY <1>6, <2>1, <2>2
  <1>10. ClaimsItsInput'
    <2> SUFFICES ASSUME Up, active', ~blurred
                 PROVE  source = "us" \/ saying' # {}
                        \/ \E i \in DOMAIN inbox' : inbox'[i].op = "active source"
      BY <1>4 DEF ClaimsItsInput, Up
    <2>1. CASE saying' = saying \cup {"pump"}
      BY <2>1
    <2>2. CASE active' = active /\ saying' = saying
      <3>1. \/ source = "us" \/ saying # {}
            \/ \E i \in DOMAIN inbox : inbox[i].op = "active source"
        BY <2>2 DEF CecInv, ClaimsItsInput
      <3>2. ASSUME NEW i \in DOMAIN inbox, inbox[i].op = "active source"
            PROVE  \E j \in DOMAIN inbox' : inbox'[j].op = "active source"
        <4>1. i # 1
          BY <1>2, <1>8, <3>2
        <4>2. i - 1 \in DOMAIN inbox' /\ inbox'[i - 1] = inbox[i]
          BY <1>1, <1>2, <4>1
        <4> QED BY <3>2, <4>2
      <3> QED BY <2>2, <3>1, <3>2
    <2> QED BY <1>7, <2>1, <2>2
  <1> QED BY <1>3, <1>9, <1>10 DEF CecInv

LEMMA CecStarts == CecInit => CecInv
  BY EmptySeq DEF CecInit, CecInv, InboxInv, AnswerInv, ClaimsItsInput, Up

LEMMA CecKeeps == CecInv /\ [CecNext]_cecVars => CecInv'
  <1> SUFFICES ASSUME CecInv, [CecNext]_cecVars PROVE CecInv'
    OBVIOUS
  <1>0. ASSUME UNCHANGED <<inbox, answer>> PROVE InboxInv' /\ AnswerInv'
    BY <1>0 DEF CecInv, InboxInv, AnswerInv
  <1>1. CASE Open
    <2>1. InboxInv'
      BY <1>1, EmptyInbox DEF Open
    <2>2. AnswerInv' /\ ClaimsItsInput'
      BY <1>1 DEF Open, CecInv, AnswerInv, ClaimsItsInput, Up
    <2> QED BY <2>1, <2>2 DEF CecInv
  <1>2. CASE Claim
    <2>1. InboxInv'
      BY <1>2, EmptyInbox DEF Claim
    <2>2. AnswerInv' /\ ClaimsItsInput'
      BY <1>2 DEF Claim, CecInv, AnswerInv, ClaimsItsInput, Up
    <2> QED BY <2>1, <2>2 DEF CecInv
  <1>3. CASE SessionAnnounces
    <2>1. ClaimsItsInput'
      BY <1>3 DEF SessionAnnounces, Announced, CecInv, ClaimsItsInput, Up
    <2> QED BY <1>0, <1>3, <2>1 DEF SessionAnnounces, CecInv
  <1>4. ASSUME NEW who \in {"session", "pump"}, Say(who) PROVE CecInv'
    <2>1. ClaimsItsInput'
      BY <1>4 DEF Say, CecInv, ClaimsItsInput, Up
    <2> QED BY <1>0, <1>4, <2>1 DEF Say, CecInv
  <1>5. CASE BusSends
    <2>1. ASSUME NEW op \in Sent, NEW from \in {"other", "unregistered"}, NEW all \in BOOLEAN,
                 NEW path \in Args
          PROVE  /\ Msg(op, from, all, path, 0) \in Messages
                 /\ Msg(op, from, all, path, 0).hops = 0
      BY <2>1 DEF Msg, Messages
    <2>2. PICK m \in Messages : m.hops = 0 /\ Receives(m)
      <3>1. PICK from \in {"other", "unregistered"} :
              \/ \E op \in Requests, all \in BOOLEAN : Receives(Msg(op, from, all, "", 0))
              \/ Receives(Msg("user control", from, FALSE, "", 0))
              \/ \E path \in {"ours", "theirs"} :
                   Receives(Msg("set stream path", from, TRUE, path, 0))
              \/ Receives(Msg("who is active", from, TRUE, "", 0))
        BY <1>5 DEF BusSends
      <3>2. Requests \cup {"user control", "set stream path", "who is active"} \subseteq Sent
        BY DEF Sent, Presses
      <3>3. {"", "ours", "theirs"} \subseteq Args /\ {TRUE, FALSE} = BOOLEAN
        BY DEF Args
      <3>4. CASE \E op \in Requests, all \in BOOLEAN : Receives(Msg(op, from, all, "", 0))
        BY <2>1, <3>2, <3>3, <3>4
      <3>5. CASE Receives(Msg("user control", from, FALSE, "", 0))
        BY <2>1, <3>2, <3>3, <3>5
      <3>6. CASE \E path \in {"ours", "theirs"} :
                   Receives(Msg("set stream path", from, TRUE, path, 0))
        BY <2>1, <3>2, <3>3, <3>6
      <3>7. CASE Receives(Msg("who is active", from, TRUE, "", 0))
        BY <2>1, <3>2, <3>3, <3>7
      <3> QED BY <3>1, <3>4, <3>5, <3>6, <3>7
    <2>3. UNCHANGED <<dev, known, active, saying, source, answer>>
      BY <1>5 DEF BusSends
    <2> QED BY <2>2, <2>3, ReceivesKeeps DEF CecInv, AnswerInv
  <1>6. CASE OtherIsActive
    <2> DEFINE m == Msg("active source", "other", TRUE, "theirs", 0)
    <2>1. m \in Messages /\ m.hops = 0 /\ m.op = "active source"
      <3>1. "active source" \in Sent /\ "theirs" \in Args
        BY DEF Sent, Args
      <3> QED BY <3>1 DEF Msg, Messages
    <2>2. Receives(m) /\ UNCHANGED <<dev, known, active, saying, answer>>
      BY <1>6 DEF OtherIsActive
    <2> HIDE DEF m
    <2> QED BY <2>1, <2>2, ReceivesKeeps DEF CecInv, AnswerInv
  <1>7. CASE OtherAnswers
    <2>1. ReplyTo(answer) = "none"
      BY <1>7, InformationalIsNotAnswered DEF OtherAnswers, CecInv, AnswerInv
    <2>2. answer' = Nothing /\ UNCHANGED <<dev, active, saying, source, inbox, blurred>>
      BY <1>7, <2>1 DEF OtherAnswers
    <2> QED BY <2>2 DEF CecInv, InboxInv, AnswerInv, ClaimsItsInput, Up
  <1>8. CASE StateChange
    BY <1>0, <1>8 DEF StateChange, CecInv, ClaimsItsInput, Up
  <1>9. CASE Close
    <2>1. InboxInv'
      BY <1>9, EmptyInbox DEF Close
    <2>2. AnswerInv' /\ ClaimsItsInput'
      BY <1>9 DEF Close, CecInv, AnswerInv, ClaimsItsInput, Up
    <2> QED BY <2>1, <2>2 DEF CecInv
  <1>10. CASE UNCHANGED cecVars
    BY <1>0, <1>10 DEF cecVars, CecInv, ClaimsItsInput, Up
  <1> QED BY <1>1, <1>2, <1>3, <1>4, <1>5, <1>6, <1>7, <1>8, <1>9, <1>10, HandleKeeps DEF CecNext

(* The PLAY takes itself for the active source only while the bus does or
   will, unless a message is lost, and an answer is never answered, with any
   room for messages (player/cec_follower.go).                              *)
THEOREM BusHolds == Spec => []BusSettles
  <1>1. Init => CecInv
    BY StartsOfParts, CecStarts
  <1>2. CecInv /\ [Next]_partsVars => CecInv'
    BY StepOfParts, CecKeeps
  <1>3. CecInv => BusSettles
    <2> SUFFICES ASSUME CecInv PROVE BusSettles
      OBVIOUS
    <2>1. answer.hops <= 1
      <3>1. Nothing.hops = 0
        BY DEF Nothing, Msg
      <3>2. answer.hops = 0 \/ answer.hops = 1
        BY <3>1 DEF CecInv, AnswerInv
      <3> QED BY <3>2
    <2>2. \A i \in DOMAIN inbox : inbox[i] \in Messages
      <3>1. inbox \in Seq(Messages)
        BY DEF CecInv, InboxInv
      <3>2. DOMAIN inbox = 1..Len(inbox)
        BY <3>1, LenProperties
      <3> QED BY <3>1, <3>2, ElementOfSeq
    <2>3. ASSUME NEW i \in DOMAIN inbox PROVE inbox[i].hops <= 1
      <3>1. inbox[i].hops \in {0, 1}
        BY <2>2 DEF Messages
      <3> QED BY <3>1
    <2> QED BY <2>1, <2>3 DEF BusSettles, AnswersEnd, CecInv
  <1> QED BY <1>1, <1>2, <1>3, PTL DEF Spec

-----------------------------------------------------------------------------
(* The stick.                                                               *)

Goroutines == {Watch, Web}
Mounted    == {<<d>> : d \in Devs}

(* What is busy is no later than what else may be plugged: the volume that
   cannot be unmounted is the one the library lists.                        *)
BusyIsFirst == \A b \in Busy, d \in Devs : b <= d

Passes ==
  [pc : {"idle", "drop", "next", "mount", "store", "copy", "unmount", "delete", "primary", "scan"},
   op : {"scan", "rescan", "eject"}, seen : SUBSET Devs, todo : SUBSET Devs,
   dev : Devs \cup {0}, point : Points \cup {0}, vols : SUBSET (Devs \X (Points \cup {0})),
   changed : BOOLEAN, failed : BOOLEAN]

StickTypes ==
  /\ plugged \subseteq Devs
  /\ volumes \in [Devs -> Points \cup {0}]
  /\ mounts \in [Points -> Mounted \cup {<<>>}]
  /\ th \in [Goroutines -> Passes]

OneWorks == \A t, u \in Goroutines : t = u \/ th[t].pc = "idle" \/ th[u].pc = "idle"

(* Volumes and mounts are the same, and the library lists the first.        *)
Agree(vol, mnt) ==
  /\ \A d \in Devs : vol[d] # 0 => mnt[vol[d]] = <<d>>
  /\ \A p \in Points : mnt[p] # <<>> => \E d \in Devs : vol[d] = p
KnownIn(vol)    == {d \in Devs : vol[d] # 0}
Lists(vol, lib) == lib = IF KnownIn(vol) = {} THEN 0 ELSE First(KnownIn(vol))

(* What a pass that is under way at r relies on.                            *)
Scanning(r, vol, mnt, lib) ==
  /\ r.pc = "drop" => Agree(vol, mnt) /\ Lists(vol, lib)
  /\ r.pc \in {"next", "mount"} => Agree(vol, mnt) /\ (r.changed \/ Lists(vol, lib))
  /\ r.pc \in {"next", "mount", "store"} => \A d \in r.todo : vol[d] = 0
  /\ r.pc \in {"mount", "store"} =>
       r.dev \in Devs /\ r.dev \notin r.todo /\ vol[r.dev] = 0 /\ r.point \in Points
  /\ r.pc = "mount" => mnt[r.point] = <<>>
  /\ r.pc = "store" => Agree([vol EXCEPT ![r.dev] = r.point], mnt)
  /\ r.pc \in {"primary", "scan"} => Agree(vol, mnt)
  /\ r.pc = "scan" => r.point = IF KnownIn(vol) = {} THEN 0 ELSE vol[First(KnownIn(vol))]
Ejecting(r, vol, mnt, lib) ==
  /\ r.pc = "copy" => Agree(vol, mnt) /\ Lists(vol, lib) /\ ~r.failed
  /\ r.pc = "unmount" => Agree(vol, mnt)
  /\ r.pc = "delete" => /\ r.dev \in Devs /\ Agree([vol EXCEPT ![r.dev] = 0], mnt)
                        /\ \A v \in r.vols : v[1] # r.dev
  /\ r.pc \in {"unmount", "delete"} =>
       /\ \A v \in r.vols : v[2] = vol[v[1]] /\ v[2] # 0
       /\ \A b \in Busy : vol[b] # 0 => lib = b
       /\ r.failed => \E b \in Busy : /\ vol[b] # 0 /\ \A v \in r.vols : v[1] # b
                                      /\ r.pc = "delete" => r.dev # b

StickInv ==
  /\ StickTypes /\ OneWorks
  /\ \A t \in Goroutines : /\ Scanning(th[t], volumes, mounts, library)
                           /\ Ejecting(th[t], volumes, mounts, library)
  /\ AtRest => Agree(volumes, mounts) /\ Lists(volumes, library)

(* A set of numbers that is not empty has a least one.                      *)
LEMMA FirstIsLeast ==
  ASSUME NEW S, S \subseteq Nat, S # {}
  PROVE  First(S) \in S /\ \A e \in S : First(S) <= e
  <1>1. PICK d \in S : \A e \in S : <<e, d>> \notin OpToRel(<, Nat)
    BY NatLessThanWellFounded, WFMin
  <1>2. ASSUME NEW e \in S PROVE d <= e
    <2>1. <<e, d>> \in Nat \X Nat /\ <<e, d>>[1] = e /\ <<e, d>>[2] = d
      OBVIOUS
    <2>2. ~(e < d)
      BY <1>1, <2>1 DEF OpToRel
    <2> QED BY <2>2
  <1> QED BY <1>2 DEF First

LEMMA DevsAreNumbers == \A vol : KnownIn(vol) \subseteq Nat /\ 0 \notin Devs /\ 0 \notin Points
  BY StickAssumption DEF KnownIn

LEMMA OnMounted ==
  ASSUME StickTypes, NEW p \in Points, NEW d \in Devs, mounts[p] = <<d>>
  PROVE  On(p) = d /\ Unmounted(p) = [mounts EXCEPT ![p] = <<>>]
  <1>1. p # 0 /\ mounts[p] # <<>> /\ Head(mounts[p]) = d /\ Tail(mounts[p]) = <<>>
    BY DevsAreNumbers
  <1> QED BY <1>1 DEF On, Unmounted, StickTypes

LEMMA AgreeMounts ==
  ASSUME NEW vol \in [Devs -> Points \cup {0}], NEW mnt \in [Points -> Mounted \cup {<<>>}],
         Agree(vol, mnt), NEW d \in Devs, vol[d] = 0, NEW p \in Points, mnt[p] = <<>>
  PROVE  Agree([vol EXCEPT ![d] = p], [mnt EXCEPT ![p] = <<d>>])
  BY DevsAreNumbers DEF Agree

LEMMA AgreeUnmounts ==
  ASSUME NEW vol \in [Devs -> Points \cup {0}], NEW mnt \in [Points -> Mounted \cup {<<>>}],
         Agree(vol, mnt), NEW d \in Devs, vol[d] # 0
  PROVE  Agree([vol EXCEPT ![d] = 0], [mnt EXCEPT ![vol[d]] = <<>>])
  BY DevsAreNumbers DEF Agree

LEMMA StickStarts == StickInit => StickInv
  <1> SUFFICES ASSUME StickInit PROVE StickInv
    OBVIOUS
  <1>1. /\ KnownIn(volumes) = {} /\ \A d \in Devs : volumes[d] = 0
        /\ \A p \in Points : mounts[p] = <<>>
    BY DEF StickInit, KnownIn
  <1>2. Agree(volumes, mounts) /\ Lists(volumes, library)
    BY <1>1 DEF Agree, Lists, StickInit
  <1>3. StickTypes
    BY DEF StickInit, StickTypes, Passes, Free, Goroutines
  <1>4. \A t \in Goroutines : th[t].pc = "idle"
    BY DEF StickInit, Free, Goroutines
  <1> QED BY <1>2, <1>3, <1>4 DEF StickInv, OneWorks, Scanning, Ejecting

(* The step of the goroutine that works: the other one is idle before it and
   after it.                                                                *)
LEMMA WorkerKeeps ==
  ASSUME StickInv, NEW t \in Goroutines, NEW r,
         \A u \in Goroutines \ {t} : th[u].pc = "idle",
         th' = [th EXCEPT ![t] = r], StickTypes',
         Scanning(r, volumes', mounts', library'), Ejecting(r, volumes', mounts', library'),
         r.pc = "idle" => Agree(volumes', mounts') /\ Lists(volumes', library')
  PROVE  StickInv'
  <1>1. /\ th'[t] = r /\ \A u \in Goroutines \ {t} : th'[u] = th[u]
    BY DEF StickInv, StickTypes
  <1>2. OneWorks'
    BY <1>1 DEF OneWorks
  <1>3. \A u \in Goroutines : /\ Scanning(th'[u], volumes', mounts', library')
                              /\ Ejecting(th'[u], volumes', mounts', library')
    <2> SUFFICES ASSUME NEW u \in Goroutines \ {t}
                 PROVE  /\ Scanning(th[u], volumes', mounts', library')
                        /\ Ejecting(th[u], volumes', mounts', library')
      BY <1>1
    <2> QED BY DEF Scanning, Ejecting
  <1>4. AtRest' => Agree(volumes', mounts') /\ Lists(volumes', library')
    BY <1>1 DEF AtRest, Goroutines
  <1> QED BY <1>2, <1>3, <1>4 DEF StickInv

LEMMA OtherIsIdle ==
  ASSUME StickInv, NEW t \in Goroutines, th[t].pc # "idle"
  PROVE  \A u \in Goroutines \ {t} : th[u].pc = "idle"
  BY DEF StickInv, OneWorks

LEMMA DiscoverKeeps ==
  ASSUME Alone, StickInv, NEW t \in Goroutines, NEW op \in {"scan", "rescan", "eject"}, Discover(t, op)
  PROVE  StickInv'
  <1> DEFINE r == [Free EXCEPT !.pc = IF op = "eject" THEN "copy" ELSE "drop",
                               !.op = op, !.seen = plugged]
  <1>1. /\ \A u \in Goroutines : th[u].pc = "idle"
        /\ th' = [th EXCEPT ![t] = r] /\ UNCHANGED <<plugged, mounts, volumes, library>>
    BY DEF Discover, Step, Hw, Goroutines
  <1>2. r.pc \in {"copy", "drop"} /\ r.failed = FALSE
    BY DEF Free
  <1>3. StickTypes'
    BY <1>1 DEF StickInv, StickTypes, Passes, Free
  <1>4. Agree(volumes, mounts) /\ Lists(volumes, library)
    BY <1>1 DEF StickInv, AtRest, Goroutines
  <1> HIDE DEF r
  <1>5. Scanning(r, volumes', mounts', library') /\ Ejecting(r, volumes', mounts', library')
    BY <1>1, <1>2, <1>4 DEF Scanning, Ejecting
  <1> QED BY <1>1, <1>2, <1>3, <1>5, WorkerKeeps

LEMMA DropGoneKeeps ==
  ASSUME StickInv, NEW t \in Goroutines, DropGone(t) PROVE StickInv'
  <1> DEFINE gone == Known \ th[t].seen
             r == [th[t] EXCEPT !.pc = "next", !.todo = th[t].seen \ Known, !.changed = gone # {}]
  <1>1. /\ th[t].pc = "drop" /\ th' = [th EXCEPT ![t] = r]
        /\ UNCHANGED <<plugged, library>> /\ Gone(gone)
        /\ volumes' = [d \in Devs |-> IF d \in gone THEN 0 ELSE volumes[d]]
    BY DEF DropGone, Step, Hw
  <1>2. Agree(volumes, mounts) /\ Lists(volumes, library)
    BY <1>1 DEF StickInv, Scanning
  <1>3. \A p \in Points : mounts'[p] = IF \E d \in gone : volumes[d] = p THEN <<>> ELSE mounts[p]
    <2> SUFFICES ASSUME NEW p \in Points
                 PROVE  mounts'[p] = IF \E d \in gone : volumes[d] = p THEN <<>> ELSE mounts[p]
      OBVIOUS
    <2>1. mounts'[p] = IF \E d \in gone : volumes[d] = p THEN Unmounted(p)[p] ELSE mounts[p]
      BY <1>1 DEF Gone
    <2>2. ASSUME NEW d \in gone, volumes[d] = p PROVE Unmounted(p)[p] = <<>>
      <3>1. d \in Devs /\ mounts[p] = <<d>>
        BY <1>2, <2>2, DevsAreNumbers DEF Agree, Known
      <3> QED BY <3>1, OnMounted DEF StickInv, StickTypes
    <2> QED BY <2>1, <2>2
  <1>4. r.pc = "next" /\ r.todo = th[t].seen \ Known
        /\ (r.changed <=> gone # {})
    BY DEF StickInv, StickTypes, Passes
  <1>5. Agree(volumes', mounts')
    <2>1. ASSUME NEW d \in Devs, volumes'[d] # 0 PROVE mounts'[volumes'[d]] = <<d>>
      <3>1. d \notin gone /\ volumes'[d] = volumes[d] /\ mounts[volumes[d]] = <<d>>
            /\ volumes[d] \in Points
        BY <1>1, <1>2, <2>1 DEF Agree, StickInv, StickTypes
      <3>2. ~ \E e \in gone : volumes[e] = volumes[d]
        <4> SUFFICES ASSUME NEW e \in gone, volumes[e] = volumes[d] PROVE FALSE
          OBVIOUS
        <4>1. mounts[volumes[d]] = <<e>>
          BY <1>2, <3>1, DevsAreNumbers DEF Agree, Known
        <4>2. e = d
          BY <3>1, <4>1
        <4> QED BY <3>1, <4>2
      <3> QED BY <1>3, <3>1, <3>2
    <2>2. ASSUME NEW p \in Points, mounts'[p] # <<>> PROVE \E d \in Devs : volumes'[d] = p
      <3>1. mounts[p] # <<>> /\ ~ \E d \in gone : volumes[d] = p
        BY <1>3, <2>2
      <3>2. PICK d \in Devs : volumes[d] = p
        BY <1>2, <3>1 DEF Agree
      <3> QED BY <1>1, <3>1, <3>2
    <2> QED BY <2>1, <2>2 DEF Agree
  <1>6. /\ \A d \in r.todo : volumes'[d] = 0
        /\ r.changed \/ Lists(volumes', library')
    <2>1. \A d \in r.todo : volumes'[d] = 0
      BY <1>1, <1>4 DEF Known, StickInv, StickTypes, Passes
    <2>2. gone = {} => volumes' = volumes
      BY <1>1 DEF StickInv, StickTypes
    <2> QED BY <1>1, <1>2, <1>4, <2>1, <2>2
  <1>7. StickTypes'
    <2>1. volumes' \in [Devs -> Points \cup {0}]
      BY <1>1 DEF StickInv, StickTypes
    <2>2. mounts' \in [Points -> Mounted \cup {<<>>}]
      BY <1>1, <1>3 DEF Gone, StickInv, StickTypes
    <2>3. r \in Passes
      BY ZenonT(60) DEF StickInv, StickTypes, Passes
    <2>4. plugged' \subseteq Devs /\ th' \in [Goroutines -> Passes]
      BY <1>1, <2>3 DEF StickInv, StickTypes
    <2> QED BY <2>1, <2>2, <2>4 DEF StickTypes
  <1> HIDE DEF r, gone
  <1>8. Scanning(r, volumes', mounts', library') /\ Ejecting(r, volumes', mounts', library')
    BY <1>4, <1>5, <1>6 DEF Scanning, Ejecting
  <1> QED BY <1>1, <1>4, <1>7, <1>8, OtherIsIdle, WorkerKeeps

LEMMA PickPointKeeps ==
  ASSUME StickInv, NEW t \in Goroutines, PickPoint(t) PROVE StickInv'
  <1>1. th[t].pc = "next" /\ UNCHANGED <<plugged, mounts, volumes, library>>
    BY DEF PickPoint, Hw
  <1>2. /\ Agree(volumes, mounts) /\ (th[t].changed \/ Lists(volumes, library))
        /\ \A d \in th[t].todo : volumes[d] = 0
    BY <1>1 DEF StickInv, Scanning
  <1>3. ASSUME NEW r \in Passes, th' = [th EXCEPT ![t] = r],
               Scanning(r, volumes, mounts, library), Ejecting(r, volumes, mounts, library),
               r.pc = "idle" => Lists(volumes, library)
        PROVE  StickInv'
    <2>1. StickTypes'
      BY <1>1, <1>3 DEF StickInv, StickTypes
    <2> QED BY <1>1, <1>2, <1>3, <2>1, OtherIsIdle, WorkerKeeps
  <1>4. CASE th[t].todo = {}
    <2> DEFINE pc == IF th[t].op = "rescan" \/ th[t].changed THEN "primary" ELSE "idle"
               r == [th[t] EXCEPT !.pc = pc]
    <2>1. th' = [th EXCEPT ![t] = r]
      BY <1>4 DEF PickPoint, GoesTo, Step, StickInv, StickTypes
    <2>2. r \in Passes /\ r.pc = pc
      BY DEF StickInv, StickTypes, Passes
    <2>3. r.pc \in {"primary", "idle"} /\ (r.pc = "idle" => ~th[t].changed)
      BY <2>2
    <2> HIDE DEF r
    <2> QED BY <1>2, <1>3, <2>1, <2>2, <2>3 DEF Scanning, Ejecting
  <1>5. CASE th[t].todo # {}
    <2> DEFINE free == {p \in Points : mounts[p] = <<>>}
    <2>1. PICK d \in th[t].todo :
            LET q == [th[t] EXCEPT !.todo = @ \ {d}, !.dev = d] IN
            th' = [th EXCEPT ![t] =
                     IF free = {} THEN q ELSE [q EXCEPT !.pc = "mount", !.point = First(free)]]
      BY <1>5 DEF PickPoint, Step
    <2> DEFINE q == [th[t] EXCEPT !.todo = @ \ {d}, !.dev = d]
    <2>2. /\ q \in Passes /\ q.pc = "next" /\ q.todo = th[t].todo \ {d} /\ q.dev = d
          /\ q.changed = th[t].changed /\ d \in Devs
      BY <1>1, ZenonT(60) DEF StickInv, StickTypes, Passes
    <2>3. CASE free = {}
      <3>1. th' = [th EXCEPT ![t] = q]
        BY <2>1, <2>3
      <3> HIDE DEF q
      <3> QED BY <1>2, <1>3, <2>2, <3>1 DEF Scanning, Ejecting
    <2>4. CASE free # {}
      <3> DEFINE r == [q EXCEPT !.pc = "mount", !.point = First(free)]
      <3>1. First(free) \in free
        BY <2>4, FirstIsLeast, StickAssumption
      <3>2. th' = [th EXCEPT ![t] = r]
        BY <2>1, <2>4
      <3> HIDE DEF q
      <3>3. /\ r \in Passes /\ r.pc = "mount" /\ r.todo = th[t].todo \ {d} /\ r.dev = d
            /\ r.changed = th[t].changed /\ r.point \in Points /\ mounts[r.point] = <<>>
        BY <2>2, <3>1 DEF Passes
      <3> HIDE DEF r
      <3> QED BY <1>2, <1>3, <2>2, <3>2, <3>3 DEF Scanning, Ejecting
    <2> QED BY <2>3, <2>4
  <1> QED BY <1>4, <1>5

LEMMA MountKeeps ==
  ASSUME StickInv, NEW t \in Goroutines, Mount(t) PROVE StickInv'
  <1> DEFINE d == th[t].dev
             p == th[t].point
  <1>1. th[t].pc = "mount" /\ UNCHANGED <<plugged, volumes, library>>
    BY DEF Mount, Hw
  <1>2. /\ Agree(volumes, mounts) /\ (th[t].changed \/ Lists(volumes, library))
        /\ \A e \in th[t].todo : volumes[e] = 0
        /\ d \in Devs /\ d \notin th[t].todo /\ volumes[d] = 0 /\ p \in Points /\ mounts[p] = <<>>
    BY <1>1 DEF StickInv, Scanning
  <1>3. CASE mounts' = [mounts EXCEPT ![p] = <<d>> \o @] /\ GoesTo(t, "store")
    <2> DEFINE r == [th[t] EXCEPT !.pc = "store"]
    <2>1. th' = [th EXCEPT ![t] = r]
      BY <1>3 DEF GoesTo, Step
    <2>2. r \in Passes /\ r.pc = "store" /\ r.dev = d /\ r.point = p /\ r.todo = th[t].todo
      BY DEF StickInv, StickTypes, Passes
    <2>3. <<d>> \o mounts[p] = <<d>>
      BY <1>2
    <2>4. mounts' = [mounts EXCEPT ![p] = <<d>>]
      BY <1>3, <2>3
    <2>5. Agree([volumes EXCEPT ![d] = p], mounts')
      BY <1>2, <2>4, AgreeMounts DEF StickInv, StickTypes
    <2>6. StickTypes'
      BY <1>1, <1>2, <2>1, <2>2, <2>4 DEF StickInv, StickTypes, Mounted
    <2> HIDE DEF r, d, p
    <2>7. Scanning(r, volumes', mounts', library') /\ Ejecting(r, volumes', mounts', library')
      BY <1>1, <1>2, <2>2, <2>5 DEF Scanning, Ejecting
    <2> QED BY <1>1, <2>1, <2>2, <2>6, <2>7, OtherIsIdle, WorkerKeeps
  <1>4. CASE GoesTo(t, "next") /\ UNCHANGED mounts
    <2> DEFINE r == [th[t] EXCEPT !.pc = "next"]
    <2>1. th' = [th EXCEPT ![t] = r]
      BY <1>4 DEF GoesTo, Step
    <2>2. r \in Passes /\ r.pc = "next" /\ r.changed = th[t].changed /\ r.todo = th[t].todo
      BY DEF StickInv, StickTypes, Passes
    <2>3. StickTypes'
      BY <1>1, <1>4, <2>1, <2>2 DEF StickInv, StickTypes
    <2> HIDE DEF r
    <2>4. Scanning(r, volumes', mounts', library') /\ Ejecting(r, volumes', mounts', library')
      BY <1>1, <1>2, <1>4, <2>2 DEF Scanning, Ejecting
    <2> QED BY <1>1, <2>1, <2>2, <2>3, <2>4, OtherIsIdle, WorkerKeeps
  <1> QED BY <1>3, <1>4 DEF Mount

LEMMA StoreKeeps ==
  ASSUME StickInv, NEW t \in Goroutines, Store(t) PROVE StickInv'
  <1> DEFINE r == [th[t] EXCEPT !.pc = "next", !.changed = TRUE]
  <1>1. /\ th[t].pc = "store" /\ th' = [th EXCEPT ![t] = r] /\ UNCHANGED <<plugged, mounts, library>>
        /\ volumes' = [volumes EXCEPT ![th[t].dev] = th[t].point]
    BY DEF Store, Step, Hw
  <1>2. /\ Agree(volumes', mounts) /\ \A e \in th[t].todo : volumes[e] = 0
        /\ th[t].dev \in Devs /\ th[t].dev \notin th[t].todo /\ th[t].point \in Points
    BY <1>1 DEF StickInv, Scanning
  <1>3. r \in Passes /\ r.pc = "next" /\ r.changed = TRUE /\ r.todo = th[t].todo
    BY ZenonT(60) DEF StickInv, StickTypes, Passes
  <1>4. \A e \in r.todo : volumes'[e] = 0
    BY <1>1, <1>2, <1>3 DEF StickInv, StickTypes, Passes
  <1>5. StickTypes'
    BY <1>1, <1>2, <1>3 DEF StickInv, StickTypes
  <1> HIDE DEF r
  <1>6. Scanning(r, volumes', mounts', library') /\ Ejecting(r, volumes', mounts', library')
    BY <1>1, <1>2, <1>3, <1>4 DEF Scanning, Ejecting
  <1> QED BY <1>1, <1>3, <1>5, <1>6, OtherIsIdle, WorkerKeeps

LEMMA CopyKeeps ==
  ASSUME BusyIsFirst, StickInv, NEW t \in Goroutines, Copy(t) PROVE StickInv'
  <1> DEFINE vols == {<<d, volumes[d]>> : d \in Known}
             r == [th[t] EXCEPT !.pc = "unmount", !.vols = vols]
  <1>1. /\ th[t].pc = "copy" /\ th' = [th EXCEPT ![t] = r]
        /\ UNCHANGED <<plugged, mounts, volumes, library>>
    BY DEF Copy, Step, Hw
  <1>2. Agree(volumes, mounts) /\ Lists(volumes, library) /\ ~th[t].failed
    BY <1>1 DEF StickInv, Ejecting
  <1>3. vols \subseteq Devs \X (Points \cup {0}) /\ \A v \in vols : v[2] = volumes[v[1]] /\ v[2] # 0
    BY DEF Known, StickInv, StickTypes
  <1> HIDE DEF vols
  <1>4. r \in Passes /\ r.pc = "unmount" /\ r.vols = vols /\ ~r.failed
    <2> DEFINE Copies == SUBSET (Devs \X (Points \cup {0}))
    <2>1. vols \in Copies
      BY <1>3
    <2>2. th[t] \in [pc : {"copy"}, op : {"scan", "rescan", "eject"}, seen : SUBSET Devs,
                     todo : SUBSET Devs, dev : Devs \cup {0}, point : Points \cup {0},
                     vols : Copies, changed : BOOLEAN, failed : BOOLEAN]
      BY <1>1 DEF StickInv, StickTypes, Passes
    <2> HIDE DEF Copies
    <2>3. r \in [pc : {"unmount"}, op : {"scan", "rescan", "eject"}, seen : SUBSET Devs,
                 todo : SUBSET Devs, dev : Devs \cup {0}, point : Points \cup {0},
                 vols : Copies, changed : BOOLEAN, failed : BOOLEAN]
          /\ r.vols = vols /\ r.failed = th[t].failed
      BY <2>1, <2>2
    <2> QED BY <1>2, <2>3 DEF Passes, Copies
  <1>5. ASSUME NEW b \in Busy, volumes[b] # 0 PROVE library = b
    <2>1. b \in KnownIn(volumes) /\ KnownIn(volumes) \subseteq Nat
      BY <1>5, StickAssumption DEF KnownIn
    <2>2. First(KnownIn(volumes)) \in KnownIn(volumes) /\ First(KnownIn(volumes)) <= b
      BY <2>1, FirstIsLeast
    <2>3. b <= First(KnownIn(volumes))
      BY <2>2 DEF BusyIsFirst, KnownIn
    <2> QED BY <1>2, <2>1, <2>2, <2>3 DEF Lists
  <1>6. StickTypes'
    BY <1>1, <1>4 DEF StickInv, StickTypes
  <1> HIDE DEF r
  <1>7. Scanning(r, volumes', mounts', library') /\ Ejecting(r, volumes', mounts', library')
    BY <1>1, <1>2, <1>3, <1>4, <1>5 DEF Scanning, Ejecting
  <1> QED BY <1>1, <1>4, <1>6, <1>7, OtherIsIdle, WorkerKeeps

LEMMA UnmountKeeps ==
  ASSUME BusyIsFirst, StickInv, NEW t \in Goroutines, Unmount(t) PROVE StickInv'
  <1>1. th[t].pc = "unmount" /\ UNCHANGED <<plugged, volumes, library>>
    BY DEF Unmount, Hw
  <1>2. /\ Agree(volumes, mounts) /\ \A v \in th[t].vols : v[2] = volumes[v[1]] /\ v[2] # 0
        /\ \A b \in Busy : volumes[b] # 0 => library = b
        /\ th[t].failed => \E b \in Busy : volumes[b] # 0 /\ \A v \in th[t].vols : v[1] # b
    BY <1>1 DEF StickInv, Ejecting
  <1>3. CASE th[t].vols = {}
    <2> DEFINE pc == IF th[t].failed THEN "idle" ELSE "primary"
               r == [th[t] EXCEPT !.pc = pc]
    <2>1. th' = [th EXCEPT ![t] = r] /\ UNCHANGED mounts
      BY <1>3 DEF Unmount, GoesTo, Step
    <2>2. r \in Passes /\ r.pc = pc
      BY DEF StickInv, StickTypes, Passes
    <2>3. StickTypes'
      BY <1>1, <2>1, <2>2 DEF StickInv, StickTypes
    <2>4. r.pc = "idle" => Lists(volumes, library)
      <3> SUFFICES ASSUME th[t].failed PROVE Lists(volumes, library)
        BY <2>2
      <3>1. PICK b \in Busy : volumes[b] # 0 /\ library = b
        BY <1>2
      <3>2. b \in KnownIn(volumes) /\ KnownIn(volumes) \subseteq Nat
        BY <3>1, StickAssumption DEF KnownIn
      <3>3. First(KnownIn(volumes)) \in KnownIn(volumes) /\ First(KnownIn(volumes)) <= b
        BY <3>2, FirstIsLeast
      <3>4. b <= First(KnownIn(volumes))
        BY <3>3 DEF BusyIsFirst, KnownIn
      <3> QED BY <3>1, <3>2, <3>3, <3>4 DEF Lists
    <2>5. r.pc \in {"idle", "primary"}
      BY <2>2
    <2> HIDE DEF r
    <2>6. Scanning(r, volumes', mounts', library') /\ Ejecting(r, volumes', mounts', library')
      BY <1>1, <1>2, <2>1, <2>5 DEF Scanning, Ejecting
    <2> QED BY <1>1, <1>2, <2>1, <2>3, <2>4, <2>6, OtherIsIdle, WorkerKeeps
  <1>4. CASE th[t].vols # {}
    <2>1. PICK v \in th[t].vols :
            LET q == [th[t] EXCEPT !.vols = @ \ {v}, !.dev = v[1]] IN
            \/ /\ On(v[2]) # 0 /\ mounts' = Unmounted(v[2])
               /\ th' = [th EXCEPT ![t] = [q EXCEPT !.pc = "delete"]]
            \/ /\ On(v[2]) = 0 \/ v[1] \in Busy
               /\ th' = [th EXCEPT ![t] = [q EXCEPT !.failed = TRUE]] /\ UNCHANGED mounts
      BY <1>4 DEF Unmount, Step
    <2> DEFINE d == v[1]
               q == [th[t] EXCEPT !.vols = @ \ {v}, !.dev = v[1]]
    <2>2. /\ q \in Passes /\ q.vols = th[t].vols \ {v} /\ q.dev = d /\ d \in Devs
          /\ q.failed = th[t].failed /\ q.pc = "unmount"
      BY <1>1, ZenonT(60) DEF StickInv, StickTypes, Passes
    <2>3. /\ v[2] = volumes[d] /\ volumes[d] # 0 /\ volumes[d] \in Points
          /\ mounts[volumes[d]] = <<d>>
      BY <1>2, <2>2 DEF Agree, StickInv, StickTypes
    <2>4. On(v[2]) = d /\ Unmounted(v[2]) = [mounts EXCEPT ![volumes[d]] = <<>>] /\ d # 0
      BY <2>2, <2>3, OnMounted, DevsAreNumbers DEF StickInv
    <2>5. \A w \in q.vols : w[1] # d
      <3> SUFFICES ASSUME NEW w \in th[t].vols, w # v, w[1] = v[1] PROVE FALSE
        BY <2>2
      <3>1. w[2] = v[2]
        BY <1>2
      <3>2. w \in Devs \X (Points \cup {0}) /\ v \in Devs \X (Points \cup {0})
        BY DEF StickInv, StickTypes, Passes
      <3> QED BY <3>1, <3>2
    <2>6. ASSUME mounts' = Unmounted(v[2]), th' = [th EXCEPT ![t] = [q EXCEPT !.pc = "delete"]]
          PROVE  StickInv'
      <3> DEFINE r == [q EXCEPT !.pc = "delete"]
      <3> HIDE DEF q
      <3>1. /\ r \in Passes /\ r.pc = "delete" /\ r.vols = q.vols /\ r.dev = d
            /\ r.failed = th[t].failed
        BY <2>2 DEF Passes
      <3>2. Agree([volumes EXCEPT ![d] = 0], mounts')
        <4>1. mounts' = [mounts EXCEPT ![volumes[d]] = <<>>]
          BY <2>4, <2>6
        <4>2. Agree([volumes EXCEPT ![d] = 0], [mounts EXCEPT ![volumes[d]] = <<>>])
          <5>1. /\ volumes \in [Devs -> Points \cup {0}]
                /\ mounts \in [Points -> Mounted \cup {<<>>}]
            BY DEF StickInv, StickTypes
          <5>2. Agree(volumes, mounts) /\ d \in Devs /\ volumes[d] # 0
            BY <1>2, <2>2, <2>3
          <5> HIDE DEF d
          <5> QED BY <5>1, <5>2, AgreeUnmounts
        <4> QED BY <4>1, <4>2
      <3>3. StickTypes'
        BY <1>1, <2>3, <2>4, <2>6, <3>1 DEF StickInv, StickTypes
      <3>4. /\ \A w \in r.vols : w \in th[t].vols /\ w[1] # d
            /\ \A b \in Busy : (\A w \in th[t].vols : w[1] # b) => b # d
        BY <2>2, <2>5, <3>1
      <3> HIDE DEF r, d
      <3>5. Scanning(r, volumes', mounts', library')
        BY <3>1 DEF Scanning
      <3>6. Ejecting(r, volumes', mounts', library')
        BY <1>1, <1>2, <2>2, <3>1, <3>2, <3>4 DEF Ejecting
      <3> QED BY <1>1, <2>6, <3>1, <3>3, <3>5, <3>6, OtherIsIdle, WorkerKeeps DEF r
    <2>7. ASSUME v[1] \in Busy, th' = [th EXCEPT ![t] = [q EXCEPT !.failed = TRUE]], UNCHANGED mounts
          PROVE  StickInv'
      <3> DEFINE r == [q EXCEPT !.failed = TRUE]
      <3> HIDE DEF q
      <3>1. r \in Passes /\ r.pc = "unmount" /\ r.vols = q.vols
        BY <2>2 DEF Passes
      <3>2. StickTypes'
        BY <1>1, <2>7, <3>1 DEF StickInv, StickTypes
      <3>3. \A w \in r.vols : w \in th[t].vols
        BY <2>2, <3>1
      <3>4. \E b \in Busy : volumes[b] # 0 /\ \A w \in r.vols : w[1] # b
        BY <2>3, <2>5, <2>7, <3>1
      <3> HIDE DEF r
      <3>5. Scanning(r, volumes', mounts', library')
        BY <3>1 DEF Scanning
      <3>6. Ejecting(r, volumes', mounts', library')
        BY <1>1, <1>2, <2>7, <3>1, <3>3, <3>4 DEF Ejecting
      <3> QED BY <1>1, <2>7, <3>1, <3>2, <3>5, <3>6, OtherIsIdle, WorkerKeeps DEF r
    <2> QED BY <2>1, <2>4, <2>6, <2>7
  <1> QED BY <1>3, <1>4

LEMMA DeleteKeeps ==
  ASSUME StickInv, NEW t \in Goroutines, Delete(t) PROVE StickInv'
  <1> DEFINE d == th[t].dev
             r == [th[t] EXCEPT !.pc = "unmount"]
  <1>1. /\ th[t].pc = "delete" /\ th' = [th EXCEPT ![t] = r]
        /\ UNCHANGED <<plugged, mounts, library>> /\ volumes' = [volumes EXCEPT ![d] = 0]
    BY DEF Delete, GoesTo, Step, Hw
  <1>2. /\ d \in Devs /\ Agree(volumes', mounts)
        /\ \A v \in th[t].vols : v[1] # d /\ v[2] = volumes[v[1]] /\ v[2] # 0
        /\ \A b \in Busy : volumes[b] # 0 => library = b
        /\ th[t].failed => \E b \in Busy : /\ volumes[b] # 0 /\ b # d
                                           /\ \A v \in th[t].vols : v[1] # b
    BY <1>1 DEF StickInv, Ejecting
  <1>3. r \in Passes /\ r.pc = "unmount" /\ r.vols = th[t].vols /\ r.failed = th[t].failed
    BY DEF StickInv, StickTypes, Passes
  <1>4. \A e \in Devs : volumes'[e] = IF e = d THEN 0 ELSE volumes[e]
    BY <1>1 DEF StickInv, StickTypes
  <1>5. \A v \in th[t].vols : v[1] \in Devs
    BY DEF StickInv, StickTypes, Passes
  <1>6. StickTypes'
    BY <1>1, <1>2, <1>3 DEF StickInv, StickTypes
  <1>7. Busy \subseteq Devs
    BY StickAssumption
  <1> HIDE DEF r, d
  <1>8. Scanning(r, volumes', mounts', library')
    BY <1>3 DEF Scanning
  <1>9. Ejecting(r, volumes', mounts', library')
    BY <1>1, <1>2, <1>3, <1>4, <1>5, <1>7 DEF Ejecting
  <1> QED BY <1>1, <1>3, <1>6, <1>8, <1>9, OtherIsIdle, WorkerKeeps

LEMMA ReadPrimaryKeeps ==
  ASSUME StickInv, NEW t \in Goroutines, ReadPrimary(t) PROVE StickInv'
  <1> DEFINE r == [th[t] EXCEPT !.pc = "scan", !.point = Primary(Known)]
  <1>1. /\ th[t].pc = "primary" /\ th' = [th EXCEPT ![t] = r]
        /\ UNCHANGED <<plugged, mounts, volumes, library>>
    BY DEF ReadPrimary, Step, Hw
  <1>2. Agree(volumes, mounts)
    BY <1>1 DEF StickInv, Scanning
  <1>3. /\ Primary(Known) = IF KnownIn(volumes) = {} THEN 0 ELSE volumes[First(KnownIn(volumes))]
        /\ Primary(Known) \in Points \cup {0}
    <2>1. Known = KnownIn(volumes) /\ KnownIn(volumes) \subseteq Devs
      BY DEF Known, KnownIn
    <2>2. KnownIn(volumes) # {} => First(KnownIn(volumes)) \in Devs
      BY <2>1, FirstIsLeast, DevsAreNumbers
    <2> QED BY <2>1, <2>2 DEF Primary, StickInv, StickTypes
  <1>4. r \in Passes /\ r.pc = "scan" /\ r.point = Primary(Known)
    BY <1>3, ZenonT(60) DEF StickInv, StickTypes, Passes
  <1>5. StickTypes'
    BY <1>1, <1>4 DEF StickInv, StickTypes
  <1> HIDE DEF r
  <1>6. Scanning(r, volumes', mounts', library') /\ Ejecting(r, volumes', mounts', library')
    BY <1>1, <1>2, <1>3, <1>4 DEF Scanning, Ejecting
  <1> QED BY <1>1, <1>4, <1>5, <1>6, OtherIsIdle, WorkerKeeps

LEMMA ScanVolumeKeeps ==
  ASSUME StickInv, NEW t \in Goroutines, ScanVolume(t) PROVE StickInv'
  <1>1. /\ th[t].pc = "scan" /\ th' = [th EXCEPT ![t] = Free] /\ library' = On(th[t].point)
        /\ UNCHANGED <<plugged, mounts, volumes>>
    BY DEF ScanVolume, Step, Hw
  <1>2. /\ Agree(volumes, mounts)
        /\ th[t].point = IF KnownIn(volumes) = {} THEN 0 ELSE volumes[First(KnownIn(volumes))]
    BY <1>1 DEF StickInv, Scanning
  <1>3. Lists(volumes, library')
    <2>1. CASE KnownIn(volumes) = {}
      BY <1>1, <1>2, <2>1 DEF Lists, On
    <2>2. CASE KnownIn(volumes) # {}
      <3> DEFINE d == First(KnownIn(volumes))
      <3>1. d \in KnownIn(volumes)
        BY <2>2, FirstIsLeast, DevsAreNumbers
      <3> HIDE DEF d
      <3>2. d \in Devs /\ volumes[d] \in Points /\ mounts[volumes[d]] = <<d>>
        BY <1>2, <3>1 DEF KnownIn, Agree, StickInv, StickTypes
      <3>3. On(volumes[d]) = d
        BY <3>2, OnMounted DEF StickInv
      <3> QED BY <1>1, <1>2, <2>2, <3>3 DEF Lists, d
    <2> QED BY <2>1, <2>2
  <1>4. Free \in Passes /\ Free.pc = "idle"
    BY DEF Free, Passes
  <1>5. StickTypes'
    BY <1>1, <1>4 DEF StickInv, StickTypes
  <1>6. Scanning(Free, volumes', mounts', library') /\ Ejecting(Free, volumes', mounts', library')
    BY <1>4 DEF Scanning, Ejecting
  <1> QED BY <1>1, <1>2, <1>3, <1>5, <1>6, OtherIsIdle, WorkerKeeps

LEMMA StickKeeps ==
  ASSUME Alone, BusyIsFirst, StickInv, [StickNext]_stickVars PROVE StickInv'
  <1>1. CASE Plug
    BY <1>1 DEF Plug, StickInv, StickTypes, OneWorks, AtRest
  <1>2. CASE Discover(Watch, "scan") \/ \E op \in {"rescan", "eject"} : Discover(Web, op)
    BY <1>2, DiscoverKeeps DEF Goroutines
  <1>3. ASSUME NEW t \in Goroutines, StickSteps(t) PROVE StickInv'
    BY <1>3, DropGoneKeeps, PickPointKeeps, MountKeeps, StoreKeeps, CopyKeeps, UnmountKeeps,
       DeleteKeeps, ReadPrimaryKeeps, ScanVolumeKeeps DEF StickSteps
  <1>4. CASE UNCHANGED stickVars
    BY <1>4 DEF stickVars, StickInv, StickTypes, OneWorks, AtRest
  <1> QED BY <1>1, <1>2, <1>3, <1>4 DEF StickNext, Goroutines

(* A pass at a time, what bdplay has for mounted is what the kernel has, and
   the library is that of the first volume, whatever is pulled during a pass
   or does not mount, for any devices and mount points, as long as only the
   first device's unmounting is refused (player/storage.go, player/api.go). *)
THEOREM SticksHold == Alone /\ BusyIsFirst => (Spec => []SticksAreTrue)
  <1> SUFFICES ASSUME Alone, BusyIsFirst PROVE Spec => []SticksAreTrue
    OBVIOUS
  <1>1. Init => StickInv
    BY StartsOfParts, StickStarts
  <1>2. StickInv /\ [Next]_partsVars => StickInv'
    BY StepOfParts, StickKeeps
  <1>3. StickInv => SticksAreTrue
    <2> SUFFICES ASSUME StickInv, AtRest PROVE SticksAreTrue
      BY DEF SticksAreTrue, MountsAreVolumes, LibraryIsPrimary
    <2>1. Agree(volumes, mounts) /\ Lists(volumes, library)
      BY DEF StickInv
    <2>2. ASSUME NEW p \in Points
          PROVE  mounts[p] = IF \E d \in Devs : volumes[d] = p
                             THEN <<CHOOSE d \in Devs : volumes[d] = p>> ELSE <<>>
      <3>1. ASSUME NEW d \in Devs, volumes[d] = p PROVE mounts[p] = <<d>>
        BY <2>1, <3>1, DevsAreNumbers DEF Agree
      <3>2. CASE \E d \in Devs : volumes[d] = p
        <4> DEFINE e == CHOOSE d \in Devs : volumes[d] = p
        <4>1. e \in Devs /\ volumes[e] = p
          BY <3>2
        <4> QED BY <3>1, <3>2, <4>1
      <3>3. CASE ~ \E d \in Devs : volumes[d] = p
        BY <2>1, <3>3 DEF Agree
      <3> QED BY <3>2, <3>3
    <2>3. LibraryIsPrimary
      BY <2>1 DEF LibraryIsPrimary, Lists, Known, KnownIn
    <2> QED BY <2>2, <2>3 DEF SticksAreTrue, MountsAreVolumes
  <1> QED BY <1>1, <1>2, <1>3, PTL DEF Spec
-----------------------------------------------------------------------------
(* The browser: filtered sequences, the library, the rows, the cursor.      *)

(* The places of a set of numbers, counted from below.                      *)
LEMMA RanksAreOneToOne ==
  ASSUME NEW I \in SUBSET Nat, IsFiniteSet(I)
  PROVE  [i \in I |-> Cardinality({j \in I : j <= i})] \in Bijection(I, 1..Cardinality(I))
  <1> DEFINE upTo(i) == {j \in I : j <= i}
             rank    == [i \in I |-> Cardinality(upTo(i))]
             n       == Cardinality(I)
  <1>0. n \in Nat
    BY FS_CardinalityType
  <1>1. ASSUME NEW i \in I
        PROVE  IsFiniteSet(upTo(i)) /\ Cardinality(upTo(i)) \in 1..n
    <2>1. upTo(i) \in SUBSET I /\ upTo(i) # {}
      OBVIOUS
    <2>2. IsFiniteSet(upTo(i)) /\ Cardinality(upTo(i)) <= n
      BY <2>1, FS_Subset
    <2> DEFINE some == upTo(i)
    <2> HIDE DEF some
    <2>3. IsFiniteSet(some) => Cardinality(some) \in Nat /\ (Cardinality(some) = 0 <=> some = {})
      BY FS_CardinalityType, FS_EmptySet
    <2> QED BY <1>0, <2>1, <2>2, <2>3 DEF some
  <1>2. ASSUME NEW i \in I, NEW j \in I, i < j PROVE rank[i] < rank[j]
    <2>2. i \in Nat /\ j \in Nat /\ i < j /\ \A k \in I : k \in Nat
      BY <1>2
    <2>1. upTo(i) \in SUBSET upTo(j) /\ j \in upTo(j) /\ j \notin upTo(i)
      <3>1. ASSUME NEW k \in I, k <= i PROVE k <= j
        BY <2>2, <3>1
      <3>2. j <= j /\ ~(j <= i)
        BY <2>2
      <3> QED BY <3>1, <3>2, Zenon
    <2> HIDE DEF upTo
    <2> DEFINE lower  == upTo(i)
               higher == upTo(j)
    <2>3. IsFiniteSet(higher) /\ lower \in SUBSET higher /\ lower # higher
      BY <1>1, <2>1
    <2> HIDE DEF lower, higher
    <2>4. Cardinality(lower) <= Cardinality(higher) /\ Cardinality(lower) # Cardinality(higher)
      BY <2>3, FS_Subset
    <2>5. Cardinality(upTo(i)) <= Cardinality(upTo(j)) /\ Cardinality(upTo(i)) # Cardinality(upTo(j))
      BY <2>4 DEF lower, higher
    <2> QED BY <1>0, <1>1, <2>5
  <1>3. rank \in Injection(I, 1..n)
    <2>1. rank \in [I -> 1..n]
      BY <1>1
    <2>2. ASSUME NEW i \in I, NEW j \in I, rank[i] = rank[j] PROVE i = j
      <3>1. rank[i] \in Nat
        BY <1>0, <2>1
      <3> HIDE DEF rank
      <3> QED BY <1>2, <2>2, <3>1
    <2> QED BY <2>1, <2>2, Zenon DEF Injection, IsInjective
  <1>4. IsFiniteSet(1..n) /\ Cardinality(1..n) = n
    BY <1>0, FS_Interval
  <1> QED BY <1>3, <1>4, FS_Injection, Zenon DEF Bijection

(* A filter maps its places one to one to the ones it was taken from.       *)
LEMMA ThoseOf ==
  ASSUME NEW S, NEW s \in Seq(S), NEW I \in SUBSET DOMAIN s
  PROVE  /\ Cardinality(I) \in Nat
         /\ Those(s, I) \in Seq(S) /\ Len(Those(s, I)) = Cardinality(I)
         /\ \E place \in Bijection(1..Cardinality(I), I) :
               \A k \in 1..Cardinality(I) : Those(s, I)[k] = s[place[k]]
  <1> DEFINE n     == Cardinality(I)
             rank  == [i \in I |-> Cardinality({j \in I : j <= i})]
             place == [k \in 1..n |-> CHOOSE i \in I : Cardinality({j \in I : j <= i}) = k]
  <1>1. DOMAIN s = 1..Len(s) /\ Len(s) \in Nat
    OBVIOUS
  <1>2. IsFiniteSet(I) /\ n \in Nat
    <2>1. IsFiniteSet(1..Len(s)) /\ I \in SUBSET (1..Len(s))
      BY <1>1, FS_Interval
    <2> QED BY <2>1, FS_Subset, FS_CardinalityType
  <1>3. I \in SUBSET Nat
    BY <1>1
  <1>4. rank \in Bijection(I, 1..n)
    BY <1>2, <1>3, RanksAreOneToOne
  <1>5. ASSUME NEW k \in 1..n PROVE place[k] \in I /\ rank[place[k]] = k
    <2>1. PICK i \in I : rank[i] = k
      <3> HIDE DEF rank, n
      <3> QED BY <1>4 DEF Bijection, Surjection
    <2>2. Cardinality({j \in I : j <= i}) = k
      BY <2>1
    <2> QED BY <2>2
  <1>6. place \in [1..n -> I]
    BY <1>5
  <1>7. ASSUME NEW k \in 1..n, NEW l \in 1..n, place[k] = place[l] PROVE k = l
    BY <1>5, <1>7
  <1>8. ASSUME NEW i \in I PROVE \E k \in 1..n : place[k] = i
    <2>1. rank[i] \in 1..n
      BY <1>4 DEF Bijection, Injection
    <2>2. rank[place[rank[i]]] = rank[i] /\ place[rank[i]] \in I
      BY <1>5, <2>1
    <2> HIDE DEF rank, place
    <2>3. place[rank[i]] = i
      BY <1>4, <2>2 DEF Bijection, Injection, IsInjective
    <2> QED BY <2>1, <2>3
  <1>9. place \in Bijection(1..n, I)
    <2> HIDE DEF place
    <2> QED BY <1>6, <1>7, <1>8 DEF Bijection, Injection, Surjection, IsInjective
  <1>10. Those(s, I) = [k \in 1..n |-> s[place[k]]]
    BY DEF Those
  <1>11. \A k \in 1..n : s[place[k]] \in S
    <2> HIDE DEF place
    <2> QED BY <1>6
  <1> HIDE DEF place
  <1>12. Those(s, I) \in Seq(S) /\ Len(Those(s, I)) = n
    <2> HIDE DEF n
    <2> QED BY <1>2, <1>10, <1>11
  <1> QED BY <1>2, <1>9, <1>10, <1>12

LEMMA ThoseHave ==
  ASSUME NEW S, NEW s \in Seq(S), NEW I \in SUBSET DOMAIN s
  PROVE  /\ \A k \in DOMAIN Those(s, I) : \E i \in I : Those(s, I)[k] = s[i]
         /\ \A i \in I : \E k \in DOMAIN Those(s, I) : Those(s, I)[k] = s[i]
         /\ I = {} => Those(s, I) = <<>>
  <1> DEFINE n == Cardinality(I)
             t == Those(s, I)
  <1>1. PICK place \in Bijection(1..n, I) : \A k \in 1..n : t[k] = s[place[k]]
    BY ThoseOf
  <1>2. n \in Nat /\ t \in Seq(S) /\ Len(t) = n
    BY ThoseOf
  <1>3. DOMAIN t = 1..n
    <2> HIDE DEF t, n
    <2> QED BY <1>2
  <1>4. place \in [1..n -> I] /\ \A i \in I : \E k \in 1..n : place[k] = i
    BY DEF Bijection, Injection, Surjection
  <1>5. ASSUME I = {} PROVE t = <<>>
    <2>1. n = 0
      BY <1>5, FS_EmptySet
    <2> HIDE DEF t, n
    <2> QED BY <1>2, <2>1
  <1> HIDE DEF t, n
  <1>6. /\ \A k \in DOMAIN t : \E i \in I : t[k] = s[i]
        /\ \A i \in I : \E k \in DOMAIN t : t[k] = s[i]
    BY <1>1, <1>3, <1>4
  <1> QED BY <1>5, <1>6 DEF t

(* A filter keeps what is different apart.                                  *)
LEMMA ThoseDiffer ==
  ASSUME NEW S, NEW s \in Seq(S), NEW I \in SUBSET DOMAIN s,
         \A i, j \in DOMAIN s : s[i] = s[j] => i = j
  PROVE  \A k, l \in DOMAIN Those(s, I) : Those(s, I)[k] = Those(s, I)[l] => k = l
  <1> DEFINE n == Cardinality(I)
             t == Those(s, I)
  <1>1. PICK place \in Bijection(1..n, I) : \A k \in 1..n : t[k] = s[place[k]]
    BY ThoseOf
  <1>2. n \in Nat /\ t \in Seq(S) /\ Len(t) = n
    BY ThoseOf
  <1>3. DOMAIN t = 1..n
    <2> HIDE DEF t, n
    <2> QED BY <1>2
  <1>4. place \in [1..n -> I] /\ \A k, l \in 1..n : place[k] = place[l] => k = l
    BY DEF Bijection, Injection, IsInjective
  <1> HIDE DEF t, n
  <1>5. \A k, l \in DOMAIN t : t[k] = t[l] => k = l
    BY <1>1, <1>3, <1>4
  <1> QED BY <1>5 DEF t

-----------------------------------------------------------------------------
(* A folder is credited for what is inside it.                              *)
LEMMA InsideIsCredited ==
  ASSUME NEW sel \in Seq(STRING), NEW dir \in Seq(STRING)
  PROVE  sel \in Credits(dir) <=> Inside(sel, dir)
  <1>1. ASSUME NEW n \in 0..Len(dir), sel = SubSeq(dir, 1, n) PROVE Inside(sel, dir)
    <2>1. Len(sel) = n
      BY <1>1, SubSeqProperties
    <2> QED BY <1>1, <2>1 DEF Inside
  <1>2. ASSUME Inside(sel, dir) PROVE sel \in Credits(dir)
    <2>1. Len(sel) \in 0..Len(dir) /\ sel = SubSeq(dir, 1, Len(sel))
      BY <1>2, LenProperties DEF Inside
    <2> QED BY <2>1 DEF Credits
  <1> QED BY <1>1, <1>2 DEF Credits

LEMMA RootIsCredited == \A dir \in Seq(STRING) : <<>> \in Credits(dir)
  <1> SUFFICES ASSUME NEW dir \in Seq(STRING) PROVE <<>> \in Credits(dir)
    OBVIOUS
  <1>1. <<>> \in Seq(STRING) /\ Len(<<>>) = 0
    OBVIOUS
  <1>2. SubSeq(dir, 1, 0) = <<>>
    BY SubSeqProperties
  <1>3. 0 \in 0..Len(dir)
    BY LenProperties
  <1> QED BY <1>2, <1>3 DEF Credits

(* What is above a folder is credited for whatever the folder is.           *)
LEMMA ParentIsCredited ==
  ASSUME NEW dir \in Seq(STRING), NEW below \in Seq(STRING), dir # <<>>, dir \in Credits(below)
  PROVE  Parent(dir) \in Credits(below) /\ Parent(dir) \in Seq(STRING)
  <1>1. PICK n \in 0..Len(below) : dir = SubSeq(below, 1, n)
    BY DEF Credits
  <1>2. Len(dir) = n /\ n > 0
    BY <1>1, SubSeqProperties, EmptySeq
  <1>3. Parent(dir) = SubSeq(below, 1, n - 1)
    <2>1. Parent(dir) \in Seq(STRING) /\ Len(Parent(dir)) = n - 1
      BY <1>2, SubSeqProperties DEF Parent
    <2>2. SubSeq(below, 1, n - 1) \in Seq(STRING) /\ Len(SubSeq(below, 1, n - 1)) = n - 1
      BY <1>2, SubSeqProperties
    <2>3. ASSUME NEW k \in 1..(n - 1) PROVE Parent(dir)[k] = SubSeq(below, 1, n - 1)[k]
      BY <1>1, <1>2, SubSeqProperties DEF Parent
    <2> QED BY <2>1, <2>2, <2>3, SeqEqual
  <1>4. n - 1 \in 0..Len(below)
    BY <1>2
  <1>5. Parent(dir) \in Seq(STRING)
    BY <1>2, SubSeqProperties DEF Parent
  <1> QED BY <1>3, <1>4, <1>5 DEF Credits

-----------------------------------------------------------------------------
NoFile == NoStick[1]
AnyFile == File \cup {NoFile}
Inserted == Sticks \cup {NoStick}

LEMMA StickTyped ==
  ASSUME NEW s \in Inserted
  PROVE  s \in Seq(AnyFile) /\ \A i \in DOMAIN s : Counted(s[i]) => s \in Sticks /\ s[i] \in File
  <1>1. CASE s \in Sticks
    <2>1. s \in Seq(File)
      BY <1>1, SticksAssumption
    <2> QED BY <1>1, <2>1 DEF AnyFile
  <1>2. CASE s = NoStick
    BY <1>2 DEF NoStick, AnyFile, NoFile, Counted, Listed
  <1> QED BY <1>1, <1>2 DEF Inserted

LEMMA PlayableAre ==
  ASSUME NEW s \in Inserted
  PROVE  /\ Playable(s) \in Seq(File)
         /\ \A k \in DOMAIN Playable(s) :
               \E i \in DOMAIN s : Playable(s)[k] = s[i] /\ Counted(s[i]) /\ s \in Sticks
         /\ \A i \in DOMAIN s : Counted(s[i]) => \E k \in DOMAIN Playable(s) : Playable(s)[k] = s[i]
  <1> DEFINE I == {i \in DOMAIN s : Counted(s[i])}
  <1>1. s \in Seq(AnyFile) /\ I \in SUBSET DOMAIN s /\ Playable(s) = Those(s, I)
    BY StickTyped DEF Playable
  <1>2. \A i \in I : s \in Sticks /\ s[i] \in File
    BY StickTyped
  <1>3. Playable(s) \in Seq(AnyFile) /\ \A k \in DOMAIN Playable(s) : \E i \in I : Playable(s)[k] = s[i]
    <2> HIDE DEF I
    <2> QED BY <1>1, ThoseOf, ThoseHave
  <1>4. Playable(s) \in Seq(File)
    BY <1>2, <1>3
  <1>5. \A i \in I : \E k \in DOMAIN Playable(s) : Playable(s)[k] = s[i]
    <2> HIDE DEF I
    <2> QED BY <1>1, ThoseHave
  <1> QED BY <1>2, <1>3, <1>4, <1>5

LEMMA ItemsAre ==
  ASSUME NEW s \in Sticks
  PROVE  /\ Items(s) \in Seq(File)
         /\ \A k \in DOMAIN Items(s) : \E i \in DOMAIN s : Items(s)[k] = s[i]
  <1> DEFINE I == {i \in DOMAIN s : Listed(s[i])}
  <1>1. s \in Seq(File) /\ I \in SUBSET DOMAIN s /\ Items(s) = Those(s, I)
    BY SticksAssumption DEF Items
  <1> HIDE DEF I
  <1>2. Those(s, I) \in Seq(File) /\ \A k \in DOMAIN Those(s, I) : \E i \in I : Those(s, I)[k] = s[i]
    BY <1>1, ThoseOf, ThoseHave
  <1> QED BY <1>1, <1>2

LEMMA TotalIsNumber ==
  ASSUME NEW s \in Inserted, NEW dir
  PROVE  /\ Total(s, dir) \in Nat
         /\ Total(s, dir) > 0 <=> \E k \in DOMAIN Playable(s) : dir \in Credits(Playable(s)[k].dir)
  <1> DEFINE P == Playable(s)
             I == {k \in DOMAIN P : dir \in Credits(P[k].dir)}
  <1>1. P \in Seq(File) /\ I \in SUBSET DOMAIN P
    BY PlayableAre
  <1>2. IsFiniteSet(DOMAIN P)
    <2>1. DOMAIN P = 1..Len(P) /\ Len(P) \in Nat
      <3> HIDE DEF P
      <3> QED BY <1>1
    <2> QED BY <2>1, FS_Interval
  <1>3. IsFiniteSet(I) /\ Cardinality(I) \in Nat
    <2> HIDE DEF P, I
    <2> QED BY <1>1, <1>2, FS_Subset, FS_CardinalityType
  <1>4. Cardinality(I) = 0 <=> I = {}
    <2> HIDE DEF I
    <2> QED BY <1>3, FS_EmptySet
  <1>5. Total(s, dir) = Cardinality(I)
    BY DEF Total
  <1> HIDE DEF P
  <1>6. I # {} <=> \E k \in DOMAIN P : dir \in Credits(P[k].dir)
    OBVIOUS
  <1> HIDE DEF I
  <1> QED BY <1>3, <1>4, <1>5, <1>6 DEF P

(* The folder that has something in it has no file of its name.             *)
LEMMA NoFileAtFolder ==
  ASSUME NEW s \in Inserted, NEW dir, Total(s, dir) > 0
  PROVE  ItemsAt(s, dir) = <<>>
  <1> DEFINE P == Playable(s)
             I == {k \in DOMAIN P : Rel(P[k]) = dir}
  <1>1. PICK k \in DOMAIN P : dir \in Credits(P[k].dir)
    BY TotalIsNumber
  <1>2. ASSUME NEW l \in I PROVE FALSE
    <2>1. PICK i \in DOMAIN s : P[k] = s[i] /\ s \in Sticks
      BY PlayableAre
    <2>2. PICK j \in DOMAIN s : P[l] = s[j]
      BY PlayableAre
    <2> QED BY <1>1, <1>2, <2>1, <2>2, SticksAssumption
  <1>3. I = {} /\ P \in Seq(File)
    BY <1>2, PlayableAre
  <1> QED BY <1>3, ThoseHave DEF ItemsAt

(* What a folder plays is what it was credited for.                         *)
LEMMA FolderPlaysItsTotal ==
  ASSUME NEW s \in Inserted, NEW dir \in Seq(STRING), Total(s, dir) > 0
  PROVE  Len(Select(s, dir, TRUE)) = Total(s, dir)
  <1> DEFINE P == Playable(s)
             I == {k \in DOMAIN P : dir \in Credits(P[k].dir)}
             J == {k \in DOMAIN P : \/ dir = <<>>
                                    \/ TRUE /\ Inside(dir, P[k].dir)
                                    \/ ~TRUE /\ P[k].dir = dir}
  <1>1. P \in Seq(File)
    BY PlayableAre
  <1>2. \A k \in DOMAIN P : P[k].dir \in Seq(STRING)
    <2> HIDE DEF P
    <2>1. \A k \in DOMAIN P : P[k] \in File
      BY <1>1
    <2> QED BY <2>1 DEF File
  <1>3. I = J
    <2> HIDE DEF P
    <2> QED BY <1>2, InsideIsCredited, RootIsCredited
  <1>4. Select(s, dir, TRUE) = Those(P, J)
    BY NoFileAtFolder DEF Select
  <1>5. Len(Those(P, J)) = Cardinality(J)
    BY <1>1, ThoseOf
  <1> QED BY <1>3, <1>4, <1>5 DEF Total

(* A row that is not gray plays the one item it stands for.                 *)
LEMMA FileIsAlone ==
  ASSUME NEW s \in Inserted, NEW i \in DOMAIN s, Counted(s[i])
  PROVE  Len(ItemsAt(s, Rel(s[i]))) = 1
  <1> DEFINE I == {a \in DOMAIN s : Counted(s[a])}
             P == Playable(s)
             J == {k \in DOMAIN P : Rel(P[k]) = Rel(s[i])}
  <1>1. s \in Sticks /\ s \in Seq(AnyFile)
    BY StickTyped
  <1>2. \A a, b \in DOMAIN s : Rel(s[a]) = Rel(s[b]) => a = b
    BY <1>1, SticksAssumption
  <1>3. \A k, l \in DOMAIN P : P[k] = P[l] => k = l
    <2>1. I \in SUBSET DOMAIN s /\ \A a, b \in DOMAIN s : s[a] = s[b] => a = b
      BY <1>2
    <2>2. P = Those(s, I)
      BY DEF Playable
    <2> HIDE DEF I, P
    <2> QED BY <1>1, <2>1, <2>2, ThoseDiffer
  <1>4. PICK k \in DOMAIN P : P[k] = s[i]
    BY PlayableAre
  <1>5. ASSUME NEW l \in J PROVE l = k
    <2>1. PICK b \in DOMAIN s : P[l] = s[b]
      BY PlayableAre
    <2>2. b = i
      BY <1>2, <1>5, <2>1
    <2> HIDE DEF P
    <2> QED BY <1>3, <1>4, <2>1, <2>2
  <1>6. J = {k}
    BY <1>4, <1>5
  <1>7. Cardinality(J) = 1
    BY <1>6, FS_Singleton, Zenon
  <1>8. P \in Seq(File) /\ J \in SUBSET DOMAIN P /\ ItemsAt(s, Rel(s[i])) = Those(P, J)
    BY PlayableAre DEF ItemsAt
  <1>9. Len(Those(P, J)) = Cardinality(J)
    <2> HIDE DEF P, J
    <2> QED BY <1>8, ThoseOf
  <1> QED BY <1>7, <1>8, <1>9

LEMMA FoldersAre ==
  ASSUME NEW s \in Inserted
  PROVE  /\ Folders(s) \in Seq(Seq(STRING))
         /\ \A i \in DOMAIN Folders(s) : Total(s, Folders(s)[i]) > 0
         /\ \A i, j \in DOMAIN Folders(s) : Folders(s)[i] = Folders(s)[j] => i = j
  <1> DEFINE I == {i \in DOMAIN Tree : Total(s, Tree[i]) > 0}
  <1>1. /\ Tree \in Seq(Seq(STRING)) /\ I \in SUBSET DOMAIN Tree
        /\ \A i, j \in DOMAIN Tree : Tree[i] = Tree[j] => i = j
    BY SticksAssumption
  <1>2. \A i \in I : Total(s, Tree[i]) > 0
    OBVIOUS
  <1>3. Folders(s) = Those(Tree, I)
    BY DEF Folders
  <1> HIDE DEF I
  <1>4. /\ Folders(s) \in Seq(Seq(STRING))
        /\ \A k \in DOMAIN Folders(s) : \E i \in I : Folders(s)[k] = Tree[i]
    <2>1. Those(Tree, I) \in Seq(Seq(STRING))
      BY <1>1, ThoseOf
    <2>2. \A k \in DOMAIN Those(Tree, I) : \E i \in I : Those(Tree, I)[k] = Tree[i]
      BY <1>1, ThoseHave
    <2> QED BY <1>3, <2>1, <2>2
  <1>5. \A k, l \in DOMAIN Folders(s) : Folders(s)[k] = Folders(s)[l] => k = l
    BY <1>1, <1>3, ThoseDiffer
  <1> QED BY <1>2, <1>4, <1>5

(* A folder is in the list for as long as there is something to play in it. *)
LEMMA ExistsIfCounted ==
  ASSUME NEW s \in Inserted, NEW dir
  PROVE  Exists(s, dir) <=> Total(s, dir) > 0
  <1> DEFINE I == {i \in DOMAIN Tree : Total(s, Tree[i]) > 0}
  <1>1. ASSUME Total(s, dir) > 0 PROVE Exists(s, dir)
    <2>1. PICK k \in DOMAIN Playable(s) : dir \in Credits(Playable(s)[k].dir)
      BY <1>1, TotalIsNumber
    <2>2. PICK a \in DOMAIN s : Playable(s)[k] = s[a] /\ Counted(s[a]) /\ s \in Sticks
      BY PlayableAre
    <2>3. PICK j \in DOMAIN Tree : Tree[j] = dir
      <3>1. \A d \in Credits(s[a].dir) : \E j \in DOMAIN Tree : Tree[j] = d
        BY <2>2, SticksAssumption
      <3> QED BY <2>1, <2>2, <3>1
    <2>4. Tree \in Seq(Seq(STRING)) /\ I \in SUBSET DOMAIN Tree /\ j \in I
      BY <1>1, <2>3, SticksAssumption
    <2>5. Folders(s) = Those(Tree, I)
      BY DEF Folders
    <2> HIDE DEF I
    <2>6. \E k2 \in DOMAIN Those(Tree, I) : Those(Tree, I)[k2] = Tree[j]
      BY <2>4, ThoseHave
    <2> QED BY <2>3, <2>5, <2>6 DEF Exists
  <1> QED BY <1>1, FoldersAre DEF Exists

LEMMA SubFoldersAre ==
  ASSUME NEW s \in Inserted, NEW dir
  PROVE  /\ SubFolders(s, dir) \in Seq(Seq(STRING))
         /\ \A k \in DOMAIN SubFolders(s, dir) :
               LET d == SubFolders(s, dir)[k] IN d # <<>> /\ Parent(d) = dir /\ Total(s, d) > 0
         /\ \A k, l \in DOMAIN SubFolders(s, dir) :
               SubFolders(s, dir)[k] = SubFolders(s, dir)[l] => k = l
  <1> DEFINE F == Folders(s)
             I == {i \in DOMAIN F : F[i] # <<>> /\ Parent(F[i]) = dir}
  <1>1. /\ F \in Seq(Seq(STRING)) /\ I \in SUBSET DOMAIN F
        /\ \A i \in DOMAIN F : Total(s, F[i]) > 0
        /\ \A i, j \in DOMAIN F : F[i] = F[j] => i = j
    BY FoldersAre
  <1>2. \A i \in I : F[i] # <<>> /\ Parent(F[i]) = dir
    OBVIOUS
  <1>3. SubFolders(s, dir) = Those(F, I)
    BY DEF SubFolders
  <1> HIDE DEF F, I
  <1>4. /\ SubFolders(s, dir) \in Seq(Seq(STRING))
        /\ \A k \in DOMAIN SubFolders(s, dir) : \E i \in I : SubFolders(s, dir)[k] = F[i]
    <2>1. Those(F, I) \in Seq(Seq(STRING))
      BY <1>1, ThoseOf
    <2>2. \A k \in DOMAIN Those(F, I) : \E i \in I : Those(F, I)[k] = F[i]
      BY <1>1, ThoseHave
    <2> QED BY <1>3, <2>1, <2>2
  <1>5. \A k, l \in DOMAIN SubFolders(s, dir) : SubFolders(s, dir)[k] = SubFolders(s, dir)[l] => k = l
    BY <1>1, <1>3, ThoseDiffer
  <1> QED BY <1>1, <1>2, <1>4, <1>5

LEMMA FilesInAre ==
  ASSUME NEW s \in Sticks, NEW dir
  PROVE  /\ FilesIn(s, dir) \in Seq(File)
         /\ \A k \in DOMAIN FilesIn(s, dir) : \E i \in DOMAIN s : FilesIn(s, dir)[k] = s[i]
  <1> DEFINE A == Items(s)
             I == {i \in DOMAIN A : A[i].dir = dir}
  <1>1. A \in Seq(File) /\ I \in SUBSET DOMAIN A /\ \A k \in DOMAIN A : \E i \in DOMAIN s : A[k] = s[i]
    BY ItemsAre
  <1>2. FilesIn(s, dir) = Those(A, I)
    BY DEF FilesIn
  <1> HIDE DEF A, I
  <1>3. /\ FilesIn(s, dir) \in Seq(File)
        /\ \A k \in DOMAIN FilesIn(s, dir) : \E i \in I : FilesIn(s, dir)[k] = A[i]
    BY <1>1, <1>2, ThoseOf, ThoseHave
  <1> QED BY <1>1, <1>3

-----------------------------------------------------------------------------
Rows == [kind : {"up", "all", "folder", "file", "gray"}, rel : Seq(STRING), count : Nat]

UpRow(dir)     == Row("up", Parent(dir), 0)
AllRow(s, dir) == Row("all", dir, Total(s, dir))

LEMMA ParentIsFolder == \A dir \in Seq(STRING) : Parent(dir) \in Seq(STRING)
  <1> SUFFICES ASSUME NEW dir \in Seq(STRING) PROVE Parent(dir) \in Seq(STRING)
    OBVIOUS
  <1>1. CASE Len(dir) = 0
    BY <1>1, SubSeqProperties DEF Parent
  <1>2. CASE Len(dir) # 0
    BY <1>2, SubSeqProperties, LenProperties DEF Parent
  <1> QED BY <1>1, <1>2

LEMMA RowsTyped ==
  ASSUME NEW s \in Inserted, NEW dir \in Seq(STRING)
  PROVE  /\ UpRows(dir) \in Seq(Rows) /\ Len(UpRows(dir)) \in Nat
         /\ \A i \in DOMAIN UpRows(dir) : UpRows(dir)[i] = UpRow(dir) /\ dir # <<>>
         /\ AllRows(s, dir) \in Seq(Rows)
         /\ \A i \in DOMAIN AllRows(s, dir) : AllRows(s, dir)[i] = AllRow(s, dir) /\ Total(s, dir) > 0
         /\ \A k \in DOMAIN SubFolders(s, dir) : FolderRow(s, SubFolders(s, dir)[k]) \in Rows
         /\ \A f \in File : FileRow(f) \in Rows
  <1>1. UpRow(dir) \in Rows /\ AllRow(s, dir) \in Rows
    BY ParentIsFolder, TotalIsNumber DEF Rows, Row, UpRow, AllRow
  <1>2. \A f \in File : FileRow(f) \in Rows
    <2> SUFFICES ASSUME NEW f \in File PROVE FileRow(f) \in Rows
      OBVIOUS
    <2>1. f.dir \in Seq(STRING) /\ f.name \in STRING
      BY DEF File
    <2>2. Rel(f) \in Seq(STRING)
      BY <2>1, AppendProperties DEF Rel
    <2> QED BY <2>2 DEF FileRow, Rows, Row
  <1>3. \A k \in DOMAIN SubFolders(s, dir) : FolderRow(s, SubFolders(s, dir)[k]) \in Rows
    <2> SUFFICES ASSUME NEW k \in DOMAIN SubFolders(s, dir) PROVE FolderRow(s, SubFolders(s, dir)[k]) \in Rows
      OBVIOUS
    <2>1. SubFolders(s, dir)[k] \in Seq(STRING)
      BY SubFoldersAre
    <2> QED BY <2>1, TotalIsNumber DEF FolderRow, Row, Rows
  <1> QED BY <1>1, <1>2, <1>3 DEF UpRows, AllRows, UpRow, AllRow

(* What the rows are, and that no folder has two.                           *)
LEMMA EntriesAre ==
  ASSUME NEW s \in Inserted, NEW dir \in Seq(STRING)
  PROVE  /\ Entries(s, dir) \in Seq(Rows)
         /\ \A i \in DOMAIN Entries(s, dir) :
               LET row == Entries(s, dir)[i] IN
               \/ row = UpRow(dir) /\ dir # <<>>
               \/ row = AllRow(s, dir) /\ Total(s, dir) > 0
               \/ \E k \in DOMAIN SubFolders(s, dir) : row = FolderRow(s, SubFolders(s, dir)[k])
               \/ \E k \in DOMAIN FilesIn(s, dir) : row = FileRow(FilesIn(s, dir)[k])
         /\ \A i, j \in DOMAIN Entries(s, dir) :
               /\ Entries(s, dir)[i].kind = "folder" /\ Entries(s, dir)[j].kind = "folder"
               /\ Entries(s, dir)[i].rel = Entries(s, dir)[j].rel
               => i = j
  <1> DEFINE U == UpRows(dir)
             A == AllRows(s, dir)
             sub == SubFolders(s, dir)
             in == FilesIn(s, dir)
             B == [k \in DOMAIN sub |-> FolderRow(s, sub[k])]
             C == [k \in DOMAIN in |-> FileRow(in[k])]
             H == U \o A
             E == H \o B \o C
  <1>1. CASE s = NoStick
    BY <1>1 DEF Entries
  <1>2. CASE s # NoStick
    <2> s \in Sticks
      BY <1>2 DEF Inserted
    <2>1. Entries(s, dir) = E
      BY <1>2 DEF Entries
    <2>2. U \in Seq(Rows) /\ A \in Seq(Rows)
      BY RowsTyped
    <2>3. B \in Seq(Rows) /\ DOMAIN B = DOMAIN sub /\ \A k \in DOMAIN sub : B[k] = FolderRow(s, sub[k])
      <3>1. sub \in Seq(Seq(STRING)) /\ \A k \in DOMAIN sub : FolderRow(s, sub[k]) \in Rows
        BY SubFoldersAre, RowsTyped
      <3> HIDE DEF sub
      <3>2. Len(sub) \in Nat /\ DOMAIN sub = 1..Len(sub)
        BY <3>1
      <3> QED BY <3>1, <3>2
    <2>4. C \in Seq(Rows) /\ DOMAIN C = DOMAIN in /\ \A k \in DOMAIN in : C[k] = FileRow(in[k])
      <3>1. in \in Seq(File) /\ \A f \in File : FileRow(f) \in Rows
        BY FilesInAre, RowsTyped
      <3> HIDE DEF in
      <3>2. Len(in) \in Nat /\ DOMAIN in = 1..Len(in) /\ \A k \in DOMAIN in : FileRow(in[k]) \in Rows
        BY <3>1
      <3> QED BY <3>2
    <2>5. \A i \in DOMAIN U : U[i] = UpRow(dir) /\ dir # <<>>
      BY RowsTyped
    <2>6. \A i \in DOMAIN A : A[i] = AllRow(s, dir) /\ Total(s, dir) > 0
      BY RowsTyped
    <2>7. H \in Seq(Rows) /\ \A i \in DOMAIN H :
             \/ H[i] = UpRow(dir) /\ dir # <<>>
             \/ H[i] = AllRow(s, dir) /\ Total(s, dir) > 0
      <3> HIDE DEF U, A
      <3>1. H \in Seq(Rows) /\ Len(H) = Len(U) + Len(A)
        BY <2>2
      <3>2. ASSUME NEW i \in DOMAIN H
            PROVE  (i \in DOMAIN U /\ H[i] = U[i]) \/ (i - Len(U) \in DOMAIN A /\ H[i] = A[i - Len(U)])
        BY <2>2
      <3>3. H \in Seq(Rows)
        BY <3>1
      <3> HIDE DEF H
      <3> QED BY <2>5, <2>6, <3>2, <3>3
    <2> HIDE DEF H, B, C
    <2>8. E \in Seq(Rows)
      BY <2>3, <2>4, <2>7
    <2>9. ASSUME NEW i \in DOMAIN E
          PROVE  \/ i \in DOMAIN H /\ E[i] = H[i]
                 \/ i - Len(H) \in DOMAIN B /\ E[i] = B[i - Len(H)]
                 \/ i - Len(H) - Len(B) \in DOMAIN C /\ E[i] = C[i - Len(H) - Len(B)]
      BY <2>3, <2>4, <2>7
    <2>10. \A i \in DOMAIN E :
               \/ E[i] = UpRow(dir) /\ dir # <<>>
               \/ E[i] = AllRow(s, dir) /\ Total(s, dir) > 0
               \/ \E k \in DOMAIN sub : E[i] = FolderRow(s, sub[k])
               \/ \E k \in DOMAIN in : E[i] = FileRow(in[k])
      <3> HIDE DEF E, sub, in
      <3> QED BY <2>3, <2>4, <2>7, <2>9
    <2>11. ASSUME NEW i \in DOMAIN E, E[i].kind = "folder"
           PROVE  i - Len(H) \in DOMAIN sub /\ E[i].rel = sub[i - Len(H)]
      <3>1. UpRow(dir).kind # "folder" /\ AllRow(s, dir).kind # "folder" /\ \A f : FileRow(f).kind # "folder"
        BY DEF UpRow, AllRow, FileRow, Row
      <3>2. \A d : FolderRow(s, d).rel = d
        BY DEF FolderRow, Row
      <3> HIDE DEF E, sub, in
      <3>3. ~(i \in DOMAIN H /\ E[i] = H[i])
        BY <2>7, <2>11, <3>1
      <3>4. ~(i - Len(H) - Len(B) \in DOMAIN C /\ E[i] = C[i - Len(H) - Len(B)])
        BY <2>4, <2>11, <3>1
      <3>5. i - Len(H) \in DOMAIN sub /\ E[i] = FolderRow(s, sub[i - Len(H)])
        BY <2>3, <2>9, <3>3, <3>4
      <3> QED BY <3>2, <3>5
    <2>12. \A k, l \in DOMAIN sub : sub[k] = sub[l] => k = l
      BY SubFoldersAre
    <2>13. ASSUME NEW i \in DOMAIN E, NEW j \in DOMAIN E, E[i].kind = "folder", E[j].kind = "folder",
                  E[i].rel = E[j].rel
           PROVE  i = j
      <3>1. i - Len(H) = j - Len(H)
        BY <2>11, <2>12, <2>13
      <3>2. i \in Nat /\ j \in Nat /\ Len(H) \in Nat
        BY <2>7, <2>8
      <3> QED BY <3>1, <3>2
    <2> HIDE DEF E, sub, in
    <2> QED BY <2>1, <2>8, <2>10, <2>13 DEF sub, in
  <1> QED BY <1>1, <1>2

(* A row plays as many items as it says.                                    *)
LEMMA RowsHold ==
  ASSUME stick \in Inserted, menu.dir \in Seq(STRING)
  PROVE  RowsAreHonest
  <1> SUFFICES ASSUME NEW i \in DOMAIN Entries(stick, menu.dir)
               PROVE  LET row == Entries(stick, menu.dir)[i] IN
                      /\ row.kind \in {"file", "all"} => Len(SelectionFor(stick, row)) = row.count
                      /\ row.kind = "folder" => Len(Select(stick, row.rel, TRUE)) = row.count /\ row.count > 0
    BY DEF RowsAreHonest
  <1> DEFINE row == Entries(stick, menu.dir)[i]
             dir == menu.dir
  <1>1. CASE row = UpRow(dir)
    BY <1>1 DEF UpRow, Row
  <1>2. CASE row = AllRow(stick, dir) /\ Total(stick, dir) > 0
    <2>1. row.kind = "all" /\ row.rel = dir /\ row.count = Total(stick, dir)
      BY <1>2 DEF AllRow, Row
    <2> HIDE DEF row
    <2>2. Len(SelectionFor(stick, row)) = row.count
      BY <1>2, <2>1, FolderPlaysItsTotal DEF SelectionFor
    <2> QED BY <2>1, <2>2 DEF row
  <1>3. ASSUME NEW k \in DOMAIN SubFolders(stick, dir), row = FolderRow(stick, SubFolders(stick, dir)[k])
        PROVE  row.kind = "folder" /\ Len(Select(stick, row.rel, TRUE)) = row.count /\ row.count > 0
    <2> DEFINE d == SubFolders(stick, dir)[k]
    <2>1. d \in Seq(STRING) /\ Total(stick, d) > 0
      BY SubFoldersAre
    <2>2. row.kind = "folder" /\ row.rel = d /\ row.count = Total(stick, d)
      BY <1>3 DEF FolderRow, Row
    <2> HIDE DEF row, d
    <2> QED BY <2>1, <2>2, FolderPlaysItsTotal
  <1>4. ASSUME NEW k \in DOMAIN FilesIn(stick, dir), row = FileRow(FilesIn(stick, dir)[k])
        PROVE  /\ row.kind \in {"file", "gray"}
               /\ row.kind = "file" => Len(SelectionFor(stick, row)) = row.count
    <2> stick \in Sticks
      BY DEF Inserted, Entries
    <2>1. PICK a \in DOMAIN stick : FilesIn(stick, dir)[k] = stick[a]
      BY FilesInAre
    <2>2. row.kind \in {"file", "gray"} /\ row.rel = Rel(stick[a]) /\ row.count = 1
      BY <1>4, <2>1 DEF FileRow, Row
    <2>3. ASSUME row.kind = "file" PROVE Counted(stick[a])
      BY <1>4, <2>1, <2>3 DEF FileRow, Row
    <2> HIDE DEF row
    <2> QED BY <2>2, <2>3, FileIsAlone DEF SelectionFor
  <1>5. \/ row = UpRow(dir)
        \/ row = AllRow(stick, dir) /\ Total(stick, dir) > 0
        \/ \E k \in DOMAIN SubFolders(stick, dir) : row = FolderRow(stick, SubFolders(stick, dir)[k])
        \/ \E k \in DOMAIN FilesIn(stick, dir) : row = FileRow(FilesIn(stick, dir)[k])
    BY EntriesAre
  <1> HIDE DEF row, dir
  <1>6. /\ row.kind \in {"file", "all"} => Len(SelectionFor(stick, row)) = row.count
        /\ row.kind = "folder" => Len(Select(stick, row.rel, TRUE)) = row.count /\ row.count > 0
    BY <1>1, <1>2, <1>3, <1>4, <1>5 DEF row
  <1> QED BY <1>6 DEF row, dir

-----------------------------------------------------------------------------
Menus == [dir : Seq(STRING), cursor : Nat, top : Nat]

(* The cursor is on a row, and that row in the window.                      *)
OnARow(m, rows) == IF Len(rows) = 0 THEN m.cursor = 0 ELSE m.cursor < Len(rows)
InWindow(m)     == m.top <= m.cursor /\ m.cursor < m.top + ScreenRows

Placed(s, m) ==
  /\ m \in Menus /\ OnARow(m, Entries(s, m.dir)) /\ InWindow(m)
  /\ s = NoStick => m.dir = <<>>
  /\ m.dir # <<>> => Total(s, m.dir) > 0

(* The viewer was at m, on the row of the folder dir, and went into it.     *)
CameBy(s, m, dir) ==
  /\ m \in Menus /\ dir # <<>> /\ Parent(dir) = m.dir
  /\ m.cursor + 1 \in DOMAIN Entries(s, m.dir)
  /\ LET row == Entries(s, m.dir)[m.cursor + 1] IN row.kind = "folder" /\ row.rel = dir

BrowserInv ==
  /\ stick \in Inserted /\ Placed(stick, menu)
  /\ trail \in Seq(Menus)
  /\ trail # <<>> => CameBy(stick, trail[1], menu.dir)
  /\ \A k \in 1..(Len(trail) - 1) : CameBy(stick, trail[k + 1], trail[k].dir)

LEMMA EntriesCounted ==
  ASSUME NEW s \in Inserted, NEW dir \in Seq(STRING)
  PROVE  /\ Len(Entries(s, dir)) \in Nat /\ DOMAIN Entries(s, dir) = 1..Len(Entries(s, dir))
         /\ s = NoStick => Len(Entries(s, dir)) = 0
  <1>1. Entries(s, dir) \in Seq(Rows)
    BY EntriesAre
  <1>2. s = NoStick => Entries(s, dir) = <<>>
    BY DEF Entries
  <1> QED BY <1>1, <1>2

(* The window follows the cursor, wherever it was.                          *)
LEMMA ClampedIsPlaced ==
  ASSUME NEW m \in Menus
  PROVE  /\ Clamped(m) \in Menus /\ Clamped(m).dir = m.dir /\ Clamped(m).cursor = m.cursor
         /\ InWindow(Clamped(m))
  <1>1. ScreenRows \in Nat /\ ScreenRows > 0
    BY SticksAssumption
  <1>2. m.cursor \in Nat /\ m.top \in Nat /\ m.dir \in Seq(STRING)
    BY DEF Menus
  <1> DEFINE up  == AtMost(m.top, m.cursor)
             top == AtLeast(IF m.cursor >= up + ScreenRows THEN m.cursor - ScreenRows + 1 ELSE up, 0)
  <1>3. top \in Nat /\ top <= m.cursor /\ m.cursor < top + ScreenRows
    BY <1>1, <1>2 DEF AtMost, AtLeast
  <1>4. Clamped(m) = [m EXCEPT !.top = top]
    BY DEF Clamped
  <1> HIDE DEF top
  <1> QED BY <1>2, <1>3, <1>4 DEF Menus, InWindow

LEMMA RebuiltIsPlaced ==
  ASSUME NEW s \in Inserted, NEW m \in Menus,
         s = NoStick => m.dir = <<>>, m.dir # <<>> => Total(s, m.dir) > 0
  PROVE  /\ Placed(s, Rebuilt(s, m)) /\ Rebuilt(s, m).dir = m.dir
         /\ m.cursor = 0 => Rebuilt(s, m).cursor = 0
  <1> DEFINE n == Len(Entries(s, m.dir))
             c == AtLeast(AtMost(m.cursor, n - 1), 0)
             k == [m EXCEPT !.cursor = c]
  <1>1. m.cursor \in Nat /\ m.top \in Nat /\ m.dir \in Seq(STRING)
    BY DEF Menus
  <1>2. n \in Nat
    BY <1>1, EntriesCounted
  <1>3. CASE s = NoStick
    <2>1. Rebuilt(s, m) = [m EXCEPT !.cursor = 0, !.top = 0]
      BY <1>3 DEF Rebuilt
    <2>2. Rebuilt(s, m) \in Menus /\ Rebuilt(s, m).dir = m.dir
          /\ Rebuilt(s, m).cursor = 0 /\ Rebuilt(s, m).top = 0
      <3>1. Rebuilt(s, m) = [dir |-> m.dir, cursor |-> 0, top |-> 0]
        BY <2>1 DEF Menus
      <3> QED BY <1>1, <3>1 DEF Menus
    <2>3. Len(Entries(s, m.dir)) = 0 /\ ScreenRows \in Nat /\ ScreenRows > 0
      BY <1>1, <1>3, EntriesCounted, SticksAssumption
    <2> QED BY <2>2, <2>3 DEF Placed, OnARow, InWindow
  <1>4. CASE s # NoStick
    <2>1. c \in Nat /\ (IF n = 0 THEN c = 0 ELSE c < n) /\ (m.cursor = 0 => c = 0)
      <3> HIDE DEF n
      <3> QED BY <1>1, <1>2 DEF AtLeast, AtMost
    <2>2. Rebuilt(s, m) = Clamped(k)
      BY <1>4 DEF Rebuilt
    <2>3. k \in Menus /\ k.dir = m.dir /\ k.cursor = c
      <3> HIDE DEF c
      <3> QED BY <2>1 DEF Menus
    <2> HIDE DEF k
    <2>4. Clamped(k) \in Menus /\ Clamped(k).dir = m.dir /\ Clamped(k).cursor = c /\ InWindow(Clamped(k))
      BY <2>3, ClampedIsPlaced
    <2> HIDE DEF c
    <2> QED BY <2>1, <2>2, <2>4 DEF Placed, OnARow
  <1> QED BY <1>3, <1>4

LEMMA OpenedIsPlaced ==
  ASSUME NEW s \in Inserted, NEW dir \in Seq(STRING),
         s = NoStick => dir = <<>>, dir # <<>> => Total(s, dir) > 0
  PROVE  Placed(s, Opened(s, dir)) /\ Opened(s, dir).dir = dir
  <1> DEFINE m == [dir |-> dir, cursor |-> 0, top |-> 0]
  <1>1. m \in Menus /\ m.dir = dir
    BY DEF Menus
  <1>2. Opened(s, dir) = Rebuilt(s, m)
    BY DEF Opened
  <1> HIDE DEF m
  <1> QED BY <1>1, <1>2, RebuiltIsPlaced

LEMMA MovedIsPlaced ==
  ASSUME NEW s \in Inserted, NEW m, Placed(s, m), NEW delta \in Int
  PROVE  Placed(s, Moved(s, m, delta)) /\ Moved(s, m, delta).dir = m.dir
  <1> DEFINE n == Len(Entries(s, m.dir))
             c == AtMost(AtLeast(m.cursor + delta, 0), n - 1)
             k == [m EXCEPT !.cursor = c]
  <1>1. m \in Menus /\ m.cursor \in Nat /\ m.top \in Nat /\ m.dir \in Seq(STRING)
    BY DEF Menus, Placed
  <1>2. n \in Nat
    BY <1>1, EntriesCounted
  <1>3. CASE n = 0
    BY <1>3 DEF Moved
  <1>4. CASE n # 0
    <2>1. c \in Nat /\ c < n
      <3> HIDE DEF n
      <3> QED BY <1>1, <1>2, <1>4 DEF AtLeast, AtMost
    <2>2. Moved(s, m, delta) = Clamped(k)
      BY <1>4 DEF Moved
    <2>3. k \in Menus /\ k.dir = m.dir /\ k.cursor = c
      <3> HIDE DEF c
      <3> QED BY <1>1, <2>1 DEF Menus
    <2> HIDE DEF k
    <2>4. Clamped(k) \in Menus /\ Clamped(k).dir = m.dir /\ Clamped(k).cursor = c /\ InWindow(Clamped(k))
      BY <2>3, ClampedIsPlaced
    <2> HIDE DEF c
    <2> QED BY <1>4, <2>1, <2>2, <2>4 DEF Placed, OnARow
  <1> QED BY <1>3, <1>4

(* What is above a folder with something in it has something in it.         *)
LEMMA ParentIsCounted ==
  ASSUME NEW s \in Inserted, NEW dir \in Seq(STRING), dir # <<>>, Total(s, dir) > 0
  PROVE  Total(s, Parent(dir)) > 0 /\ Parent(dir) \in Seq(STRING)
  <1>1. PICK k \in DOMAIN Playable(s) : dir \in Credits(Playable(s)[k].dir)
    BY TotalIsNumber
  <1>2. Playable(s)[k].dir \in Seq(STRING)
    <2>1. Playable(s)[k] \in File
      BY PlayableAre
    <2> QED BY <2>1 DEF File
  <1>3. Parent(dir) \in Credits(Playable(s)[k].dir) /\ Parent(dir) \in Seq(STRING)
    BY <1>1, <1>2, ParentIsCredited
  <1> QED BY <1>3, TotalIsNumber

(* Back goes to the parent, and to the row it was left by.                  *)
LEMMA WentBackIsPlaced ==
  ASSUME NEW s \in Inserted, NEW m, Placed(s, m), m.dir # <<>>
  PROVE  /\ Placed(s, WentBack(s, m)) /\ WentBack(s, m).dir = Parent(m.dir)
         /\ \A was : CameBy(s, was, m.dir) => WentBack(s, m).cursor = was.cursor
  <1> DEFINE up   == Opened(s, Parent(m.dir))
             rows == Entries(s, up.dir)
             from == {i \in DOMAIN rows : rows[i].kind = "folder" /\ rows[i].rel = m.dir}
             i0   == CHOOSE i \in from : TRUE
             k    == IF from = {} THEN up ELSE [up EXCEPT !.cursor = i0 - 1]
  <1>1. m.dir \in Seq(STRING) /\ Total(s, m.dir) > 0 /\ s # NoStick
    BY DEF Placed, Menus
  <1>2. Total(s, Parent(m.dir)) > 0 /\ Parent(m.dir) \in Seq(STRING)
    BY <1>1, ParentIsCounted
  <1>3. Placed(s, up) /\ up.dir = Parent(m.dir)
    BY <1>1, <1>2, OpenedIsPlaced
  <1>4. WentBack(s, m) = Clamped(k)
    BY DEF WentBack
  <1> HIDE DEF up
  <1>5. /\ rows \in Seq(Rows) /\ Len(rows) \in Nat /\ DOMAIN rows = 1..Len(rows)
        /\ \A i, j \in from : i = j
    <2>1. rows \in Seq(Rows) /\ Len(rows) \in Nat /\ DOMAIN rows = 1..Len(rows)
      BY <1>2, <1>3, EntriesAre, EntriesCounted
    <2>2. \A i, j \in DOMAIN rows :
             rows[i].kind = "folder" /\ rows[j].kind = "folder" /\ rows[i].rel = rows[j].rel => i = j
      BY <1>2, <1>3, EntriesAre
    <2> QED BY <2>1, <2>2
  <1>6. k \in Menus /\ k.dir = Parent(m.dir) /\ OnARow(k, rows)
    <2>1. CASE from = {}
      BY <1>3, <2>1 DEF Placed
    <2>2. CASE from # {}
      <3>1. i0 \in from
        BY <2>2
      <3> HIDE DEF i0, rows
      <3>2. i0 - 1 \in Nat /\ i0 - 1 < Len(rows) /\ Len(rows) # 0
        BY <1>5, <3>1
      <3>3. k = [up EXCEPT !.cursor = i0 - 1] /\ up \in Menus
        BY <1>3, <2>2 DEF Placed
      <3> QED BY <1>3, <3>2, <3>3 DEF Menus, OnARow
    <2> QED BY <2>1, <2>2
  <1>7. ASSUME NEW was, CameBy(s, was, m.dir) PROVE k.cursor = was.cursor
    <2>1. was.dir = Parent(m.dir) /\ was.cursor \in Nat /\ was.cursor + 1 \in from
      BY <1>3, <1>7 DEF CameBy, Menus
    <2>2. i0 \in from
      BY <2>1
    <2> HIDE DEF i0, rows
    <2>3. i0 = was.cursor + 1 /\ from # {}
      BY <1>5, <2>1, <2>2
    <2>4. k = [up EXCEPT !.cursor = i0 - 1] /\ i0 - 1 = was.cursor
      BY <2>1, <2>3
    <2>5. up \in Menus
      BY <1>3 DEF Placed
    <2> HIDE DEF k
    <2> QED BY <2>4, <2>5 DEF Menus
  <1> HIDE DEF k
  <1>8. /\ Clamped(k) \in Menus /\ Clamped(k).dir = k.dir /\ Clamped(k).cursor = k.cursor
        /\ InWindow(Clamped(k))
    BY <1>6, ClampedIsPlaced
  <1>9. Placed(s, WentBack(s, m)) /\ WentBack(s, m).dir = Parent(m.dir)
    BY <1>1, <1>2, <1>3, <1>4, <1>6, <1>8 DEF Placed, OnARow
  <1> QED BY <1>4, <1>7, <1>8, <1>9

LEMMA BrowserStarts == BrowserInit => BrowserInv
  <1> SUFFICES ASSUME BrowserInit PROVE BrowserInv
    OBVIOUS
  <1>1. stick \in Inserted /\ <<>> \in Seq(STRING)
    BY DEF BrowserInit, Inserted
  <1>2. Placed(stick, menu)
    BY <1>1, OpenedIsPlaced DEF BrowserInit
  <1>3. trail = <<>> /\ trail \in Seq(Menus) /\ Len(trail) = 0
    BY DEF BrowserInit
  <1> QED BY <1>1, <1>2, <1>3 DEF BrowserInv

(* One level up: the row the viewer came by is the cursor's again.          *)
LEMMA UpKeeps ==
  ASSUME BrowserInv, menu.dir # <<>>, Shift(WentBack(stick, menu)),
         trail' = IF trail = <<>> THEN <<>> ELSE Tail(trail)
  PROVE  BrowserInv'
  <1>1. stick' = stick /\ menu' = WentBack(stick, menu) /\ stick \in Inserted /\ Placed(stick, menu)
    BY DEF Shift, BrowserInv
  <1>2. Placed(stick, menu') /\ menu'.dir = Parent(menu.dir)
    BY <1>1, WentBackIsPlaced
  <1>3. CASE trail = <<>>
    <2>1. trail' = <<>> /\ trail' \in Seq(Menus) /\ Len(trail') = 0
      BY <1>3
    <2> QED BY <1>1, <1>2, <2>1 DEF BrowserInv
  <1>4. CASE trail # <<>>
    <2>1. /\ trail \in Seq(Menus) /\ CameBy(stick, trail[1], menu.dir)
          /\ \A k \in 1..(Len(trail) - 1) : CameBy(stick, trail[k + 1], trail[k].dir)
      BY <1>4 DEF BrowserInv
    <2>2. trail' = Tail(trail)
      BY <1>4
    <2>3. /\ trail' \in Seq(Menus) /\ Len(trail') = Len(trail) - 1
          /\ \A k \in 1..(Len(trail) - 1) : trail'[k] = trail[k + 1]
      BY <1>4, <2>1, <2>2
    <2>4. trail[1].dir = menu'.dir
      BY <1>2, <2>1 DEF CameBy
    <2>5. trail' # <<>> => CameBy(stick, trail'[1], menu'.dir)
      <3> SUFFICES ASSUME trail' # <<>> PROVE CameBy(stick, trail'[1], menu'.dir)
        OBVIOUS
      <3>1. 1 \in 1..(Len(trail) - 1)
        BY <2>1, <2>3
      <3> QED BY <2>1, <2>3, <2>4, <3>1
    <2>6. ASSUME NEW k \in 1..(Len(trail') - 1) PROVE CameBy(stick, trail'[k + 1], trail'[k].dir)
      <3>1. k \in 1..(Len(trail) - 1) /\ k + 1 \in 1..(Len(trail) - 1)
        BY <2>1, <2>3
      <3> QED BY <2>1, <2>3, <3>1
    <2> QED BY <1>1, <1>2, <2>3, <2>5, <2>6 DEF BrowserInv
  <1> QED BY <1>3, <1>4

LEMMA EnterKeeps ==
  ASSUME BrowserInv, NEW row, Selectable(stick, menu), row = Selected(stick, menu), row.kind = "folder",
         Shift(Opened(stick, row.rel)), trail' = <<menu>> \o trail
  PROVE  BrowserInv'
  <1> DEFINE dir == menu.dir
             rows == Entries(stick, dir)
  <1>1. /\ stick' = stick /\ menu' = Opened(stick, row.rel) /\ stick \in Inserted
        /\ menu \in Menus /\ dir \in Seq(STRING) /\ menu.cursor \in Nat
    BY DEF Shift, BrowserInv, Placed, Menus
  <1>2. menu.cursor + 1 \in DOMAIN rows /\ row = rows[menu.cursor + 1] /\ stick # NoStick
    BY <1>1, EntriesCounted DEF Selectable, Selected
  <1>3. PICK k \in DOMAIN SubFolders(stick, dir) : row = FolderRow(stick, SubFolders(stick, dir)[k])
    <2>1. UpRow(dir).kind # "folder" /\ AllRow(stick, dir).kind # "folder" /\ \A f : FileRow(f).kind # "folder"
      BY DEF UpRow, AllRow, FileRow, Row
    <2>2. \/ row = UpRow(dir) \/ row = AllRow(stick, dir)
          \/ \E k \in DOMAIN SubFolders(stick, dir) : row = FolderRow(stick, SubFolders(stick, dir)[k])
          \/ \E k \in DOMAIN FilesIn(stick, dir) : row = FileRow(FilesIn(stick, dir)[k])
      <3> HIDE DEF dir
      <3> QED BY <1>1, <1>2, EntriesAre DEF rows
    <2> QED BY <2>1, <2>2
  <1>4. row.rel \in Seq(STRING) /\ row.rel # <<>> /\ Parent(row.rel) = dir /\ Total(stick, row.rel) > 0
    BY <1>1, <1>3, SubFoldersAre DEF FolderRow, Row
  <1>5. Placed(stick, menu') /\ menu'.dir = row.rel
    BY <1>1, <1>2, <1>4, OpenedIsPlaced
  <1>6. CameBy(stick, menu, row.rel)
    BY <1>1, <1>2, <1>4 DEF CameBy
  <1>7. /\ trail \in Seq(Menus) /\ (trail # <<>> => CameBy(stick, trail[1], dir))
        /\ \A j \in 1..(Len(trail) - 1) : CameBy(stick, trail[j + 1], trail[j].dir)
    BY DEF BrowserInv
  <1>8. /\ trail' \in Seq(Menus) /\ Len(trail') = Len(trail) + 1 /\ trail'[1] = menu
        /\ \A j \in 1..Len(trail) : trail'[j + 1] = trail[j]
    BY <1>1, <1>7
  <1>9. ASSUME NEW j \in 1..(Len(trail') - 1) PROVE CameBy(stick, trail'[j + 1], trail'[j].dir)
    <2>1. j \in 1..Len(trail)
      BY <1>7, <1>8
    <2>2. CASE j = 1
      BY <1>7, <1>8, <2>1, <2>2
    <2>3. CASE j # 1
      <3>1. j - 1 \in 1..(Len(trail) - 1) /\ (j - 1) + 1 = j
        BY <1>7, <2>1, <2>3
      <3>2. CameBy(stick, trail[j], trail[j - 1].dir) /\ trail'[j] = trail[j - 1] /\ trail'[j + 1] = trail[j]
        BY <1>7, <1>8, <2>1, <3>1
      <3> QED BY <3>2
    <2> QED BY <2>2, <2>3
  <1> QED BY <1>1, <1>5, <1>6, <1>8, <1>9 DEF BrowserInv

LEMMA RescanKeeps == ASSUME BrowserInv, Rescanned PROVE BrowserInv'
  <1>1. stick' \in Inserted /\ menu' = Reloaded(stick', menu) /\ trail' = <<>>
    BY DEF Rescanned, Inserted
  <1>2. menu \in Menus /\ <<>> \in Seq(STRING)
    BY DEF BrowserInv, Placed
  <1>3. Placed(stick', menu')
    <2>1. CASE stick' = NoStick \/ (menu.dir # <<>> /\ ~Exists(stick', menu.dir))
      <3>1. menu' = Opened(stick', <<>>)
        BY <1>1, <2>1 DEF Reloaded
      <3> QED BY <1>1, <1>2, <3>1, OpenedIsPlaced
    <2>2. CASE stick' # NoStick /\ (menu.dir # <<>> => Exists(stick', menu.dir))
      <3>1. menu' = Rebuilt(stick', menu)
        BY <1>1, <2>2 DEF Reloaded
      <3>2. menu.dir # <<>> => Total(stick', menu.dir) > 0
        BY <1>1, <2>2, ExistsIfCounted
      <3> QED BY <1>1, <1>2, <2>2, <3>1, <3>2, RebuiltIsPlaced
    <2> QED BY <2>1, <2>2
  <1>4. trail' \in Seq(Menus) /\ Len(trail') = 0
    BY <1>1
  <1> QED BY <1>1, <1>3, <1>4 DEF BrowserInv

LEMMA BrowserKeeps == ASSUME BrowserInv, [BrowserNext]_browserVars PROVE BrowserInv'
  <1>1. ASSUME NEW delta \in {-1, 1, -ScreenRows, ScreenRows}, Shift(Moved(stick, menu, delta)), UNCHANGED trail
        PROVE  BrowserInv'
    <2>1. delta \in Int
      BY SticksAssumption
    <2>2. stick \in Inserted /\ Placed(stick, menu) /\ stick' = stick /\ menu' = Moved(stick, menu, delta)
      BY <1>1 DEF BrowserInv, Shift
    <2>3. Placed(stick, menu') /\ menu'.dir = menu.dir
      BY <2>1, <2>2, MovedIsPlaced
    <2> QED BY <1>1, <2>2, <2>3 DEF BrowserInv
  <1>2. CASE MoveKey
    BY <1>1, <1>2 DEF MoveKey
  <1>3. CASE BackKey
    BY <1>3, UpKeeps DEF BackKey
  <1>4. CASE SelectKey
    <2> DEFINE row == Selected(stick, menu)
    <2>1. CASE row.kind = "folder" /\ Shift(Opened(stick, row.rel)) /\ trail' = <<menu>> \o trail
      BY <1>4, <2>1, EnterKeeps DEF SelectKey
    <2>2. CASE /\ row.kind = "up" /\ Shift(WentBack(stick, menu))
               /\ trail' = IF trail = <<>> THEN <<>> ELSE Tail(trail)
      <3>1. stick \in Inserted /\ menu.dir \in Seq(STRING) /\ menu.cursor \in Nat
        BY DEF BrowserInv, Placed, Menus
      <3>2. menu.cursor + 1 \in DOMAIN Entries(stick, menu.dir) /\ row = Entries(stick, menu.dir)[menu.cursor + 1]
        BY <1>4, <3>1, EntriesCounted DEF SelectKey, Selectable, Selected
      <3>3. menu.dir # <<>>
        BY <2>2, <3>1, <3>2, EntriesAre DEF AllRow, FolderRow, FileRow, Row
      <3> QED BY <2>2, <3>3, UpKeeps
    <2>3. CASE UNCHANGED <<stick, menu, trail>>
      BY <2>3 DEF BrowserInv
    <2> QED BY <1>4, <2>1, <2>2, <2>3, Zenon DEF SelectKey
  <1>5. CASE PlayKey \/ UNCHANGED browserVars
    BY <1>5 DEF PlayKey, browserVars, BrowserInv
  <1>6. CASE Rescanned
    BY <1>6, RescanKeeps
  <1> QED BY <1>2, <1>3, <1>4, <1>5, <1>6 DEF BrowserNext

LEMMA CursorHolds == BrowserInv => CursorKept /\ RowsAreHonest
  <1> SUFFICES ASSUME BrowserInv PROVE CursorKept /\ RowsAreHonest
    OBVIOUS
  <1>1. stick \in Inserted /\ Placed(stick, menu) /\ menu.dir \in Seq(STRING)
    BY DEF BrowserInv, Placed, Menus
  <1>2. CursorShown
    <2>1. Len(Entries(stick, menu.dir)) \in Nat
      BY <1>1, EntriesCounted
    <2>2. menu.dir # <<>> => Exists(stick, menu.dir)
      BY <1>1, ExistsIfCounted DEF Placed
    <2> QED BY <1>1, <2>1, <2>2 DEF CursorShown, Placed, OnARow, InWindow, Menus, AtLeast
  <1>3. BackReturns
    <2> SUFFICES ASSUME trail # <<>>, menu.dir # <<>>
                 PROVE  /\ WentBack(stick, menu).dir = Head(trail).dir
                        /\ WentBack(stick, menu).cursor = Head(trail).cursor
      BY DEF BackReturns
    <2>1. trail \in Seq(Menus) /\ CameBy(stick, trail[1], menu.dir)
      BY DEF BrowserInv
    <2>2. Head(trail) = trail[1]
      BY <2>1
    <2> QED BY <1>1, <2>1, <2>2, WentBackIsPlaced DEF CameBy
  <1> QED BY <1>1, <1>2, <1>3, RowsHold DEF CursorKept

(* What the viewer sees of a stick is true of it: a row plays as many items
   as it says, the cursor is on a row that is shown, and Back brings it to
   the row it went in by, for any sticks and any size of the screen, whatever
   is scanned in between (player/library.go, player/menu.go).                *)
THEOREM BrowserHolds == Spec => []ListIsHonest
  <1>1. Init => BrowserInv
    BY BrowserStarts DEF Init
  <1>2. BrowserInv /\ [Next]_partsVars => BrowserInv'
    BY StepOfParts, BrowserKeeps
  <1>3. BrowserInv => ListIsHonest
    BY CursorHolds DEF ListIsHonest
  <1> QED BY <1>1, <1>2, <1>3, PTL DEF Spec
=============================================================================
