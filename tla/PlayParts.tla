------------------------------ MODULE PlayParts ------------------------------
(***************************************************************************)
(* The parts of bdplay that share no state with the session of Remote:     *)
(* the stick, its entry in the decoder's source list, the play set, the    *)
(* browser, the cache of rendered pages and the CEC bus.  A behaviour is   *)
(* one of a single part; the others stay as they begin.                    *)
(***************************************************************************)
EXTENDS Stick, MenuEntry, Playlist, BrowserMC, PdfCache, Cec

VARIABLE part

MModes == [s \in Sources |-> IF s = "cam" THEN "NDI" ELSE "SRT"]

Rest == [stick    |-> TRUE,
         entry    |-> name = Ours,
         playlist |-> ~random /\ ~looping,
         browser  |-> stick = NoStick,
         pdf      |-> TRUE,
         cec      |-> known]

Init ==
    /\ StickInit /\ EntryInit /\ PlaylistInit /\ BrowserInit /\ PdfInit /\ CecInit
    /\ part \in DOMAIN Rest /\ \A p \in DOMAIN Rest : p = part \/ Rest[p]

Keeps(p) ==
    /\ part = p /\ UNCHANGED part
    /\ p # "stick" => UNCHANGED stickVars
    /\ p # "entry" => UNCHANGED entryVars
    /\ p # "playlist" => UNCHANGED playlistVars
    /\ p # "browser" => UNCHANGED browserVars
    /\ p # "pdf" => UNCHANGED pdfVars
    /\ p # "cec" => UNCHANGED cecVars

Next ==
    \/ Keeps("stick") /\ StickNext
    \/ Keeps("entry") /\ EntryNext
    \/ Keeps("playlist") /\ PlaylistNext
    \/ Keeps("browser") /\ BrowserNext
    \/ Keeps("pdf") /\ PdfNext
    \/ Keeps("cec") /\ CecNext

partsVars == <<part, stickVars, entryVars, playlistVars, browserVars, pdfVars, cecVars>>

Spec == Init /\ [][Next]_partsVars

-----------------------------------------------------------------------------
(* bdplay's picture of the sticks is the kernel's: what it takes for a mount
   is a volume that is plugged in, and the library is the first of them.    *)
SticksAreTrue == MountsAreVolumes /\ LibraryIsPrimary

(* The browser opens for the owner's pick of our entry and for nothing else,
   whoever picks, polls and restores at once; and what is restored is a
   selection they made, name and mode together, unless another wrote one of
   its files in between.                                                    *)
PickIsHonoured == OpensForPick /\ RestoresPair

(* The list on the screen is that of the stick, and its cursor stays on the
   row it was on when rows come and go.                                     *)
ListIsHonest == RowsAreHonest /\ CursorKept

(* On the CEC bus the PLAY is the active source while it says so, and no two
   devices answer each other without end.                                   *)
BusSettles == ClaimsItsInput /\ AnswersEnd
=============================================================================
