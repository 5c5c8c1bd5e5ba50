------------------------------- MODULE Browser -------------------------------
(***************************************************************************)
(* The on-screen browser of bdplay: the library a scan of the stick builds *)
(* (player/library.go) and the menu the keys of a TV remote move through   *)
(* it (player/menu.go, the browsing half of player/remote.go).             *)
(*                                                                         *)
(* A folder is the sequence of the names on its path; a stick is the files *)
(* on it in the order the library sorts them.                              *)
(***************************************************************************)
EXTENDS Integers, Sequences, FiniteSets

CONSTANTS Tree,    (* the folders that may exist, in the library's order     *)
          Sticks,  (* what may be plugged in: sequences of files, each a
                      record of its dir, name, kind (video, image, pdf,
                      office, other) and whether its name hides it           *)
          Pdf,     (* a PDF renderer is installed                            *)
          ScreenRows

VARIABLES
    stick,   (* the files on the stick, or NoStick                           *)
    menu,    (* the browser: its folder, cursor and first visible row        *)
    picked,  (* what the last key that plays something asked for             *)
    trail    (* history: where the cursor was in every folder on the way     *)

browserVars == <<stick, menu, picked, trail>>

NoStick == <<[dir |-> <<>>, name |-> "none", kind |-> "none", hidden |-> TRUE]>>

-----------------------------------------------------------------------------
(* The library.                                                             *)

InSkippedDir(f) == \E i \in DOMAIN f.dir : f.dir[i] = ".Trashes"

(* A scan lists what it can classify, and office documents, which it says
   to export; a folder exists through the items it counts.                  *)
Listed(f) == ~f.hidden /\ ~InSkippedDir(f) /\ f.kind \in {"video", "image", "pdf", "office"}
Counted(f) == Listed(f) /\ f.kind # "office" /\ (f.kind = "pdf" => Pdf)

(* The elements of s at the places I, in their order.                       *)
Those(s, I) ==
    [k \in 1..Cardinality(I) |-> s[CHOOSE i \in I : Cardinality({j \in I : j <= i}) = k]]

Items(s)    == Those(s, {i \in DOMAIN s : Listed(s[i])})
Playable(s) == Those(s, {i \in DOMAIN s : Counted(s[i])})

(* Every ancestor is credited for an item.                                  *)
(* Mutant of Credits: only the folder itself is.                            *)
CreditsOwn(dir) == {dir}
Credits(dir)    == {SubSeq(dir, 1, n) : n \in 0..Len(dir)}

Total(s, dir)   == Cardinality({i \in DOMAIN Playable(s) : dir \in Credits(Playable(s)[i].dir)})
Folders(s)      == Those(Tree, {i \in DOMAIN Tree : Total(s, Tree[i]) > 0})
Exists(s, dir)  == \E i \in DOMAIN Folders(s) : Folders(s)[i] = dir

Rel(f) == Append(f.dir, f.name)
Inside(sel, dir) == Len(dir) >= Len(sel) /\ SubSeq(dir, 1, Len(sel)) = sel

(* The playable items at the path sel, and those a folder stands for.       *)
ItemsAt(s, rel) == Those(Playable(s), {i \in DOMAIN Playable(s) : Rel(Playable(s)[i]) = rel})

Select(s, sel, recurse) ==
    LET all   == Playable(s)
        exact == ItemsAt(s, sel)
    IN  IF sel # <<>> /\ exact # <<>> THEN <<Head(exact)>>
        ELSE Those(all, {i \in DOMAIN all : \/ sel = <<>>
                                            \/ recurse /\ Inside(sel, all[i].dir)
                                            \/ ~recurse /\ all[i].dir = sel})

(* A path names one file or one folder, as in any file system, and every
   folder there may be is in the tree once.                                  *)
File == [dir : Seq(STRING), name : STRING, hidden : BOOLEAN,
         kind : {"video", "image", "pdf", "office", "other"}]

ASSUME SticksAssumption ==
    /\ Tree \in Seq(Seq(STRING))
    /\ \A i, j \in DOMAIN Tree : Tree[i] = Tree[j] => i = j
    /\ \A s \in Sticks :
        /\ s \in Seq(File)
        /\ \A i, j \in DOMAIN s : /\ Rel(s[i]) = Rel(s[j]) => i = j
                                  /\ Rel(s[i]) \notin Credits(s[j].dir)
        /\ \A i \in DOMAIN s : Counted(s[i]) =>
              \A d \in Credits(s[i].dir) : \E j \in DOMAIN Tree : Tree[j] = d
    /\ ScreenRows \in Nat \ {0}

-----------------------------------------------------------------------------
(* The menu.                                                                *)

Parent(dir) == SubSeq(dir, 1, Len(dir) - 1)

Row(kind, rel, count) == [kind |-> kind, rel |-> rel, count |-> count]

SubFolders(s, dir) ==
    LET all == Folders(s)
    IN  Those(all, {i \in DOMAIN all : all[i] # <<>> /\ Parent(all[i]) = dir})

FilesIn(s, dir) == Those(Items(s), {i \in DOMAIN Items(s) : Items(s)[i].dir = dir})

FolderRow(s, d) == Row("folder", d, Total(s, d))
FileRow(f)      == Row(IF Counted(f) THEN "file" ELSE "gray", Rel(f), 1)

UpRows(dir)     == IF dir # <<>> THEN <<Row("up", Parent(dir), 0)>> ELSE <<>>
AllRows(s, dir) == IF Total(s, dir) > 0 THEN <<Row("all", dir, Total(s, dir))>> ELSE <<>>

Entries(s, dir) ==
    IF s = NoStick THEN <<>>
    ELSE UpRows(dir) \o AllRows(s, dir)
      \o [i \in DOMAIN SubFolders(s, dir) |-> FolderRow(s, SubFolders(s, dir)[i])]
      \o [i \in DOMAIN FilesIn(s, dir) |-> FileRow(FilesIn(s, dir)[i])]

AtMost(n, bound) == IF n > bound THEN bound ELSE n
AtLeast(n, bound) == IF n < bound THEN bound ELSE n

(* The window follows the cursor.                                           *)
Clamped(m) ==
    LET up == AtMost(m.top, m.cursor) IN
    [m EXCEPT !.top = AtLeast(IF m.cursor >= up + ScreenRows THEN m.cursor - ScreenRows + 1 ELSE up, 0)]

(* Mutant of Rebuilt: a folder that has become shorter keeps the cursor.    *)
RebuiltPlain(s, m) == Clamped(m)

Rebuilt(s, m) ==
    IF s = NoStick THEN [m EXCEPT !.cursor = 0, !.top = 0]
    ELSE Clamped([m EXCEPT !.cursor = AtLeast(AtMost(@, Len(Entries(s, m.dir)) - 1), 0)])

Moved(s, m, delta) ==
    LET n == Len(Entries(s, m.dir)) IN
    IF n = 0 THEN m
    ELSE Clamped([m EXCEPT !.cursor = AtMost(AtLeast(@ + delta, 0), n - 1)])

Opened(s, dir) == Rebuilt(s, [dir |-> dir, cursor |-> 0, top |-> 0])

(* Back leaves the cursor on the folder one came from.                      *)
(* Mutant of WentBack: it goes to the first row.                            *)
WentUp(s, m) == Opened(s, Parent(m.dir))

WentBack(s, m) ==
    LET up == Opened(s, Parent(m.dir))
        from == {i \in DOMAIN Entries(s, up.dir) :
                    Entries(s, up.dir)[i].kind = "folder" /\ Entries(s, up.dir)[i].rel = m.dir}
    IN Clamped(IF from = {} THEN up ELSE [up EXCEPT !.cursor = (CHOOSE i \in from : TRUE) - 1])

Reloaded(s, m) ==
    IF s = NoStick \/ (m.dir # <<>> /\ ~Exists(s, m.dir)) THEN Opened(s, <<>>) ELSE Rebuilt(s, m)

Selectable(s, m) == m.cursor < Len(Entries(s, m.dir))
Selected(s, m)   == Entries(s, m.dir)[m.cursor + 1]

(* What a row plays: a file alone, everything in the folder, or nothing.    *)
SelectionFor(s, row) ==
    CASE row.kind = "file" -> ItemsAt(s, row.rel)
      [] row.kind = "all"  -> Select(s, row.rel, TRUE)
      [] OTHER             -> <<>>

-----------------------------------------------------------------------------
BrowserInit == /\ stick \in Sticks \cup {NoStick}
               /\ menu = Opened(stick, <<>>)
               /\ picked = <<>> /\ trail = <<>>

Shift(m) == menu' = m /\ UNCHANGED <<stick, picked>>

MoveKey ==
    /\ \E delta \in {-1, 1, -ScreenRows, ScreenRows} : Shift(Moved(stick, menu, delta))
    /\ UNCHANGED trail

BackKey ==
    /\ menu.dir # <<>>
    /\ Shift(WentBack(stick, menu))
    /\ trail' = IF trail = <<>> THEN <<>> ELSE Tail(trail)

SelectKey ==
    /\ Selectable(stick, menu)
    /\ LET row == Selected(stick, menu) IN
       \/ /\ row.kind = "folder"
          /\ Shift(Opened(stick, row.rel))
          /\ trail' = <<menu>> \o trail
       \/ /\ row.kind = "up"
          /\ Shift(WentBack(stick, menu))
          /\ trail' = IF trail = <<>> THEN <<>> ELSE Tail(trail)
       \/ /\ SelectionFor(stick, row) # <<>>
          /\ picked' = SelectionFor(stick, row)
          /\ UNCHANGED <<stick, menu, trail>>

(* The Play key asks for everything in the folder.                          *)
PlayKey ==
    /\ stick # NoStick /\ Select(stick, menu.dir, TRUE) # <<>>
    /\ picked' = Select(stick, menu.dir, TRUE)
    /\ UNCHANGED <<stick, menu, trail>>

Rescanned ==
    /\ stick' \in Sticks \cup {NoStick}
    /\ menu' = Reloaded(stick', menu)
    /\ picked' = <<>> /\ trail' = <<>>

BrowserNext == MoveKey \/ BackKey \/ SelectKey \/ PlayKey \/ Rescanned

(* The cursor is on a row and that row on the screen, whatever is scanned
   under it while the viewer is deep in a folder that shrinks or is gone.    *)
CursorShown ==
    LET n == Len(Entries(stick, menu.dir)) IN
    /\ menu.cursor \in 0..AtLeast(n - 1, 0)
    /\ menu.top <= menu.cursor /\ menu.cursor < menu.top + ScreenRows
    /\ stick # NoStick /\ menu.dir # <<>> => Exists(stick, menu.dir)

(* A row says how many items it stands for, and that is how many it plays:
   the counting of ancestors during the scan agrees with the selection of
   what is inside a folder.                                                 *)
RowsAreHonest ==
    \A i \in DOMAIN Entries(stick, menu.dir) :
        LET row == Entries(stick, menu.dir)[i] IN
        /\ row.kind \in {"file", "all"} => Len(SelectionFor(stick, row)) = row.count
        /\ row.kind = "folder" => Len(Select(stick, row.rel, TRUE)) = row.count /\ row.count > 0

(* Leaving a folder by Back brings the viewer to the row it was entered by. *)
BackReturns ==
    trail # <<>> /\ menu.dir # <<>> =>
        LET up == WentBack(stick, menu) IN
        up.dir = Head(trail).dir /\ up.cursor = Head(trail).cursor

(* The viewer never loses the place: the cursor is shown, on the way in, on
   the way back and after a scan.                                           *)
CursorKept == CursorShown /\ BackReturns
=============================================================================
