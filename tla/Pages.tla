-------------------------------- MODULE Pages --------------------------------
(***************************************************************************)
(* The kit's additions to the stock web UI: six programs write a block of  *)
(* their own into the same two templates (the patch.go of the converter,   *)
(* the gateway, bdomt, bdout, the Tailscale panel and bdplay), one after   *)
(* the other by the installer and bdplay at its own start, and any of them *)
(* may be cut off by the power.                                            *)
(***************************************************************************)
EXTENDS Integers, Sequences

CONSTANTS
    Packages,      (* those that are installed                              *)
    CutIn,         (* those whose work the power may cut off                *)
    Overlaps,      (* bdplay may start while the installer patches          *)
    Moves,         (* those whose script, or address, may change            *)
    Removes        (* those that may be taken out again                     *)

ASSUME PagesAssumption ==
    /\ Packages \subseteq {"cam", "gateway", "omt", "output", "tailscale", "play"}
    /\ CutIn \subseteq Packages /\ Moves \subseteq Packages
    /\ Removes \subseteq Packages /\ Overlaps \in BOOLEAN

VARIABLES
    block,      (* what of every package's is on its page: a version or 0   *)
    torn,       (* the templates that were cut off half written             *)
    backup,     (* every package's copy of its page, or <<>>                *)
    asset,      (* the script of every package in static/: a version or 0   *)
    version,    (* the version that is installed                            *)
    work         (* what the installer and bdplay are at                     *)

pageVars == <<block, torn, backup, asset, version, work>>

-----------------------------------------------------------------------------
(* How each of the six goes about it: its template, whether it replaces a
   block of another version, whether it writes the template through a rename,
   and whether the script or the backup is written first.                   *)
CamPatch       == [on |-> "videoset", swaps |-> FALSE, renames |-> FALSE, order |-> <<"read", "backup", "asset", "page">>]
GatewayPatch   == [on |-> "videoset", swaps |-> FALSE, renames |-> TRUE,  order |-> <<"asset", "read", "backup", "page">>]
(* Mutant of OmtPatch: the page asks for the script before it is there.     *)
OmtPageFirst   == [on |-> "videoset", swaps |-> TRUE,  renames |-> TRUE,  order |-> <<"read", "backup", "page", "asset">>]
OmtPatch       == [on |-> "videoset", swaps |-> TRUE,  renames |-> TRUE,  order |-> <<"asset", "read", "backup", "page">>]
OutputPatch    == [on |-> "videoset", swaps |-> TRUE,  renames |-> TRUE,  order |-> <<"asset", "read", "backup", "page">>]
TailscalePatch == [on |-> "settings", swaps |-> FALSE, renames |-> TRUE,  order |-> <<"asset", "read", "backup", "page">>]
PlayPatch      == [on |-> "videoset", swaps |-> TRUE,  renames |-> TRUE,  order |-> <<"read", "restore", "backup", "page">>]

Patch(p) == CASE p = "cam" -> CamPatch [] p = "gateway" -> GatewayPatch [] p = "omt" -> OmtPatch
              [] p = "output" -> OutputPatch [] p = "tailscale" -> TailscalePatch [] p = "play" -> PlayPatch

Actor(p) == IF p = "play" THEN "bdplay" ELSE "installer"
NoJob     == [of |-> "", doing |-> "nothing", step |-> 0, saw |-> <<>>]
PageOf(p) == [q \in {q \in Packages : Patch(q).on = Patch(p).on} |-> block[q]]

PagesInit ==
    /\ block = [p \in Packages |-> 0] /\ torn = {} /\ backup = [p \in Packages |-> <<>>]
    /\ asset = [p \in Packages |-> 0] /\ version = [p \in Packages |-> 1]
    /\ work = [a \in {"installer", "bdplay"} |-> NoJob]

AtStep(p, step) ==
    LET j == work[Actor(p)] IN
    j.of = p /\ j.doing = "patch" /\ j.step \in DOMAIN Patch(p).order /\ Patch(p).order[j.step] = step

Finished(p) == work' = [work EXCEPT ![Actor(p)] = NoJob]
Advance(p)  == IF work[Actor(p)].step = Len(Patch(p).order) THEN Finished(p)
               ELSE work' = [work EXCEPT ![Actor(p)].step = @ + 1]
Saw(p)      == work[Actor(p)].saw

Begin(p, doing) ==
    /\ work[Actor(p)] = NoJob
    /\ Overlaps \/ \A a \in DOMAIN work : work[a] = NoJob
    /\ work' = [work EXCEPT ![Actor(p)] = [of |-> p, doing |-> doing, step |-> 1, saw |-> <<>>]]
    /\ UNCHANGED <<block, torn, backup, asset, version>>

(* The template is written with our block on what was read.                 *)
WritePage(p, content) ==
    /\ block' = [q \in Packages |-> IF q \in DOMAIN content THEN content[q] ELSE block[q]]
    /\ torn' = torn \ {Patch(p).on}

-----------------------------------------------------------------------------
(* Patching.                                                                *)

WriteAsset(p) ==
    /\ AtStep(p, "asset") /\ asset' = [asset EXCEPT ![p] = version[p]]
    /\ Advance(p)
    /\ UNCHANGED <<block, torn, backup, version>>

Read(p) ==
    /\ AtStep(p, "read")
    /\ work' = [work EXCEPT ![Actor(p)].step = @ + 1, ![Actor(p)].saw = PageOf(p)]
    /\ UNCHANGED <<block, torn, backup, asset, version>>

(* bdplay, when its address changed: the page is its backup again.          *)
RestoreForMove(p) ==
    /\ AtStep(p, "restore")
    /\ IF Saw(p)[p] \in {0, version[p]} \/ backup[p] = <<>>
       THEN /\ UNCHANGED <<block, torn, backup>>
            /\ IF Saw(p)[p] = version[p] THEN Finished(p)
               ELSE work' = [work EXCEPT ![Actor(p)].step = @ + 1, ![Actor(p)].saw[p] = 0]
       ELSE /\ WritePage(p, backup[p])
            /\ backup' = [backup EXCEPT ![p] = <<>>]
            /\ work' = [work EXCEPT ![Actor(p)].step = @ + 1, ![Actor(p)].saw = backup[p]]
    /\ UNCHANGED <<asset, version>>

(* A copy of the page as it was found, never over an earlier one; bdcam
   takes none of a page that has its tab.                                   *)
WriteBackup(p) ==
    /\ AtStep(p, "backup")
    /\ backup' = IF backup[p] = <<>> /\ ~(p = "cam" /\ Saw(p)[p] # 0)
                 THEN [backup EXCEPT ![p] = Saw(p)] ELSE backup
    /\ Advance(p)
    /\ UNCHANGED <<block, torn, asset, version>>

(* Mutant of PatchPage: it writes what it has, and nobody else's.           *)
PatchPageAlone(p) ==
    /\ AtStep(p, "page") /\ block' = [q \in Packages |-> IF q = p THEN version[p] ELSE 0]
    /\ torn' = torn /\ Advance(p)
    /\ UNCHANGED <<backup, asset, version>>

(* A page that has the tab, and is not of those that swap it, stays as it
   is, and so does one that is half there: it has not both anchors.         *)
PatchPage(p) ==
    /\ AtStep(p, "page")
    /\ IF Patch(p).on \in torn \/ (Saw(p)[p] # 0 /\ ~Patch(p).swaps) THEN UNCHANGED <<block, torn>>
       ELSE WritePage(p, [Saw(p) EXCEPT ![p] = version[p]])
    /\ Advance(p)
    /\ UNCHANGED <<backup, asset, version>>

-----------------------------------------------------------------------------
(* Taking it out again: the template first, then the script; bdplay puts the
   backup back, or strips its lines where there is none.                    *)
Unpatch(p) ==
    LET j == work[Actor(p)] IN
    /\ j.of = p /\ j.doing = "unpatch" /\ j.step = 1
    /\ IF p = "play" /\ backup[p] # <<>>
       THEN WritePage(p, backup[p]) /\ backup' = [backup EXCEPT ![p] = <<>>]
       ELSE block' = [block EXCEPT ![p] = 0] /\ UNCHANGED <<torn, backup>>
    /\ work' = [work EXCEPT ![Actor(p)].step = 2] /\ UNCHANGED <<asset, version>>

RemoveAsset(p) ==
    LET j == work[Actor(p)] IN
    /\ j.of = p /\ j.doing = "unpatch" /\ j.step = 2
    /\ asset' = [asset EXCEPT ![p] = 0] /\ Finished(p)
    /\ UNCHANGED <<block, torn, backup, version>>

-----------------------------------------------------------------------------
(* Power off: a template that is written in place is half there.            *)
PowerOff ==
    /\ \E a \in DOMAIN work : work[a] # NoJob
    /\ \A a \in DOMAIN work : work[a].of \in CutIn \cup {""}
    /\ torn' \in {torn} \cup {torn \cup {Patch(p).on} : p \in {p \in Packages : AtStep(p, "page") /\ ~Patch(p).renames}}
    /\ work' = [a \in DOMAIN work |-> NoJob]
    /\ UNCHANGED <<block, backup, asset, version>>

Update(p) ==
    /\ p \in Moves /\ work[Actor(p)] = NoJob /\ version[p] = 1
    /\ version' = [version EXCEPT ![p] = 2]
    /\ UNCHANGED <<block, torn, backup, asset, work>>

PagesNext ==
    \E p \in Packages :
        \/ Begin(p, "patch") \/ (p \in Removes /\ Begin(p, "unpatch"))
        \/ WriteAsset(p) \/ Read(p) \/ RestoreForMove(p) \/ WriteBackup(p) \/ PatchPage(p)
        \/ Unpatch(p) \/ RemoveAsset(p)
        \/ PowerOff \/ Update(p)

-----------------------------------------------------------------------------
(* Whoever patches or unpatches leaves the others' blocks as they are, and
   the power never leaves half a template (omt/patch.go: both insertions are
   wrapped in markers so removal leaves bdcam's, bdgw's and bdplay's alone;
   tailscale-ui/patch.go: a power cut mid-write cannot leave a half-written
   template).                                                               *)
BlocksAreKept ==
    /\ \A q \in Packages : block'[q] # block[q] => \E a \in DOMAIN work : work[a].of = q
    /\ torn' \subseteq torn

(* A page asks for a script that is there, after a cut, too; and what a
   program that swaps its block has patched asks for the very one that is
   there (omt/patch.go: so the ?v= hash matches what is in static/).        *)
AsksForWhatIsThere ==
    \A p \in Packages \ {"play"} : block[p] # 0 =>
        /\ asset[p] # 0
        /\ Patch(p).swaps /\ p \notin CutIn /\ work[Actor(p)] = NoJob => block[p] = asset[p]

(* The six that patch the stock pages leave one another's blocks alone, and
   no page asks for a script that is not there.                             *)
PagesAreWhole == [][BlocksAreKept /\ AsksForWhatIsThere']_pageVars
=============================================================================
