------------------------------ MODULE PdfCache -------------------------------
(***************************************************************************)
(* The pages of one document, rendered for one panel (player/pdf.go): the  *)
(* directory they are cached in and the .tmp one they are rendered into,   *)
(* with the power cut at any point.  A second Render of the document runs  *)
(* beside the first when a playback that was told to stop while rendering  *)
(* outlasts the wait for it.                                               *)
(***************************************************************************)
EXTENDS Naturals, FiniteSets

CONSTANTS Renders,    (* goroutines inside Render                            *)
          PageCount,  (* pages of the document, as far as they are rendered  *)
          PruneCut    (* the power may be cut while an old directory goes    *)

ASSUME PdfCacheAssumption == PageCount \in Nat \ {0} /\ PruneCut \in BOOLEAN

VARIABLES
    cached,  (* the pages in the cache's directory; none when there is none  *)
    tmp,     (* those in the .tmp directory                                  *)
    tmpThere,
    at       (* every Render: where it is, what it returned, where that is   *)

pdfVars == <<cached, tmp, tmpThere, at>>

Pages == 1..PageCount
Idle  == [pc |-> "idle", pages |-> {}, from |-> "cache"]

PdfInit ==
    /\ cached = {} /\ tmp = {} /\ tmpThere = FALSE
    /\ at = [r \in Renders |-> Idle]

In(r, pc)   == at[r].pc = pc
To(r, pc)   == at' = [at EXCEPT ![r].pc = pc]
(* Every return after MkdirAll runs the deferred RemoveAll of .tmp.         *)
Serves(r, pages, from) ==
    /\ tmp' = {} /\ tmpThere' = FALSE
    /\ at' = [at EXCEPT ![r] = [pc |-> "served", pages |-> pages, from |-> from]]
Gives(r) == /\ tmp' = {} /\ tmpThere' = FALSE
            /\ at' = [at EXCEPT ![r] = Idle]

(* A cached document is served at once.                                     *)
Look(r) ==
    /\ In(r, "idle")
    /\ IF cached # {}
       THEN at' = [at EXCEPT ![r] = [pc |-> "served", pages |-> cached, from |-> "cache"]]
       ELSE To(r, "clean")
    /\ UNCHANGED <<cached, tmp, tmpThere>>

(* What an earlier, interrupted render left in .tmp goes.                   *)
Clean(r) ==
    /\ In(r, "clean")
    /\ tmp' = {} /\ tmpThere' = TRUE
    /\ To(r, "render")
    /\ UNCHANGED cached

(* Mutant of Draw: it writes them where they are cached.                    *)
DrawInPlace(r) ==
    /\ In(r, "render") /\ tmpThere
    /\ \E p \in Pages \ tmp : tmp' = tmp \cup {p} /\ cached' = tmp'
    /\ UNCHANGED <<tmpThere, at>>

(* The renderer's process writes pages until it is done, fails, or is
   killed after five minutes.                                               *)
Draw(r) ==
    /\ In(r, "render") /\ tmpThere
    /\ \E p \in Pages \ tmp : tmp' = tmp \cup {p}
    /\ UNCHANGED <<cached, tmpThere, at>>

Finish(r) ==
    /\ In(r, "render")
    /\ \/ tmp = Pages /\ To(r, "install") /\ UNCHANGED <<tmp, tmpThere>>
       \/ Gives(r)
    /\ UNCHANGED cached

(* The list of pages is taken, the old directory removed, .tmp renamed.     *)
Drop(r) ==
    /\ In(r, "install") /\ tmp # {}
    /\ cached' = {} /\ To(r, "rename")
    /\ UNCHANGED <<tmp, tmpThere>>

Install(r) ==
    /\ In(r, "rename")
    /\ \/ tmpThere /\ cached = {} /\ cached' = tmp /\ Serves(r, tmp, "cache")
       \/ UNCHANGED cached /\ Serves(r, tmp, "tmp")

NothingLeft(r) == In(r, "install") /\ tmp = {} /\ Gives(r) /\ UNCHANGED cached

(* The playback shows the pages, then is done with them.                    *)
Shown(r) == In(r, "served") /\ at' = [at EXCEPT ![r] = Idle] /\ UNCHANGED <<cached, tmp, tmpThere>>

(* At the next start what was cached long ago goes, .tmp directories too.   *)
Prune ==
    /\ \A r \in Renders : In(r, "idle")
    /\ cached' \in IF PruneCut THEN SUBSET cached ELSE {cached, {}}
    /\ \/ tmp' = {} /\ tmpThere' = FALSE
       \/ UNCHANGED <<tmp, tmpThere>>
    /\ UNCHANGED at

PowerCut == at' = [r \in Renders |-> Idle] /\ UNCHANGED <<cached, tmp, tmpThere>>

PdfNext ==
    \/ \E r \in Renders : \/ Look(r) \/ Clean(r) \/ Draw(r) \/ Finish(r) \/ Drop(r)
                          \/ Install(r) \/ NothingLeft(r) \/ Shown(r)
    \/ Prune \/ PowerCut

(* A deck that is in the cache is whole: an interrupted render cannot leave
   one that looks complete on the next boot (pdf.go).                       *)
CachedIsWhole == cached \in {{}, Pages}

(* The pages a Render has returned are there to be shown (pdf.go: served out
   of the temp dir this once, the current playlist still works).            *)
ServedIsThere ==
    \A r \in Renders : In(r, "served") =>
        at[r].pages \subseteq IF at[r].from = "cache" THEN cached ELSE tmp
=============================================================================
