----------------------------- MODULE GatewayPaths ----------------------------
(***************************************************************************)
(* What the Streaming tab edits (gateway/config.go): paths with a source   *)
(* and the places they are forwarded to.  A stream key never leaves the    *)
(* box: the tab gets every URL masked, sends them back masked, and Merge   *)
(* puts the stored key in where the owner typed nothing.  What a save does *)
(* after it is stored is in Gateway.                                       *)
(***************************************************************************)
EXTENDS Integers, Sequences, FiniteSets, SequencesExt

CONSTANTS
    PathNames,    (* what the owner calls paths; "all" is MediaMTX's own    *)
    StreamKeys,   (* all of them end alike, so all look alike when masked   *)
    Ids,          (* what NewForwardID may draw                             *)
    Tabs,         (* open pages                                             *)
    Renames,      (* the owner may rename a path that has a key             *)
    MaxForwards,  (* bound on the forwards in a page                        *)
    MaxEdits      (* bound on the edits between two loads of a page         *)

ASSUME PathsAssumption ==
    /\ "cam" \in PathNames /\ "" \notin PathNames \cup Ids
    /\ StreamKeys # {} /\ "hidden" \notin StreamKeys
    /\ Renames \in BOOLEAN /\ MaxForwards \in Nat /\ MaxEdits \in Nat

VARIABLES
    gatewayConf,        (* config.json                                             *)
    page,        (* what each tab holds of it, with the owner's edits       *)
    edits        (* how often each page was edited since it was loaded      *)

pathVars == <<gatewayConf, page, edits>>

(* A URL is where it goes and the key in it; hidden is the key of a masked
   one.  "nowhere" stands for what MediaMTX would refuse: another scheme, no
   host, no port, or an SDP missing or out of place.                        *)
Url(to, key) == [to |-> to, key |-> key]
Publish      == Url("publish", "")
Blank        == Url("", "")
ForwardUrls  == {Url("rtmp", k) : k \in StreamKeys} \cup {Url("nowhere", "")}
SourceUrls   == {Publish, Url("rtsp", CHOOSE k \in StreamKeys : TRUE), Url("nowhere", "")}

(* How the page shows a URL: the key of a masked one is hidden.             *)
Masked(url) == IF url.key = "" THEN url ELSE [url EXCEPT !.key = "hidden"]

MaskedForward(f) == [f EXCEPT !.url = Masked(@)]
MaskedPath(p) ==
    [p EXCEPT !.source = Masked(@),
              !.forward = [j \in DOMAIN p.forward |-> MaskedForward(p.forward[j])]]

Public(c) == [c EXCEPT !.paths = [i \in DOMAIN c.paths |-> MaskedPath(c.paths[i])]]

DefaultConf ==
    [paths |-> <<[name |-> "cam", source |-> Publish, forward |-> <<>>]>>,
     display |-> "", camera |-> "cam"]

PathsInit == gatewayConf = DefaultConf /\ page = [t \in Tabs |-> Public(DefaultConf)] /\ edits = [t \in Tabs |-> 0]

-----------------------------------------------------------------------------
(* Merge: the stored paths by their name and forwards by their id.          *)

Named(c, n) == {p \in ToSet(c.paths) : p.name = n}
ForwardsOf(ps) == UNION {ToSet(p.forward) : p \in ps}
Numbered(ps, id) == {f \in ForwardsOf(ps) : f.id = id}

MergedSource(old, p) ==
    IF \E o \in old : p.source = Masked(o.source) THEN (CHOOSE o \in old : TRUE).source ELSE p.source

(* Mutant of MergedForwards: the first stored forward that looks the same.  *)
ForwardsByLook(old, p, fresh) ==
    [j \in DOMAIN p.forward |->
        LET f == p.forward[j]
            alike == {o \in ForwardsOf(old) : f.url = Masked(o.url)}
        IN  [id |-> IF Numbered(old, f.id) = {} THEN fresh[<<p.name, j>>] ELSE f.id,
             url |-> IF alike # {} THEN (CHOOSE o \in alike : TRUE).url ELSE f.url]]

MergedForwards(old, p, fresh) ==
    [j \in DOMAIN p.forward |->
        LET f == p.forward[j]  o == Numbered(old, f.id)
        IN  IF o = {} THEN [f EXCEPT !.id = fresh[<<p.name, j>>]]
            ELSE IF \E g \in o : f.url \in {Masked(g.url), Blank} THEN CHOOSE g \in o : TRUE
            ELSE f]

New(edit) ==
    UNION {{<<p.name, j>> : j \in {j \in DOMAIN p.forward :
               Numbered(Named(gatewayConf, p.name), p.forward[j].id) = {}}} : p \in ToSet(edit.paths)}

(* fresh: what NewForwardID draws for the forwards that are new.            *)
MergedPath(old, p, fresh) ==
    [p EXCEPT !.source = MergedSource(old, p), !.forward = MergedForwards(old, p, fresh)]

Merge(stored, edit, fresh) ==
    [edit EXCEPT !.paths = [i \in DOMAIN edit.paths |->
        MergedPath(Named(stored, edit.paths[i].name), edit.paths[i], fresh)]]

ValidSource(p)  == p.source \in {Publish, Blank} \/ p.source.to \notin {"nowhere", ""}
ValidForward(f) == f.url.to \notin {"nowhere", "publish", ""}

ValidPaths(c) ==
    LET names == {p.name : p \in ToSet(c.paths)} IN
    /\ \A i, k \in DOMAIN c.paths : c.paths[i].name = c.paths[k].name => i = k
    /\ \A p \in ToSet(c.paths) :
         /\ p.name \notin {"", "all"} /\ ValidSource(p)
         /\ \A i, k \in DOMAIN p.forward : p.forward[i].id = p.forward[k].id => i = k
         /\ \A f \in ToSet(p.forward) : f.id # "" /\ ValidForward(f)
    /\ {c.display, c.camera} \subseteq names \cup {""}

-----------------------------------------------------------------------------
(* The owner at a page.                                                     *)

Loaded(t, c) == page' = [page EXCEPT ![t] = Public(c)] /\ edits' = [edits EXCEPT ![t] = 0]
Reload(t)    == Loaded(t, gatewayConf) /\ UNCHANGED gatewayConf

Edit(t, edited) ==
    /\ edits[t] < MaxEdits /\ edits' = [edits EXCEPT ![t] = @ + 1]
    /\ page' = [page EXCEPT ![t].paths = edited] /\ UNCHANGED gatewayConf

Forwards(ps) == UNION {{p.name} \X DOMAIN p.forward : p \in ps}

AddPath(t, n) ==
    /\ Len(page[t].paths) < 2
    /\ Edit(t, Append(page[t].paths, [name |-> n, source |-> Publish, forward |-> <<>>]))

DropPath(t, i) == Edit(t, RemoveAt(page[t].paths, i))

(* With a key to carry along only if Renames: the stored key is looked up
   by the path's name.                                                      *)
Keyless(p) == p.source.key = "" /\ \A f \in ToSet(p.forward) : f.url.key = ""

Rename(t, i, n) ==
    /\ Renames \/ Keyless(page[t].paths[i])
    /\ Edit(t, [page[t].paths EXCEPT ![i].name = n])

TypeSource(t, i, u) == Edit(t, [page[t].paths EXCEPT ![i].source = u])

AddForward(t, i, u) ==
    /\ Cardinality(Forwards(ToSet(page[t].paths))) < MaxForwards
    /\ Edit(t, [page[t].paths EXCEPT ![i].forward = Append(@, [id |-> "", url |-> u])])

DropForward(t, i, j) == Edit(t, [page[t].paths EXCEPT ![i].forward = RemoveAt(@, j)])

TypeForward(t, i, j, u) == Edit(t, [page[t].paths EXCEPT ![i].forward[j].url = u])

(* handleConfig: the edit is merged with what is stored, checked, stored and
   sent back; a refused one stays in the page.                              *)
PostPaths(t) ==
    \E fresh \in [New(page[t]) -> Ids] :
        LET merged == Merge(gatewayConf, page[t], fresh) IN
        IF ValidPaths(merged)
        THEN gatewayConf' = merged /\ Loaded(t, merged)
        ELSE UNCHANGED pathVars

(* handleDisplay: the one field, without the page.                          *)
Display(n) ==
    /\ ValidPaths([gatewayConf EXCEPT !.display = n])
    /\ gatewayConf' = [gatewayConf EXCEPT !.display = n] /\ UNCHANGED <<page, edits>>

PathsNext ==
    \/ \E t \in Tabs :
        \/ Reload(t) \/ PostPaths(t)
        \/ \E n \in PathNames : AddPath(t, n)
        \/ \E i \in DOMAIN page[t].paths :
            \/ DropPath(t, i)
            \/ \E n \in PathNames : Rename(t, i, n)
            \/ \E u \in SourceUrls : TypeSource(t, i, u)
            \/ \E u \in ForwardUrls : AddForward(t, i, u)
            \/ \E j \in DOMAIN page[t].paths[i].forward :
                DropForward(t, i, j) \/ \E u \in ForwardUrls \cup {Blank} : TypeForward(t, i, j, u)
    \/ \E n \in PathNames \cup {""} : Display(n)

-----------------------------------------------------------------------------
(* What MediaMTX reads: Render's part of a path.                            *)
Render(c) ==
    [n \in {p.name : p \in ToSet(c.paths)} |->
        LET p == CHOOSE p \in Named(c, n) : TRUE IN
        [pulls |-> IF p.source = Blank THEN Publish ELSE p.source,
         pushes |-> {f.url : f \in ToSet(p.forward)}]]

(* MediaMTX is given every URL with its key, never as the page shows it.    *)
KeysGoHome ==
    \A n \in DOMAIN Render(gatewayConf) : \A u \in Render(gatewayConf)[n].pushes \cup {Render(gatewayConf)[n].pulls} : u.key # "hidden"

(* The key of a forward changes when somebody types another in its place, or
   in a new one that draws its number, and by nothing else, whatever is added
   and dropped around it (gateway/config.go: a source or destination that
   comes back in its masked form means "unchanged").                        *)
KeysAreKept ==
    [][/\ KeysGoHome'
       /\ \A n \in DOMAIN Render(gatewayConf) : \A f \in ForwardsOf(Named(gatewayConf, n)) :
            \A g \in Numbered(Named(gatewayConf', n), f.id) :
                g.url # f.url => \E t \in Tabs : \E e \in ForwardsOf(Named(page[t], n)) :
                                    /\ e.url = g.url
                                    /\ e.id = f.id \/ Numbered(Named(gatewayConf, n), e.id) = {}]_pathVars
=============================================================================
