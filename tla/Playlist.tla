------------------------------ MODULE Playlist -------------------------------
(***************************************************************************)
(* The play set of bdplay (player/playlist.go): the order items come in,   *)
(* the reshuffle of every cycle, and the steering of a running playback.   *)
(* A shuffle is any permutation.                                           *)
(***************************************************************************)
EXTENDS Naturals, Sequences

CONSTANTS Clips,   (* how many items are in the set                          *)
          Steered  (* the owner may go back and change the order             *)

ASSUME PlaylistAssumption == Clips \in Nat \ {0} /\ Steered \in BOOLEAN

VARIABLES
    seq, pos,    (* the order of this cycle, and how much of it is played    *)
    random, looping,
    wrapped,     (* cycles > 0                                               *)
    lastPlayed,  (* 0 before anything is played                              *)
    shown, ended, (* history: what this cycle returned, and what came last
                    before it                                                *)
    straight     (* history: nobody has steered in this cycle                *)

playlistVars == <<seq, pos, random, looping, wrapped, lastPlayed, shown, ended, straight>>

InOrder  == [i \in 1..Clips |-> i]
Shuffles == {s \in [1..Clips -> 1..Clips] : \A i, j \in 1..Clips : s[i] = s[j] => i = j}
Swapped(s) == [s EXCEPT ![1] = s[Clips], ![Clips] = s[1]]

(* Mutant of Reseq: the ends are left alone.                                *)
ReseqPlain(rand, again) == IF rand THEN Shuffles ELSE {InOrder}

(* The orders reseq may choose: a reshuffle that would begin with the item
   just played has its ends swapped.                                        *)
Reseq(rand, again) ==
    IF ~rand THEN {InOrder}
    ELSE {IF again /\ Clips > 1 /\ s[1] = lastPlayed THEN Swapped(s) ELSE s : s \in Shuffles}

PlaylistInit ==
    /\ random \in BOOLEAN /\ looping \in BOOLEAN
    /\ wrapped = FALSE /\ lastPlayed = 0 /\ pos = 0
    /\ seq \in IF random THEN Shuffles ELSE {InOrder}
    /\ shown = <<>> /\ ended = 0 /\ straight = TRUE

(* The next item, and when the cycle is over a new cycle if it loops.        *)
Returns(i, before) == lastPlayed' = i /\ shown' = Append(before, i)

NextClip ==
    /\ UNCHANGED <<random, looping>>
    /\ \/ /\ pos < Clips
          /\ pos' = pos + 1 /\ Returns(seq[pos + 1], shown)
          /\ UNCHANGED <<seq, wrapped, ended, straight>>
       \/ /\ pos >= Clips /\ looping
          /\ wrapped' = TRUE /\ seq' \in Reseq(random, TRUE)
          /\ pos' = 1 /\ Returns(seq'[1], <<>>)
          /\ ended' = lastPlayed /\ straight' = TRUE

PrevClip ==
    /\ Steered
    /\ pos' = IF pos < 2 THEN 0 ELSE pos - 2
    /\ straight' = FALSE /\ shown' = <<>> /\ ended' = 0
    /\ UNCHANGED <<seq, random, looping, wrapped, lastPlayed>>

(* A random order starts over; a sequential one keeps the place.             *)
SetOrder ==
    /\ Steered
    /\ random' = ~random
    /\ seq' \in Reseq(~random, wrapped)
    /\ pos' = IF random /\ pos < Clips THEN pos ELSE 0
    /\ straight' = FALSE /\ shown' = <<>> /\ ended' = 0
    /\ UNCHANGED <<looping, wrapped, lastPlayed>>

SetLoop == looping' = ~looping /\ UNCHANGED <<seq, pos, random, wrapped, lastPlayed, shown, ended, straight>>

PlaylistNext == NextClip \/ PrevClip \/ SetOrder \/ SetLoop

(* Everything is shown once in a cycle nobody steers, and no item twice in a
   row, across the boundary of two cycles neither, unless it is the only one
   (playlist.go: a reshuffled permutation shows everything once per cycle;
   the last item of the old cycle does not land first in the new one).      *)
ShowsEachOnce ==
    straight => /\ \A i, j \in DOMAIN shown : shown[i] = shown[j] => i = j
                /\ pos = Len(shown)
                /\ shown # <<>> /\ Clips > 1 => shown[1] # ended
=============================================================================
