--------------------------- MODULE OmtParts_proofs ---------------------------
(***************************************************************************)
(* Proofs about the parts of bdomt beside the session: the list of         *)
(* senders, the pools of the sinks and the mailbox, the receiver, the API  *)
(* and the guard against a crash loop, for any number of callers, buffers, *)
(* readers, samples, senders, sources and settings, with saves and the     *)
(* display failing and bdomt killed at any point.                          *)
(***************************************************************************)
EXTENDS OmtParts, FiniteSetTheorems, WellFoundedInduction, TLAPS

-----------------------------------------------------------------------------
(* A step of the whole is a step of each part, or leaves it alone.          *)
LEMMA StepOfParts ==
  ASSUME [PartsNext]_partsVars
  PROVE  /\ [BoxNext]_boxVars /\ [SinkNext]_sinkVars /\ [AudioNext]_audioVars
         /\ [DiscoveryNext]_discoveryVars
  BY DEF PartsNext, Keeps, partsVars

LEMMA StartsOfParts == PartsInit => BoxInit /\ SinkInit /\ AudioInit /\ DiscoveryInit
  BY DEF PartsInit

-----------------------------------------------------------------------------
(* The list of senders.                                                     *)

DiscoveryTypes ==
  /\ leader \in Lookers \cup {Nobody}
  /\ asking \subseteq Records /\ heard \subseteq Records
  /\ direct \in BOOLEAN
  /\ nth \in [Lookers -> {1, 2}]
  /\ excused \in [Lookers -> BOOLEAN]
  /\ look \in [Lookers -> {"idle", "looking", "waiting", "woken", "browsing", "found", "given up"}]

(* Who was woken has seen a browse end.                                     *)
WokenIsExcused == \A c \in Lookers : look[c] \in {"woken", "given up"} => excused[c]

(* What an undisturbed browse has, and still asks for, is all there is once
   it has asked directly, and the name and the service before that.         *)
BrowseGoesOn ==
  leader # Nobody /\ there /\ ~flawed =>
    \/ ~direct /\ asking = {"ptr"} /\ heard = {}
    \/ ~direct /\ asking = {} /\ {"ptr", "srv"} \subseteq heard
    \/ direct /\ heard \cup asking = Records

DiscoveryInv == DiscoveryTypes /\ WokenIsExcused /\ BrowseGoesOn

NamesService == \A extra \in Extras : "srv" \in extra

LEMMA DiscoveryStarts == DiscoveryInit => DiscoveryInv
  BY DiscoveryAssumption, ZenonT(60)
  DEF DiscoveryInit, DiscoveryInv, DiscoveryTypes, WokenIsExcused, BrowseGoesOn, Records

(* Somebody reads the list: the browse is not touched.                      *)
LEMMA GotKeeps ==
  ASSUME DiscoveryInv, NEW c \in Lookers, NEW found \in BOOLEAN, Got(c, found),
         UNCHANGED <<there, browseVars, flawed>>,
         excused' \in [Lookers -> BOOLEAN], excused'[c] \/ nth[c] = 1,
         \A d \in Lookers \ {c} : excused'[d] = excused[d]
  PROVE  DiscoveryInv'
  <1> USE DEF DiscoveryInv, browseVars
  <1>1. DiscoveryTypes'
    BY DEF DiscoveryTypes, Got
  <1>2. /\ look'[c] \in {"found", "looking", "given up"}
        /\ look'[c] = "given up" => nth[c] # 1
        /\ \A d \in Lookers \ {c} : look'[d] = look[d]
    BY DEF DiscoveryTypes, Got
  <1>3. WokenIsExcused'
    BY <1>2 DEF WokenIsExcused
  <1>4. BrowseGoesOn'
    BY DEF BrowseGoesOn
  <1> QED BY <1>1, <1>3, <1>4

LEMMA HearKeeps ==
  ASSUME DiscoveryInv, NamesService, NEW q \in Records, Hear(q) PROVE DiscoveryInv'
  <1> USE DEF DiscoveryInv
  <1>1. /\ q \in asking /\ asking' = asking \ {q}
        /\ UNCHANGED <<there, leader, direct, last, stale, look, nth, excused>>
    BY DEF Hear
  <1>2. heard' \subseteq Records
    BY DiscoveryAssumption, ZenonT(60) DEF Hear, DiscoveryTypes
  <1>3. DiscoveryTypes' /\ WokenIsExcused'
    BY <1>1, <1>2 DEF DiscoveryTypes, WokenIsExcused
  <1>4. ASSUME leader # Nobody, there, ~flawed'
        PROVE  /\ ~flawed
               /\ \E extra \in IF q = "ptr" THEN Extras ELSE {{}} : heard' = heard \cup {q} \cup extra
    BY <1>4 DEF Hear
  <1>5. BrowseGoesOn'
    <2> SUFFICES ASSUME leader # Nobody, there, ~flawed'
                 PROVE  \/ ~direct /\ asking' = {"ptr"} /\ heard' = {}
                        \/ ~direct /\ asking' = {} /\ {"ptr", "srv"} \subseteq heard'
                        \/ direct /\ heard' \cup asking' = Records
      BY <1>1 DEF BrowseGoesOn
    <2>1. PICK extra \in (IF q = "ptr" THEN Extras ELSE {{}}) : heard' = heard \cup {q} \cup extra
      BY <1>4
    <2>2. ~flawed
      BY <1>4
    <2>3. CASE ~direct /\ asking = {"ptr"} /\ heard = {}
      BY <1>1, <2>1, <2>3 DEF NamesService
    <2>4. CASE ~direct /\ asking = {}
      BY <1>1, <2>4
    <2>5. CASE direct /\ heard \cup asking = Records
      BY <1>1, <1>2, <2>1, <2>5
    <2> QED BY <2>2, <2>3, <2>4, <2>5 DEF BrowseGoesOn
  <1> QED BY <1>3, <1>5

LEMMA BrowseKeeps ==
  ASSUME DiscoveryInv, AskDirectly \/ EndBrowse PROVE DiscoveryInv'
  <1> USE DEF DiscoveryInv
  <1>1. CASE AskDirectly
    <2>1. Missing \subseteq Records
      BY DEF Missing, Records
    <2>2. DiscoveryTypes' /\ WokenIsExcused'
      BY <1>1, <2>1 DEF AskDirectly, DiscoveryTypes, WokenIsExcused
    <2>3. {"ptr", "srv"} \subseteq heard /\ heard \subseteq Records => heard \cup Missing = Records
      BY DEF Missing, Records
    <2>4. BrowseGoesOn'
      BY <1>1, <2>3 DEF AskDirectly, BrowseGoesOn, DiscoveryTypes
    <2> QED BY <2>2, <2>4
  <1>2. CASE EndBrowse
    <2>1. /\ leader' = Nobody /\ asking' = {} /\ heard' = {} /\ direct' = FALSE
          /\ excused' = [c \in Lookers |-> TRUE]
          /\ nth' = [nth EXCEPT ![leader] = 2]
      BY <1>2 DEF EndBrowse
    <2>2. look' = [c \in Lookers |->
                    IF c = leader
                    THEN IF last' THEN "found" ELSE IF nth[c] = 1 THEN "looking" ELSE "given up"
                    ELSE IF look[c] = "waiting" THEN "woken" ELSE look[c]]
      BY <1>2 DEF EndBrowse
    <2>3. look' \in [Lookers -> {"idle", "looking", "waiting", "woken", "browsing", "found", "given up"}]
      BY <2>2 DEF DiscoveryTypes
    <2>4. DiscoveryTypes'
      BY <2>1, <2>3 DEF DiscoveryTypes
    <2>5. WokenIsExcused' /\ BrowseGoesOn'
      BY <2>1 DEF WokenIsExcused, BrowseGoesOn
    <2> QED BY <2>4, <2>5
  <1> QED BY <1>1, <1>2

LEMMA LookerKeeps ==
  ASSUME DiscoveryInv, NEW c \in Lookers,
         Ask(c) \/ FromList(c) \/ Join(c) \/ Lead(c) \/ Woken(c) \/ Leaves(c)
  PROVE  DiscoveryInv'
  <1>1. CASE Ask(c)
    BY <1>1 DEF Ask, browseVars, DiscoveryInv, DiscoveryTypes, WokenIsExcused, BrowseGoesOn
  <1>2. CASE FromList(c)
    <2>1. nth[c] = 1 /\ Got(c, last) /\ UNCHANGED <<there, browseVars, flawed, excused>>
      BY <1>2 DEF FromList, FreshEnough
    <2>2. Got(c, TRUE) \/ Got(c, FALSE)
      BY <2>1 DEF Got
    <2>3. excused' \in [Lookers -> BOOLEAN]
      BY <2>1 DEF DiscoveryInv, DiscoveryTypes
    <2> QED BY <2>1, <2>2, <2>3, GotKeeps
  <1>3. CASE Join(c)
    BY <1>3 DEF Join, browseVars, DiscoveryInv, DiscoveryTypes, WokenIsExcused, BrowseGoesOn
  <1>4. CASE Lead(c)
    <2>1. DiscoveryTypes' /\ WokenIsExcused'
      BY <1>4 DEF Lead, DiscoveryInv, DiscoveryTypes, WokenIsExcused, Records
    <2>2. BrowseGoesOn'
      BY <1>4 DEF Lead, BrowseGoesOn
    <2> QED BY <2>1, <2>2 DEF DiscoveryInv
  <1>5. CASE Woken(c)
    <2>1. look[c] = "woken" /\ Got(c, last) /\ UNCHANGED <<there, browseVars, flawed, excused>>
      BY <1>5 DEF Woken
    <2>2. Got(c, TRUE) \/ Got(c, FALSE)
      BY <2>1 DEF Got
    <2>3. excused' \in [Lookers -> BOOLEAN] /\ excused'[c]
      BY <2>1 DEF DiscoveryInv, DiscoveryTypes, WokenIsExcused
    <2> QED BY <2>1, <2>2, <2>3, GotKeeps
  <1>6. CASE Leaves(c)
    <2>1. Got(c, FALSE) /\ UNCHANGED <<there, browseVars, flawed>>
          /\ excused' = [excused EXCEPT ![c] = TRUE]
      BY <1>6 DEF Leaves
    <2>2. /\ excused' \in [Lookers -> BOOLEAN] /\ excused'[c]
          /\ \A d \in Lookers \ {c} : excused'[d] = excused[d]
      BY <2>1 DEF DiscoveryInv, DiscoveryTypes
    <2> QED BY <2>1, <2>2, GotKeeps
  <1> QED BY <1>1, <1>2, <1>3, <1>4, <1>5, <1>6

LEMMA DiscoveryKeeps ==
  ASSUME NamesService, DiscoveryInv, [DiscoveryNext]_discoveryVars PROVE DiscoveryInv'
  <1>1. CASE TurnUp
    BY <1>1 DEF TurnUp, browseVars, DiscoveryInv, DiscoveryTypes, WokenIsExcused, BrowseGoesOn
  <1>2. CASE Age
    BY <1>2 DEF Age, browseVars, DiscoveryInv, DiscoveryTypes, WokenIsExcused, BrowseGoesOn
  <1>3. CASE Browsing
    BY <1>3, HearKeeps, BrowseKeeps DEF Browsing
  <1>4. CASE UNCHANGED discoveryVars
    BY <1>4 DEF discoveryVars, DiscoveryInv, DiscoveryTypes, WokenIsExcused, BrowseGoesOn
  <1> QED BY <1>1, <1>2, <1>3, <1>4, LookerKeeps DEF DiscoveryNext

(* No name is given up because of a list older than the request, and an
   undisturbed browse ends with every record, however many callers share it,
   as long as a sender's answer names its service (Resolve and browse in
   omt/discovery.go).                                                       *)
THEOREM ListHolds == NamesService => (PartsSpec => []ListIsCurrent)
  <1> SUFFICES ASSUME NamesService PROVE PartsSpec => []ListIsCurrent
    OBVIOUS
  <1>1. PartsInit => DiscoveryInv
    BY StartsOfParts, DiscoveryStarts
  <1>2. DiscoveryInv /\ [PartsNext]_partsVars => DiscoveryInv'
    BY StepOfParts, DiscoveryKeeps
  <1>3. DiscoveryInv => ListIsCurrent
    BY DEF DiscoveryInv, WokenIsExcused, BrowseGoesOn, ListIsCurrent, LooksAgain, AskedIsListed
  <1> QED BY <1>1, <1>2, <1>3, PTL DEF PartsSpec

-----------------------------------------------------------------------------
LEMMA OneMoreAtMost ==
  ASSUME NEW S, IsFiniteSet(S), NEW e
  PROVE  IsFiniteSet(S \cup {e}) /\ Cardinality(S \cup {e}) <= Cardinality(S) + 1
  <1>0. Cardinality(S) \in Nat
    BY FS_CardinalityType
  <1>1. /\ IsFiniteSet(S \cup {e})
        /\ Cardinality(S \cup {e}) = IF e \in S THEN Cardinality(S) ELSE Cardinality(S) + 1
    BY FS_AddElement
  <1> QED BY <1>0, <1>1

(* The video sink's buffers.                                                *)

SinkTypes ==
  /\ call \in {"idle", "filling", "send", "join", "closed"}
  /\ writer \in {"none", "wait", "write", "broken", "drain"}
  /\ free \subseteq Buffers /\ queue \subseteq Buffers /\ lost \subseteq Buffers
  /\ call \notin {"filling", "send"} => mine = NoBuffer
  /\ call \in {"filling", "send"} => mine \in Buffers
  /\ writer # "write" => writing = NoBuffer
  /\ writer = "write" => writing \in Buffers
  /\ call = "closed" => writer = "none"

Apart ==
  /\ free \cap queue = {} /\ free \cap lost = {} /\ queue \cap lost = {}
  /\ mine \notin free \cup queue \cup lost /\ writing \notin free \cup queue \cup lost
  /\ mine # NoBuffer => mine # writing

(* While the sink is on nothing is mislaid.                                 *)
AllThere ==
  /\ call \in {"idle", "filling", "send"} =>
       Buffers \subseteq free \cup queue \cup lost \cup {mine, writing}
  /\ IsFiniteSet(queue) /\ Cardinality(queue) <= QueueCap

SinkInv == SinkTypes /\ Apart /\ AllThere

LEMMA SinkStarts == SinkInit => SinkInv
  <1>1. IsFiniteSet({}) /\ Cardinality({}) = 0
    BY FS_EmptySet
  <1> QED BY <1>1, SinkAssumption DEF SinkInit, SinkInv, SinkTypes, Apart, AllThere

LEMMA QueueLess ==
  ASSUME AllThere, NEW b \in queue
  PROVE  IsFiniteSet(queue \ {b}) /\ Cardinality(queue \ {b}) <= QueueCap
  <1>1. IsFiniteSet(queue) /\ Cardinality(queue) <= QueueCap
    BY DEF AllThere
  <1>2. IsFiniteSet(queue \ {b}) /\ Cardinality(queue \ {b}) = Cardinality(queue) - 1
    BY <1>1, FS_RemoveElement
  <1>3. Cardinality(queue) \in Nat
    BY <1>1, FS_CardinalityType
  <1> QED BY <1>1, <1>2, <1>3, SinkAssumption

LEMMA SinkKeeps == SinkInv /\ [SinkNext]_sinkVars => SinkInv'
  <1> SUFFICES ASSUME SinkInv, [SinkNext]_sinkVars PROVE SinkInv'
    OBVIOUS
  <1> USE SinkAssumption DEF SinkInv, SinkTypes, Apart
  <1>1. CASE Launch
    <2>1. IsFiniteSet({}) /\ Cardinality({}) = 0
      BY FS_EmptySet
    <2>2. AllThere'
      BY <1>1, <2>1 DEF Launch, AllThere
    <2> QED BY <1>1, <2>2 DEF Launch
  <1>2. ASSUME NEW b \in Buffers, Buffer(b) PROVE SinkInv'
    BY <1>2 DEF Buffer, AllThere
  <1>3. CASE Recycle
    BY <1>3 DEF Recycle, AllThere
  <1>4. CASE SubmitRefused
    BY <1>4 DEF SubmitRefused, AllThere
  <1>5. CASE SubmitStarts
    BY <1>5 DEF SubmitStarts, AllThere
  <1>6. CASE Send
    <2>1. /\ call = "send" /\ Cardinality(queue) < QueueCap /\ queue' = queue \cup {mine}
          /\ mine' = NoBuffer /\ call' = "idle"
          /\ UNCHANGED <<open, err, free, lost, writer, writing, gst>>
      BY <1>6 DEF Send, Room
    <2>2. IsFiniteSet(queue) /\ mine \notin queue
      BY DEF AllThere
    <2>3. IsFiniteSet(queue') /\ Cardinality(queue') = Cardinality(queue) + 1
      BY <2>1, <2>2, FS_AddElement
    <2>4. Cardinality(queue) \in Nat
      BY <2>2, FS_CardinalityType
    <2>5. Cardinality(queue') <= QueueCap
      BY <2>1, <2>3, <2>4
    <2>6. AllThere'
      BY <2>1, <2>3, <2>5 DEF AllThere
    <2> QED BY <2>1, <2>6
  <1>7. CASE CloseSink
    BY <1>7 DEF CloseSink, AllThere
  <1>8. CASE Kill
    BY <1>8 DEF Kill, AllThere
  <1>9. CASE Joined
    BY <1>9 DEF Joined, AllThere
  <1>10. ASSUME NEW b \in Buffers, WriterTakes(b) PROVE SinkInv'
    <2>1. b \in queue /\ queue' = queue \ {b}
      BY <1>10 DEF WriterTakes
    <2>2. IsFiniteSet(queue') /\ Cardinality(queue') <= QueueCap
      BY <2>1, QueueLess
    <2>3. AllThere'
      BY <1>10, <2>2 DEF WriterTakes, AllThere
    <2> QED BY <1>10, <2>3 DEF WriterTakes
  <1>11. ASSUME NEW b \in Buffers, Drain(b) PROVE SinkInv'
    <2>1. b \in queue /\ queue' = queue \ {b}
      BY <1>11 DEF Drain
    <2>2. IsFiniteSet(queue') /\ Cardinality(queue') <= QueueCap
      BY <2>1, QueueLess
    <2>3. AllThere'
      BY <1>11, <2>2 DEF Drain, AllThere
    <2> QED BY <1>11, <2>3 DEF Drain
  <1>12. CASE Written
    BY <1>12 DEF Written, AllThere
  <1>13. CASE WriteFails
    BY <1>13 DEF WriteFails, AllThere
  <1>14. CASE SetErr
    BY <1>14 DEF SetErr, AllThere
  <1>15. CASE WriterReturns
    BY <1>15 DEF WriterReturns, AllThere
  <1>16. CASE Hang \/ ReadsAgain \/ Die
    BY <1>16 DEF Hang, ReadsAgain, Die, AllThere
  <1>17. CASE UNCHANGED sinkVars
    BY <1>17 DEF sinkVars, AllThere
  <1> QED BY <1>1, <1>2, <1>3, <1>4, <1>5, <1>6, <1>7, <1>8, <1>9, <1>10, <1>11, <1>12,
             <1>13, <1>14, <1>15, <1>16, <1>17 DEF SinkNext, Decoder, Writer

EnoughBuffers == Cardinality(Buffers) >= QueueCap + 2

LEMMA SinkIsSound ==
  ASSUME SinkInv PROVE BufferInOnePlace /\ (EnoughBuffers => BufferAlwaysThere)
  <1> USE SinkAssumption DEF SinkInv
  <1>1. BufferInOnePlace
    <2> DEFINE places == <<free, queue, lost, Held(mine), Held(writing)>>
    <2>1. /\ Held(mine) \cap (free \cup queue \cup lost \cup Held(writing)) = {}
          /\ Held(writing) \cap (free \cup queue \cup lost) = {}
      BY DEF Held, Apart
    <2>2. /\ places[1] = free /\ places[2] = queue /\ places[3] = lost
          /\ places[4] = Held(mine) /\ places[5] = Held(writing)
      OBVIOUS
    <2> HIDE DEF places
    <2>3. \A i, j \in 1..5 : i # j => places[i] \cap places[j] = {}
      <3> SUFFICES ASSUME NEW i \in 1..5, NEW j \in 1..5, i # j
                   PROVE  places[i] \cap places[j] = {}
        OBVIOUS
      <3>1. free \cap queue = {} /\ free \cap lost = {} /\ queue \cap lost = {}
        BY DEF Apart
      <3>2. i \in {1, 2, 3, 4, 5} /\ j \in {1, 2, 3, 4, 5}
        OBVIOUS
      <3> QED BY <2>1, <2>2, <3>1, <3>2
    <2> QED BY <2>3 DEF BufferInOnePlace, places
  <1>2. ASSUME EnoughBuffers, call = "idle", lost = {}, free = {} PROVE FALSE
    <2>1. mine = NoBuffer
      BY <1>2 DEF SinkTypes
    <2>2. Buffers \subseteq queue \cup {writing}
      BY <1>2, <2>1 DEF AllThere
    <2>3. IsFiniteSet(queue) /\ Cardinality(queue) <= QueueCap /\ Cardinality(queue) \in Nat
      BY FS_CardinalityType DEF AllThere
    <2>4. /\ IsFiniteSet(queue \cup {writing})
          /\ Cardinality(queue \cup {writing}) <= Cardinality(queue) + 1
      BY <2>3, OneMoreAtMost
    <2>5. Cardinality(Buffers) <= Cardinality(queue \cup {writing})
      BY <2>2, <2>4, FS_Subset
    <2>6. Cardinality(Buffers) \in Nat /\ Cardinality(queue \cup {writing}) \in Nat
      BY <2>4, FS_CardinalityType
    <2> QED BY <1>2, <2>3, <2>4, <2>5, <2>6 DEF EnoughBuffers
  <1> QED BY <1>1, <1>2 DEF BufferAlwaysThere

-----------------------------------------------------------------------------
(* The mailbox's frames.                                                    *)

InHand == {filling[r] : r \in Readers}

BoxTypes ==
  /\ made \subseteq Frames /\ spare \subseteq made
  /\ pending \in made \cup {NoFrame} /\ decoding \in made \cup {NoFrame}
  /\ reader \in [Readers -> {"get", "read", "notify"}]
  /\ filling \in [Readers -> made \cup {NoFrame}]
  /\ decoder \in {"select", "take", "decode"}
  /\ \A r \in Readers : filling[r] = NoFrame <=> reader[r] # "read"
  /\ decoding = NoFrame <=> decoder # "decode"

(* No frame is forgotten while it is allocated.                             *)
NoneForgotten == made \subseteq spare \cup InHand \cup {pending, decoding}

BoxInv == BoxTypes /\ FrameInOnePlace /\ NoneForgotten /\ PoolBounded

LEMMA BoxStarts == BoxInit => BoxInv
  <1>1. Cardinality({}) = 0
    BY FS_EmptySet
  <1>2. Cardinality(Readers) \in Nat
    BY MailboxAssumption, FS_CardinalityType
  <1> QED BY <1>1, <1>2, MailboxAssumption
          DEF BoxInit, BoxInv, BoxTypes, FrameInOnePlace, NoneForgotten, PoolBounded

LEMMA NoMoreMade ==
  ASSUME PoolBounded, made \subseteq Frames, made' \subseteq made PROVE PoolBounded'
  <1>1. IsFiniteSet(made) /\ IsFiniteSet(made')
    BY MailboxAssumption, FS_Subset
  <1>2. Cardinality(made') <= Cardinality(made)
    BY <1>1, FS_Subset
  <1>3. /\ Cardinality(made) \in Nat /\ Cardinality(made') \in Nat
        /\ Cardinality(Readers) \in Nat
    BY <1>1, MailboxAssumption, FS_CardinalityType
  <1> QED BY <1>2, <1>3 DEF PoolBounded

(* As many as the readers, the mailbox and the decoder hold are not too many. *)
LEMMA HeldIsBounded ==
  ASSUME BoxTypes, made \subseteq InHand \cup {pending, decoding} PROVE PoolBounded
  <1>1. IsFiniteSet(Readers) /\ Cardinality(Readers) \in Nat
    BY MailboxAssumption, FS_CardinalityType
  <1>2. filling \in Surjection(Readers, InHand)
    BY DEF Surjection, InHand, BoxTypes
  <1>3. IsFiniteSet(InHand) /\ Cardinality(InHand) <= Cardinality(Readers)
    BY <1>1, <1>2, FS_Surjection
  <1> DEFINE one == InHand \cup {pending}
             two == one \cup {decoding}
  <1>4. IsFiniteSet(one) /\ Cardinality(one) <= Cardinality(InHand) + 1
    BY <1>3, OneMoreAtMost
  <1>5. IsFiniteSet(two) /\ Cardinality(two) <= Cardinality(one) + 1
    BY <1>4, OneMoreAtMost
  <1>6. made \subseteq two
    OBVIOUS
  <1> HIDE DEF one, two
  <1>7. IsFiniteSet(made) /\ Cardinality(made) <= Cardinality(two)
    BY <1>5, <1>6, FS_Subset
  <1>8. /\ Cardinality(made) \in Nat /\ Cardinality(InHand) \in Nat
        /\ Cardinality(one) \in Nat /\ Cardinality(two) \in Nat
    BY <1>3, <1>4, <1>5, <1>7, FS_CardinalityType
  <1> QED BY <1>1, <1>3, <1>4, <1>5, <1>7, <1>8 DEF PoolBounded

LEMMA GetKeeps ==
  ASSUME BoxInv, NEW r \in Readers, NEW f \in Frames, Get(r, f) PROVE BoxInv'
  <1> USE MailboxAssumption DEF BoxInv, Get, ReaderGoesTo
  <1>1. filling[r] = NoFrame /\ f # NoFrame
    BY DEF BoxTypes
  <1>2. f \in spare \/ (spare = {} /\ f \notin made)
    <2>1. CASE spare # {}
      BY <2>1 DEF Get
    <2>2. CASE spare = {}
      BY <2>2 DEF Get
    <2> QED BY <2>1, <2>2
  <1>3. f \notin {pending, decoding} /\ \A q \in Readers : filling[q] # f
    BY <1>1, <1>2 DEF BoxTypes, FrameInOnePlace
  <1>4. BoxTypes'
    BY <1>1, <1>2 DEF BoxTypes
  <1>5. FrameInOnePlace'
    BY <1>1, <1>2, <1>3 DEF BoxTypes, FrameInOnePlace
  <1>6. NoneForgotten'
    <2>1. \A g \in InHand : g # NoFrame => g \in InHand'
      BY <1>1 DEF InHand, BoxTypes
    <2>2. f \in InHand'
      BY DEF InHand, BoxTypes
    <2>3. NoFrame \notin made'
      BY <1>4 DEF BoxTypes
    <2> QED BY <2>1, <2>2, <2>3 DEF NoneForgotten
  <1>7. PoolBounded'
    <2>1. CASE f \in made
      <3>1. made' \subseteq made
        BY <2>1
      <3> QED BY <3>1, NoMoreMade DEF BoxTypes
    <2>2. CASE f \notin made
      <3>1. spare' = {}
        BY <1>2, <2>2 DEF BoxTypes
      <3>2. made' \subseteq InHand' \cup {pending', decoding'}
        BY <1>6, <3>1 DEF NoneForgotten
      <3>3. (BoxTypes /\ made \subseteq InHand \cup {pending, decoding} => PoolBounded)'
        BY HeldIsBounded, PTL
      <3> QED BY <1>4, <3>2, <3>3
    <2> QED BY <2>1, <2>2
  <1> QED BY <1>4, <1>5, <1>6, <1>7

LEMMA PutKeeps ==
  ASSUME BoxInv, NEW r \in Readers, Put(r) PROVE BoxInv'
  <1> USE MailboxAssumption DEF BoxInv, Put, ReaderGoesTo
  <1>1. filling[r] # NoFrame /\ filling[r] \in made
    BY DEF BoxTypes
  <1>2. BoxTypes'
    BY <1>1 DEF BoxTypes
  <1>3. FrameInOnePlace'
    BY <1>1 DEF BoxTypes, FrameInOnePlace
  <1>4. NoneForgotten'
    <2>1. \A g \in InHand : g # filling[r] => g \in InHand'
      BY DEF InHand, BoxTypes
    <2>2. NoFrame \notin made
      BY DEF BoxTypes
    <2> QED BY <2>1, <2>2 DEF NoneForgotten
  <1>5. PoolBounded'
    BY NoMoreMade DEF BoxTypes
  <1> QED BY <1>2, <1>3, <1>4, <1>5

(* A reader or the decode loop lets go of its frame.                        *)
LEMMA ReaderReleaseKeeps ==
  ASSUME BoxInv, NEW r \in Readers, ReaderReleases(r) PROVE BoxInv'
  <1> USE MailboxAssumption DEF BoxInv, ReaderReleases, Released, ReaderGoesTo
  <1>1. filling[r] # NoFrame /\ filling[r] \in made
    BY DEF BoxTypes
  <1>2. /\ filling[r] \notin spare \cup {pending, decoding}
        /\ \A q \in Readers \ {r} : filling[q] # filling[r]
    BY <1>1 DEF FrameInOnePlace
  <1>3. /\ reader' = [reader EXCEPT ![r] = "get"] /\ filling' = [filling EXCEPT ![r] = NoFrame]
        /\ UNCHANGED <<pending, token, decoder, decoding>>
        /\ \/ spare' = spare \cup {filling[r]} /\ made' = made
           \/ spare' = spare /\ made' = made \ {filling[r]}
    OBVIOUS
  <1> HIDE DEF ReaderReleases, Released, ReaderGoesTo
  <1>4. BoxTypes'
    BY <1>1, <1>2, <1>3 DEF BoxTypes
  <1>5. FrameInOnePlace'
    BY <1>1, <1>2, <1>3 DEF BoxTypes, FrameInOnePlace
  <1>6. NoneForgotten'
    <2>1. \A g \in InHand : g # filling[r] => g \in InHand'
      BY <1>3 DEF InHand, BoxTypes
    <2> QED BY <1>3, <2>1 DEF NoneForgotten
  <1>7. PoolBounded'
    BY <1>3, NoMoreMade DEF BoxTypes
  <1> QED BY <1>4, <1>5, <1>6, <1>7

LEMMA DecoderReleaseKeeps ==
  ASSUME BoxInv, DecoderReleases PROVE BoxInv'
  <1> USE MailboxAssumption DEF BoxInv, DecoderReleases, Released
  <1>1. decoding # NoFrame /\ decoding \in made
    BY DEF BoxTypes
  <1>2. decoding \notin spare \cup {pending} /\ \A q \in Readers : filling[q] # decoding
    BY <1>1 DEF FrameInOnePlace
  <1>3. /\ decoding' = NoFrame /\ decoder' = "select"
        /\ UNCHANGED <<pending, token, reader, filling>>
        /\ \/ spare' = spare \cup {decoding} /\ made' = made
           \/ spare' = spare /\ made' = made \ {decoding}
    OBVIOUS
  <1> HIDE DEF DecoderReleases, Released
  <1>4. BoxTypes'
    BY <1>1, <1>2, <1>3 DEF BoxTypes
  <1>5. FrameInOnePlace'
    BY <1>1, <1>2, <1>3 DEF BoxTypes, FrameInOnePlace
  <1>6. NoneForgotten'
    BY <1>3 DEF NoneForgotten, InHand
  <1>7. PoolBounded'
    BY <1>3, NoMoreMade DEF BoxTypes
  <1> QED BY <1>4, <1>5, <1>6, <1>7

LEMMA TakeKeeps ==
  ASSUME BoxInv, Take PROVE BoxInv'
  <1> USE MailboxAssumption DEF BoxInv, Take
  <1>1. decoding = NoFrame
    BY DEF BoxTypes
  <1>2. BoxTypes'
    BY <1>1 DEF BoxTypes
  <1>3. FrameInOnePlace'
    BY <1>1 DEF BoxTypes, FrameInOnePlace
  <1>4. NoneForgotten'
    BY <1>1 DEF BoxTypes, NoneForgotten, InHand
  <1>5. PoolBounded'
    BY NoMoreMade DEF BoxTypes
  <1> QED BY <1>2, <1>3, <1>4, <1>5

LEMMA BoxKeeps == BoxInv /\ [BoxNext]_boxVars => BoxInv'
  <1> SUFFICES ASSUME BoxInv, [BoxNext]_boxVars PROVE BoxInv'
    OBVIOUS
  <1> USE MailboxAssumption
  <1>1. ASSUME NEW r \in Readers, Notify(r) PROVE BoxInv'
    <2>1. /\ reader[r] = "notify" /\ filling[r] = NoFrame
          /\ reader' = [reader EXCEPT ![r] = "get"] /\ filling' = [filling EXCEPT ![r] = NoFrame]
          /\ UNCHANGED <<made, spare, pending, decoder, decoding>>
      BY <1>1 DEF Notify, ReaderGoesTo, BoxInv, BoxTypes
    <2>2. filling' = filling
      BY <2>1 DEF BoxInv, BoxTypes
    <2> QED BY <2>1, <2>2
            DEF BoxInv, BoxTypes, FrameInOnePlace, NoneForgotten, InHand, PoolBounded
  <1>2. CASE Notified
    BY <1>2 DEF Notified, BoxInv, BoxTypes, FrameInOnePlace, NoneForgotten, InHand, PoolBounded
  <1>3. CASE UNCHANGED boxVars
    BY <1>3 DEF boxVars, BoxInv, BoxTypes, FrameInOnePlace, NoneForgotten, InHand, PoolBounded
  <1> QED BY <1>1, <1>2, <1>3, GetKeeps, PutKeeps, ReaderReleaseKeeps, DecoderReleaseKeeps, TakeKeeps
          DEF BoxNext

(* A set of numbers that is not empty has a least one.                      *)
LEMMA HasALeast ==
  ASSUME NEW S, S \subseteq Nat, S # {}
  PROVE  \E d \in S : \A e \in S : d <= e
  <1>1. PICK d \in S : \A e \in S : <<e, d>> \notin OpToRel(<, Nat)
    BY NatLessThanWellFounded, WFMin
  <1>2. ASSUME NEW e \in S PROVE d <= e
    <2>1. <<e, d>> \in Nat \X Nat /\ <<e, d>>[1] = e /\ <<e, d>>[2] = d
      OBVIOUS
    <2>2. ~(e < d)
      BY <1>1, <2>1 DEF OpToRel
    <2> QED BY <2>2
  <1> QED BY <1>2

-----------------------------------------------------------------------------
(* The audio sink's queue.  A sum is the last of the running totals, and    *)
(* there is one function of them: by the least place where another would    *)
(* differ, or where there would be none.                                    *)

Totals(s, g) == g = [i \in 0..Len(s) |-> IF i = 0 THEN 0 ELSE g[i - 1] + s[i]]

LEMMA SumIsTheLastTotal == ASSUME NEW s PROVE SumOf(s) = (CHOOSE g : Totals(s, g))[Len(s)]
  BY DEF SumOf, Totals

LEMMA TotalsAre ==
  ASSUME NEW s, Len(s) \in Nat, NEW g, Totals(s, g)
  PROVE  g[0] = 0 /\ \A i \in 1..Len(s) : g[i] = g[i - 1] + s[i]
  <1>1. g = [i \in 0..Len(s) |-> IF i = 0 THEN 0 ELSE g[i - 1] + s[i]]
    BY DEF Totals
  <1>2. \A i \in 0..Len(s) : g[i] = IF i = 0 THEN 0 ELSE g[i - 1] + s[i]
    BY <1>1
  <1>3. 0 \in 0..Len(s) /\ \A i \in 1..Len(s) : i \in 0..Len(s) /\ i # 0
    OBVIOUS
  <1> QED BY <1>2, <1>3

LEMMA OneTotal ==
  ASSUME NEW s, Len(s) \in Nat, NEW g, NEW h, Totals(s, g), Totals(s, h)
  PROVE  g[Len(s)] = h[Len(s)]
  <1> DEFINE n == Len(s)
             differ == {i \in 0..n : g[i] # h[i]}
  <1>1. /\ g[0] = 0 /\ \A i \in 1..n : g[i] = g[i - 1] + s[i]
        /\ h[0] = 0 /\ \A i \in 1..n : h[i] = h[i - 1] + s[i]
    BY TotalsAre
  <1>2. n \in Nat
    OBVIOUS
  <1> HIDE DEF n
  <1>3. ASSUME differ # {} PROVE FALSE
    <2>0. differ \subseteq Nat
      BY <1>2
    <2> HIDE DEF differ
    <2>1. PICK d \in differ : \A e \in differ : d <= e
      BY <1>3, <2>0, HasALeast
    <2> USE DEF differ
    <2>2. d \in 1..n /\ d - 1 \in 0..n /\ d - 1 \notin differ
      BY <1>1, <1>2, <2>1
    <2>3. g[d - 1] = h[d - 1]
      BY <2>2
    <2> QED BY <1>1, <2>1, <2>2, <2>3
  <1>4. n \in 0..n
    BY <1>2
  <1> QED BY <1>3, <1>4 DEF n

LEMMA SumFromTotals ==
  ASSUME NEW s, Len(s) \in Nat, NEW g, Totals(s, g)
  PROVE  SumOf(s) = g[Len(s)]
  <1>1. Totals(s, CHOOSE h : Totals(s, h))
    OBVIOUS
  <1> QED BY <1>1, SumIsTheLastTotal, OneTotal

(* The totals of a sequence are those of its prefix, and one more.          *)
LEMMA TotalsExist ==
  ASSUME NEW s \in Seq(Nat) PROVE \E g \in [0..Len(s) -> Nat] : Totals(s, g)
  <1> DEFINE n == Len(s)
             Upto(k) == \E g \in [0..k -> Nat] :
                          /\ g[0] = 0
                          /\ \A i \in 1..k : g[i] = g[i - 1] + s[i]
             never == {k \in 0..n : ~Upto(k)}
  <1>1. n \in Nat /\ \A i \in 1..n : s[i] \in Nat
    OBVIOUS
  <1> HIDE DEF n
  <1>2. Upto(0)
    <2> DEFINE z == [i \in 0..0 |-> 0]
    <2>1. z \in [0..0 -> Nat] /\ z[0] = 0 /\ 1..0 = {}
      OBVIOUS
    <2> HIDE DEF z
    <2> QED BY <2>1
  <1>3. ASSUME NEW k \in Nat, k + 1 <= n, Upto(k) PROVE Upto(k + 1)
    <2>1. PICK g \in [0..k -> Nat] : g[0] = 0 /\ \A i \in 1..k : g[i] = g[i - 1] + s[i]
      BY <1>3
    <2> DEFINE h == [i \in 0..(k + 1) |-> IF i = k + 1 THEN g[k] + s[k + 1] ELSE g[i]]
    <2>2. k + 1 \in 1..n /\ k \in 0..k
      BY <1>1, <1>3
    <2>3. \A i \in 0..(k + 1) : i # k + 1 => i \in 0..k
      BY <1>3
    <2>4. h \in [0..(k + 1) -> Nat]
      BY <1>1, <2>2, <2>3
    <2>5. \A i \in 0..k : h[i] = g[i]
      OBVIOUS
    <2>6. h[k + 1] = g[k] + s[k + 1]
      BY <1>3
    <2> HIDE DEF h
    <2>7. h[0] = 0
      BY <2>1, <2>5
    <2>8. ASSUME NEW i \in 1..(k + 1) PROVE h[i] = h[i - 1] + s[i]
      <3>1. CASE i = k + 1
        BY <1>3, <2>2, <2>5, <2>6, <3>1
      <3>2. CASE i \in 1..k
        <4>1. i \in 0..k /\ i - 1 \in 0..k
          BY <3>2
        <4> QED BY <2>1, <2>5, <3>2, <4>1
      <3> QED BY <1>3, <3>1, <3>2
    <2> QED BY <2>4, <2>7, <2>8
  <1>4. Upto(n)
    <2> SUFFICES ASSUME ~Upto(n) PROVE FALSE
      OBVIOUS
    <2>1. n \in never /\ never \subseteq Nat
      BY <1>1
    <2>2. PICK k \in never : \A e \in never : k <= e
      BY <2>1, HasALeast
    <2>3. k # 0 /\ k \in 0..n /\ ~Upto(k)
      BY <1>2, <2>2
    <2>4. k - 1 \in Nat /\ k - 1 \in 0..n /\ (k - 1) + 1 = k /\ ~(k <= k - 1)
      BY <1>1, <2>3
    <2>5. Upto(k - 1)
      BY <2>2, <2>4
    <2> HIDE DEF Upto
    <2>6. (k - 1) + 1 <= n
      BY <1>1, <2>3
    <2> QED BY <1>3, <2>3, <2>4, <2>5, <2>6
  <1>5. PICK g \in [0..n -> Nat] : g[0] = 0 /\ \A i \in 1..n : g[i] = g[i - 1] + s[i]
    BY <1>4
  <1>6. g = [i \in 0..n |-> IF i = 0 THEN 0 ELSE g[i - 1] + s[i]]
    <2>1. \A i \in 0..n : i = 0 \/ i \in 1..n
      BY <1>1
    <2>2. \A i \in 0..n : g[i] = IF i = 0 THEN 0 ELSE g[i - 1] + s[i]
      BY <1>5, <2>1
    <2> QED BY <2>2
  <1> QED BY <1>6 DEF Totals, n

(* The sum of a part is what its totals grow by.                            *)
LEMMA SumOfPart ==
  ASSUME NEW s \in Seq(Nat), NEW g \in [0..Len(s) -> Nat], Totals(s, g),
         NEW a \in 0..Len(s), NEW b \in a..Len(s)
  PROVE  SumOf(SubSeq(s, a + 1, b)) = g[b] - g[a]
  <1> DEFINE u == SubSeq(s, a + 1, b)
             h == [i \in 0..(b - a) |-> g[a + i] - g[a]]
  <1>1. Len(s) \in Nat /\ a \in Nat /\ b \in Nat /\ a <= b /\ b <= Len(s)
    OBVIOUS
  <1>2. Len(u) = b - a /\ \A i \in 1..(b - a) : u[i] = s[a + i]
    BY <1>1
  <1>3. g[0] = 0 /\ \A i \in 1..Len(s) : g[i] = g[i - 1] + s[i]
    BY <1>1, TotalsAre
  <1>4. \A i \in 0..Len(s) : g[i] \in Nat
    OBVIOUS
  <1>5. \A i \in 1..Len(s) : s[i] \in Nat
    OBVIOUS
  <1> HIDE DEF u
  <1>6. \A i \in 0..(b - a) : h[i] = g[a + i] - g[a]
    OBVIOUS
  <1>7. h[0] = 0
    BY <1>1, <1>4, <1>6
  <1>8. ASSUME NEW i \in 1..(b - a) PROVE h[i] = h[i - 1] + u[i]
    <2>1. /\ i \in 0..(b - a) /\ i - 1 \in 0..(b - a) /\ a + i \in 1..Len(s) /\ a + (i - 1) = a + i - 1
          /\ a + i - 1 \in 0..Len(s)
      BY <1>1
    <2>2. g[a + i] = g[a + i - 1] + s[a + i]
      BY <1>3, <2>1
    <2>3. h[i] = g[a + i] - g[a] /\ h[i - 1] = g[a + i - 1] - g[a]
      BY <1>6, <2>1
    <2>4. u[i] = s[a + i] /\ g[a + i - 1] \in Nat /\ s[a + i] \in Nat /\ g[a] \in Nat
      BY <1>1, <1>2, <1>4, <1>5, <2>1
    <2> QED BY <2>2, <2>3, <2>4
  <1>9. Totals(u, h)
    <2>1. h = [i \in 0..(b - a) |-> h[i]]
      OBVIOUS
    <2> HIDE DEF h
    <2>2. \A i \in 0..(b - a) : h[i] = IF i = 0 THEN 0 ELSE h[i - 1] + u[i]
      BY <1>1, <1>7, <1>8
    <2> QED BY <1>2, <2>1, <2>2 DEF Totals
  <1>10. SumOf(u) = h[Len(u)] /\ Len(u) \in 0..(b - a) /\ a + Len(u) = b
    BY <1>1, <1>2, <1>9, SumFromTotals
  <1> QED BY <1>6, <1>10 DEF u

LEMMA SumOfMore ==
  ASSUME NEW s \in Seq(Nat), NEW n \in Nat
  PROVE  SumOf(Append(s, n)) = SumOf(s) + n
  <1> DEFINE u == Append(s, n)
             k == Len(s)
  <1>1. u \in Seq(Nat) /\ k \in Nat /\ Len(u) = k + 1 /\ u[k + 1] = n /\ \A i \in 1..k : u[i] = s[i]
    OBVIOUS
  <1> HIDE DEF u
  <1>2. PICK g \in [0..Len(u) -> Nat] : Totals(u, g)
    BY <1>1, TotalsExist
  <1>3. g[0] = 0 /\ \A i \in 1..(k + 1) : g[i] = g[i - 1] + u[i]
    <2>1. Len(u) = k + 1 /\ Len(u) \in Nat
      BY <1>1
    <2>2. g[0] = 0 /\ \A i \in 1..Len(u) : g[i] = g[i - 1] + u[i]
      BY <1>2, <2>1, TotalsAre
    <2> QED BY <2>1, <2>2
  <1> DEFINE h == [i \in 0..k |-> g[i]]
  <1>4. \A i \in 0..k : h[i] = g[i]
    OBVIOUS
  <1>5. Totals(s, h)
    <2>1. h = [i \in 0..k |-> h[i]]
      OBVIOUS
    <2> HIDE DEF h
    <2>2. ASSUME NEW i \in 0..k PROVE h[i] = IF i = 0 THEN 0 ELSE h[i - 1] + s[i]
      <3>1. CASE i = 0
        BY <1>3, <1>4, <3>1
      <3>2. CASE i # 0
        <4>1. i \in 1..k /\ i - 1 \in 0..k /\ i \in 1..(k + 1)
          BY <1>1, <3>2
        <4> QED BY <1>1, <1>3, <1>4, <3>2, <4>1
      <3> QED BY <3>1, <3>2
    <2> QED BY <2>1, <2>2 DEF Totals
  <1>6. SumOf(u) = g[k + 1] /\ SumOf(s) = h[k]
    BY <1>1, <1>2, <1>5, SumFromTotals
  <1>7. h[k] = g[k] /\ g[k + 1] = g[k] + n
    <2>1. k \in 0..k /\ k + 1 \in 1..(k + 1) /\ (k + 1) - 1 = k
      BY <1>1
    <2> QED BY <1>1, <1>3, <1>4, <2>1
  <1> QED BY <1>6, <1>7 DEF u

LEMMA SumsAdd ==
  ASSUME NEW s \in Seq(Nat), NEW k \in 0..Len(s)
  PROVE  /\ SumOf(s) \in Nat /\ SumOf(SubSeq(s, 1, k)) \in Int
         /\ SumOf(s) - SumOf(SubSeq(s, 1, k)) = SumOf(SubSeq(s, k + 1, Len(s)))
         /\ k = 1 => SumOf(SubSeq(s, 1, k)) = s[1]
  <1>1. PICK g \in [0..Len(s) -> Nat] : Totals(s, g)
    BY TotalsExist
  <1>2. Len(s) \in Nat /\ k \in Nat /\ 0 \in 0..Len(s) /\ k \in 0..Len(s) /\ Len(s) \in k..Len(s)
    OBVIOUS
  <1>3. SumOf(s) = g[Len(s)] /\ g[0] = 0 /\ \A i \in 1..Len(s) : g[i] = g[i - 1] + s[i]
    BY <1>1, <1>2, SumFromTotals, TotalsAre
  <1>4. SumOf(SubSeq(s, 1, k)) = g[k] - g[0]
    <2>1. k \in 0..Len(s) /\ 0 + 1 = 1
      BY <1>2
    <2>2. SumOf(SubSeq(s, 0 + 1, k)) = g[k] - g[0]
      BY <1>1, <1>2, SumOfPart
    <2> QED BY <2>1, <2>2
  <1>5. SumOf(SubSeq(s, k + 1, Len(s))) = g[Len(s)] - g[k]
    BY <1>1, <1>2, SumOfPart
  <1>6. g[k] \in Nat /\ g[Len(s)] \in Nat
    BY <1>2
  <1>7. k = 1 => g[k] = s[1]
    <2> SUFFICES ASSUME k = 1 PROVE g[1] = s[1]
      OBVIOUS
    <2>1. 1 \in 1..Len(s) /\ 1 - 1 = 0 /\ s[1] \in Nat
      BY <1>2
    <2> QED BY <1>3, <2>1
  <1> QED BY <1>3, <1>4, <1>5, <1>6, <1>7

LEMMA EmptySum == SumOf(<<>>) = 0
  <1> DEFINE s == <<>>
  <1>1. s \in Seq(Nat) /\ Len(s) = 0
    OBVIOUS
  <1> HIDE DEF s
  <1>2. PICK g \in [0..Len(s) -> Nat] : Totals(s, g)
    BY <1>1, TotalsExist
  <1>3. Len(s) \in Nat
    BY <1>1
  <1>4. SumOf(s) = g[Len(s)] /\ g[0] = 0
    BY <1>2, <1>3, SumFromTotals, TotalsAre
  <1> QED BY <1>1, <1>4 DEF s

AudioInv == waiting \in Seq(Nat) /\ SoundIsCurrent

LEMMA AudioStarts == AudioInit => AudioInv
  <1> SUFFICES ASSUME AudioInit PROVE AudioInv
    OBVIOUS
  <1>1. waiting = <<>> /\ bytes = 0
    BY DEF AudioInit
  <1> QED BY <1>1, EmptySum, AudioAssumption DEF AudioInv, SoundIsCurrent

LEMMA AudioKeeps == AudioInv /\ [AudioNext]_audioVars => AudioInv'
  <1> SUFFICES ASSUME AudioInv, [AudioNext]_audioVars PROVE AudioInv'
    OBVIOUS
  <1>1. /\ waiting \in Seq(Nat) /\ bytes = SumOf(waiting) /\ Budget \in Nat
        /\ bytes <= Budget \/ Len(waiting) = 1
    BY AudioAssumption DEF AudioInv, SoundIsCurrent
  <1>2. ASSUME WriteSound PROVE AudioInv'
    <2>1. PICK n \in Chunks, k \in 0..Len(waiting) :
            /\ k \in Dropped(n)
            /\ waiting' = Append(SubSeq(waiting, k + 1, Len(waiting)), n)
            /\ bytes' = bytes - SumOf(SubSeq(waiting, 1, k)) + n
      BY <1>2 DEF WriteSound
    <2> DEFINE rest == SubSeq(waiting, k + 1, Len(waiting))
    <2>2. n \in Nat
      BY AudioAssumption
    <2>3. rest \in Seq(Nat) /\ Len(rest) = Len(waiting) - k /\ Len(waiting) \in Nat
      BY <1>1
    <2>4. /\ SumOf(waiting) \in Nat /\ SumOf(SubSeq(waiting, 1, k)) \in Int
          /\ SumOf(waiting) - SumOf(SubSeq(waiting, 1, k)) = SumOf(rest)
      BY <1>1, SumsAdd
    <2>5. SumOf(rest) + n <= Budget \/ k = Len(waiting)
      BY <2>1 DEF Dropped
    <2>6. waiting' = Append(rest, n)
      BY <2>1
    <2> HIDE DEF rest
    <2>7. SumOf(waiting') = SumOf(rest) + n /\ waiting' \in Seq(Nat) /\ Len(waiting') = Len(rest) + 1
      BY <2>2, <2>3, <2>6, SumOfMore
    <2>8. bytes' = SumOf(rest) + n
      BY <1>1, <2>1, <2>2, <2>4
    <2>9. k = Len(waiting) => Len(waiting') = 1
      BY <2>3, <2>7
    <2> QED BY <2>5, <2>7, <2>8, <2>9 DEF AudioInv, SoundIsCurrent
  <1>3. ASSUME waiting # <<>>, waiting' = Tail(waiting), bytes' = bytes - Head(waiting)
        PROVE  AudioInv'
    <2>1. Len(waiting) \in Nat /\ Len(waiting) > 0 /\ 1 \in 0..Len(waiting)
      BY <1>1, <1>3
    <2>2. /\ waiting' = SubSeq(waiting, 1 + 1, Len(waiting)) /\ Head(waiting) = waiting[1]
          /\ waiting' \in Seq(Nat) /\ Len(waiting') = Len(waiting) - 1 /\ waiting[1] \in Nat
      BY <1>1, <1>3, <2>1
    <2>3. /\ SumOf(waiting) \in Nat /\ SumOf(SubSeq(waiting, 1, 1)) = waiting[1]
          /\ SumOf(waiting) - SumOf(SubSeq(waiting, 1, 1)) = SumOf(waiting')
      BY <1>1, <2>1, <2>2, SumsAdd
    <2>4. bytes' = SumOf(waiting') /\ bytes' <= bytes
      BY <1>1, <1>3, <2>2, <2>3
    <2>5. ASSUME Len(waiting) = 1 PROVE bytes' = 0
      <3>1. waiting' = <<>>
        BY <2>2, <2>5
      <3> QED BY <2>4, <3>1, EmptySum
    <2> QED BY <1>1, <2>2, <2>3, <2>4, <2>5 DEF AudioInv, SoundIsCurrent
  <1>4. ASSUME waiting' = <<>>, bytes' = 0 PROVE AudioInv'
    BY <1>1, <1>4, EmptySum DEF AudioInv, SoundIsCurrent
  <1>5. ASSUME UNCHANGED <<waiting, bytes>> PROVE AudioInv'
    BY <1>5 DEF AudioInv, SoundIsCurrent
  <1> QED BY <1>2, <1>3, <1>4, <1>5
          DEF AudioNext, StartSound, StopSound, KillSound, JoinSound, Look, WriterWrote, SoundTurns,
              audioVars

-----------------------------------------------------------------------------
(* With one buffer more than the queue and the writer hold, and for any
   number of readers, frames and buffers, any budget and chunks of any
   length: nothing is in two places, nothing leaks, nothing runs dry, and
   what waits in the audio sink is counted right and within the budget
   (mailbox in omt/receiver.go, gstVideo and gstAudio in omt/sink.go).      *)
THEOREM PoolsHold == ASSUME EnoughBuffers PROVE PartsSpec => []PoolsAreSound
  <1>1. PartsInit => BoxInv /\ SinkInv /\ AudioInv
    BY StartsOfParts, BoxStarts, SinkStarts, AudioStarts
  <1>2. BoxInv /\ SinkInv /\ AudioInv /\ [PartsNext]_partsVars => BoxInv' /\ SinkInv' /\ AudioInv'
    BY StepOfParts, BoxKeeps, SinkKeeps, AudioKeeps
  <1>3. BoxInv /\ SinkInv /\ AudioInv => PoolsAreSound
    BY SinkIsSound DEF BoxInv, AudioInv, PoolsAreSound
  <1> QED BY <1>1, <1>2, <1>3, PTL DEF PartsSpec

-----------------------------------------------------------------------------
(* Who waits is told.  A goroutine of these parts waits for a token, for    *)
(* room in a queue, in a condition variable, or for a channel to be closed; *)
(* what follows says that in none of these places it is overlooked.         *)

(* put notifies after it has let go of the mutex, and takes no second token *)
(* where there is one: a pending frame is still not forgotten.              *)
MailIsTold ==
  pending # NoFrame => token \/ decoder = "take" \/ \E r \in Readers : reader[r] = "notify"

WriterHasAStep ==
  \/ writer \in {"wait", "drain"} /\ (queue # {} \/ ~open)
  \/ writer = "broken"
  \/ writer = "write" /\ (gst \in {"reads", "dead"} \/ ~open)

(* Submit waits for room with a writer at work on the queue, unless         *)
(* gst-launch hangs, and only then; Stop has something left to do, or the   *)
(* writer has, or both are over.                                            *)
PipeIsTold ==
  /\ call = "send" => Room \/ WriterHasAStep \/ (writer = "write" /\ gst = "hangs")
  /\ call = "join" => \/ gst \in {"reads", "hangs"} \/ WriterHasAStep
                      \/ gst = "dead" /\ writer = "none"

(* The writer of the audio sink sleeps while nothing waits and nobody stops *)
(* it; Stop finds it awake, on its way out, or gone.                        *)
SoundIsTold ==
  /\ player = "asleep" => loop = "on" /\ waiting = <<>> /\ ~closed
  /\ loop = "joining" => closed /\ player # "asleep" /\ sound \in {"reads", "hangs", "dead"}

(* Who waits for a browse waits for one that somebody leads.                *)
WaitersAreLed ==
  /\ \A c \in Lookers : look[c] = "waiting" => leader # Nobody
  /\ leader # Nobody => leader \in Lookers /\ look[leader] = "browsing"

WaitsAreTold == MailIsTold /\ PipeIsTold /\ SoundIsTold /\ WaitersAreLed

LEMMA MailStays ==
  ASSUME BoxInv, MailIsTold, [BoxNext]_boxVars PROVE MailIsTold'
  <1> USE DEF MailIsTold, ReaderGoesTo
  <1>1. reader \in [Readers -> {"get", "read", "notify"}]
    BY DEF BoxInv, BoxTypes
  <1>2. ASSUME NEW r \in Readers, NEW f \in Frames, Get(r, f) PROVE MailIsTold'
    BY <1>1, <1>2 DEF Get
  <1>3. ASSUME NEW r \in Readers, Put(r) PROVE MailIsTold'
    BY <1>1, <1>3 DEF Put
  <1>4. ASSUME NEW r \in Readers, Notify(r) PROVE MailIsTold'
    BY <1>4 DEF Notify
  <1>5. ASSUME NEW r \in Readers, ReaderReleases(r) PROVE MailIsTold'
    BY <1>1, <1>5 DEF ReaderReleases
  <1>6. CASE Notified \/ Take \/ DecoderReleases
    BY <1>6 DEF Notified, Take, DecoderReleases
  <1>7. CASE UNCHANGED boxVars
    BY <1>7 DEF boxVars
  <1> QED BY <1>2, <1>3, <1>4, <1>5, <1>6, <1>7 DEF BoxNext

(* While the sink is open it has a process and a writer.                    *)
PipeIsManned ==
  /\ open <=> call \in {"idle", "filling", "send"}
  /\ open => writer # "none"
  /\ call # "closed" => gst \in {"reads", "hangs", "dead"}

LEMMA PipeStays ==
  ASSUME SinkTypes, PipeIsManned, [SinkNext]_sinkVars PROVE PipeIsManned'
  <1> USE DEF SinkTypes, PipeIsManned
  <1>1. CASE Decoder
    BY <1>1 DEF Decoder, Launch, Buffer, Recycle, SubmitRefused, SubmitStarts, Send, CloseSink,
                Kill, Joined
  <1>2. CASE Writer
    BY <1>2 DEF Writer, WriterTakes, Drain, Written, WriteFails, SetErr, WriterReturns
  <1>3. CASE Hang \/ ReadsAgain \/ Die \/ UNCHANGED sinkVars
    BY <1>3 DEF Hang, ReadsAgain, Die, sinkVars
  <1> QED BY <1>1, <1>2, <1>3 DEF SinkNext

LEMMA MannedIsTold == ASSUME SinkInv, PipeIsManned PROVE PipeIsTold
  <1>1. SinkTypes /\ IsFiniteSet(queue) /\ QueueCap \in Nat \ {0}
    BY SinkAssumption DEF SinkInv, AllThere
  <1>2. queue = {} => Room
    BY <1>1, FS_EmptySet DEF Room
  <1> QED BY <1>1, <1>2 DEF SinkTypes, PipeIsManned, PipeIsTold, WriterHasAStep

SoundIsManned ==
  /\ SoundIsTold
  /\ loop \in {"off", "on", "joining"} /\ player \in {"none", "asleep", "awake", "writing"}
  /\ loop = "off" => player = "none"
  /\ loop = "on" => ~closed /\ sound \in {"reads", "hangs", "dead"}

LEMMA SoundStays ==
  ASSUME SoundIsManned, [AudioNext]_audioVars PROVE SoundIsManned'
  <1> USE DEF SoundIsManned, SoundIsTold
  <1>1. CASE StartSound \/ StopSound \/ KillSound \/ JoinSound
    BY <1>1 DEF StartSound, StopSound, KillSound, JoinSound
  <1>2. CASE WriteSound
    BY <1>2 DEF WriteSound
  <1>3. CASE Look \/ WriterWrote \/ SoundTurns
    BY <1>3 DEF Look, WriterWrote, SoundTurns
  <1>4. CASE UNCHANGED audioVars
    BY <1>4 DEF audioVars
  <1> QED BY <1>1, <1>2, <1>3, <1>4 DEF AudioNext

LookPlaces == {"idle", "looking", "waiting", "woken", "browsing", "found", "given up"}
LedInv     == look \in [Lookers -> LookPlaces] /\ WaitersAreLed

LEMMA LedStays ==
  ASSUME LedInv, [DiscoveryNext]_discoveryVars PROVE LedInv'
  <1> USE DiscoveryAssumption DEF LedInv, LookPlaces, WaitersAreLed, browseVars
  <1>1. CASE TurnUp \/ Age \/ AskDirectly \/ UNCHANGED discoveryVars
    BY <1>1 DEF TurnUp, Age, AskDirectly, discoveryVars
  <1>2. ASSUME NEW q \in Records, Hear(q) PROVE LedInv'
    BY <1>2 DEF Hear
  <1>3. CASE EndBrowse
    <2>1. /\ leader \in Lookers /\ leader' = Nobody
          /\ look' = [c \in Lookers |->
                  IF c = leader
                  THEN IF last' THEN "found" ELSE IF nth[c] = 1 THEN "looking" ELSE "given up"
                  ELSE IF look[c] = "waiting" THEN "woken" ELSE look[c]]
      BY <1>3 DEF EndBrowse
    <2>2. look' \in [Lookers -> LookPlaces] /\ \A c \in Lookers : look'[c] # "waiting"
      BY <2>1
    <2> QED BY <2>1, <2>2
  <1>4. ASSUME NEW c \in Lookers, Ask(c) \/ Join(c) \/ Lead(c) PROVE LedInv'
    BY <1>4 DEF Ask, Join, Lead
  <1>5. ASSUME NEW c \in Lookers, FromList(c) \/ Woken(c) \/ Leaves(c) PROVE LedInv'
    <2>1. /\ look[c] \in {"looking", "waiting", "woken"} /\ leader' = leader
          /\ \E found \in {TRUE, FALSE, last} : Got(c, found)
      BY <1>5 DEF FromList, Woken, Leaves
    <2> QED BY <2>1 DEF Got
  <1> QED BY <1>1, <1>2, <1>3, <1>4, <1>5 DEF DiscoveryNext, Browsing

(* No wakeup is lost, for any number of readers, buffers, chunks and callers:
   a pending frame, a Submit, a Stop of either sink and a shared browse each
   have somebody who has yet to act on them, but for the Submit to a
   gst-launch that hangs (mailbox in omt/receiver.go, gstVideo and gstAudio
   in omt/sink.go, Sources in omt/discovery.go).                            *)
THEOREM NobodyIsOverlooked == PartsSpec => []WaitsAreTold
  <1> DEFINE TellInv == /\ BoxInv /\ MailIsTold /\ SinkInv /\ PipeIsManned
                        /\ SoundIsManned /\ LedInv
  <1>1. PartsInit => TellInv
    <2> SUFFICES ASSUME PartsInit PROVE TellInv
      OBVIOUS
    <2>1. BoxInit /\ SinkInit /\ AudioInit /\ DiscoveryInit
      BY StartsOfParts
    <2>2. BoxInv /\ SinkInv
      BY <2>1, BoxStarts, SinkStarts
    <2>3. MailIsTold /\ PipeIsManned /\ SoundIsManned
      BY <2>1 DEF BoxInit, SinkInit, AudioInit, MailIsTold, PipeIsManned, SoundIsManned, SoundIsTold
    <2>4. LedInv
      BY <2>1 DEF DiscoveryInit, LedInv, LookPlaces, WaitersAreLed
    <2> QED BY <2>2, <2>3, <2>4
  <1>2. TellInv /\ [PartsNext]_partsVars => TellInv'
    <2> SUFFICES ASSUME TellInv, [PartsNext]_partsVars PROVE TellInv'
      OBVIOUS
    <2>1. /\ [BoxNext]_boxVars /\ [SinkNext]_sinkVars /\ [AudioNext]_audioVars
          /\ [DiscoveryNext]_discoveryVars
      BY StepOfParts
    <2>2. BoxInv' /\ SinkInv'
      BY <2>1, BoxKeeps, SinkKeeps
    <2>3. MailIsTold' /\ PipeIsManned' /\ SoundIsManned' /\ LedInv'
      BY <2>1, MailStays, PipeStays, SoundStays, LedStays DEF SinkInv
    <2> QED BY <2>2, <2>3
  <1>3. TellInv => WaitsAreTold
    BY MannedIsTold DEF WaitsAreTold, SoundIsManned, LedInv
  <1> QED BY <1>1, <1>2, <1>3, PTL DEF PartsSpec

-----------------------------------------------------------------------------
(* The receiver.                                                            *)
USE ReceiverAssumption

(* Redirects lead from sender to sender, whenever connections break.        *)
THEOREM NetTypesHold == NetSpec => []NetTypeOK
<1>1. NetInit => NetTypeOK BY DEF NetInit, NetTypeOK, NetPlaces, Sockets
<1>2. NetTypeOK /\ [NetNext]_rxVars => NetTypeOK'
  <2> SUFFICES ASSUME NetTypeOK, [NetNext]_rxVars PROVE NetTypeOK' OBVIOUS
  <2>1. CASE Session
    <3> USE DEF NetTypeOK, netVars, retryVars, stopVars
    <3>1. CASE Begin
      <4>1. Target \in Senders BY DEF Target
      <4> QED BY <3>1, <4>1 DEF NetPlaces, Begin
    <3>2. CASE Dial
      <4>1. at' = "audio" \/ at' = "tally" BY <3>2 DEF Dial
      <4>2. /\ video' = "open" /\ told' = FALSE
            /\ UNCHANGED <<to, audio, reading, failed, videoConn, redirect, backoff, slept,
                           sendTally, stop, hello, up, hungUp>>
        BY <3>2 DEF Dial
      <4>3. at' \in NetPlaces BY <4>1 DEF NetPlaces
      <4>4. video' \in Sockets BY <4>2 DEF Sockets
      <4> QED BY <4>2, <4>3, <4>4, ZenonT(60)
    <3>3. CASE DialFails BY <3>3 DEF NetPlaces, DialFails
    <3>4. CASE DialAudio BY <3>4 DEF NetPlaces, DialAudio, Sockets
    <3>5. CASE ReadTally BY <3>5 DEF NetPlaces, ReadTally
    <3>6. CASE Subscribe BY <3>6 DEF NetPlaces, Subscribe
    <3>7. CASE Register BY <3>7, ZenonT(60) DEF NetPlaces, Register
    <3>8. CASE ReaderFailed BY <3>8 DEF NetPlaces, ReaderFailed
    <3>9. CASE End BY <3>9, ZenonT(60) DEF NetPlaces, End, Sockets
    <3>10. ASSUME NEW lasted \in BOOLEAN, Wait(lasted) PROVE NetTypeOK'
      <4> DEFINE b == IF lasted THEN 1 ELSE backoff
      <4>1. b \in {1, 2, 4, 8} /\ (b < 5 => 2 * b \in {2, 4, 8}) OBVIOUS
      <4> HIDE DEF b
      <4>2. CASE Cancelled BY <3>10, <4>2 DEF NetPlaces, Wait
      <4>3. CASE ~Cancelled
        <5>1. slept' = b /\ backoff' = IF b < 5 THEN 2 * b ELSE b BY <3>10, <4>3 DEF Wait, b
        <5> QED BY <3>10, <4>1, <4>3, <5>1 DEF NetPlaces, Wait
      <4> QED BY <4>2, <4>3
    <3> QED BY <2>1, <3>1, <3>2, <3>3, <3>4, <3>5, <3>6, <3>7, <3>8, <3>9, <3>10 DEF Session
  <2>2. CASE SetTally \/ WriteTally \/ Cancel \/ Hangup
    <3> USE DEF NetTypeOK, netVars, retryVars, stopVars
    <3>1. CASE SetTally
      <4>1. stop' = "write" \/ stop' = "cancel" BY <3>1 DEF SetTally
      <4>2. /\ sendTally' = FALSE
            /\ UNCHANGED <<at, to, video, audio, reading, failed, told, videoConn, redirect,
                           backoff, slept, hello, up, hungUp>>
        BY <3>1 DEF SetTally
      <4>3. stop' \in {"write", "cancel", "none", "done"} BY <4>1
      <4> QED BY <4>2, <4>3, ZenonT(60)
    <3>2. CASE WriteTally
      <4>1. told' \in BOOLEAN BY <3>2 DEF WriteTally
      <4> QED BY <3>2, <4>1 DEF WriteTally
    <3>3. CASE Cancel BY <3>3 DEF Cancel
    <3>4. CASE Hangup
      <4>1. hungUp' \in BOOLEAN BY <3>4 DEF Hangup
      <4>2. video' \in Sockets /\ audio' \in Sockets BY <3>4 DEF Hangup, Sockets
      <4> QED BY <3>4, <4>1, <4>2 DEF Hangup
    <3> QED BY <2>2, <3>1, <3>2, <3>3, <3>4
  <2>3. ASSUME NEW r \in {"video", "audio"}, ReadFails(r) PROVE NetTypeOK'
    BY <2>3 DEF NetTypeOK, netVars, retryVars, stopVars, ReadFails
  <2>4. ASSUME NEW r \in {"video", "audio"}, NEW t \in Senders \cup {None}, handleMetadata(r, t)
        PROVE  NetTypeOK'
    <3>1. hungUp' \in BOOLEAN BY <2>4 DEF NetTypeOK, handleMetadata
    <3>2. video' \in Sockets BY <2>4 DEF NetTypeOK, Sockets, handleMetadata
    <3> QED BY <2>4, <3>1, <3>2 DEF NetTypeOK, retryVars, stopVars, handleMetadata
  <2>5. ASSUME NEW s \in Senders, Goes(s) \/ Comes(s) PROVE NetTypeOK'
    <3> USE DEF NetTypeOK, netVars, retryVars, stopVars
    <3>1. CASE Goes(s)
      <4>1. video' \in Sockets /\ audio' \in Sockets BY <3>1 DEF Goes, Sockets
      <4>2. told' \in BOOLEAN BY <3>1 DEF Goes
      <4> QED BY <3>1, <4>1, <4>2 DEF Goes
    <3>2. CASE Comes(s) BY <3>2 DEF Comes
    <3> QED BY <2>5, <3>1, <3>2
  <2>6. CASE UNCHANGED rxVars BY <2>6 DEF NetTypeOK, rxVars, netVars, retryVars, stopVars
  <2> QED BY <2>1, <2>2, <2>3, <2>4, <2>5, <2>6 DEF NetNext, Over
<1> QED BY <1>1, <1>2, PTL DEF NetSpec

(* A connection that is up is to whom the last redirect says: a redirect is *)
(* heard only while videoConn can be closed for it (omt/receiver.go:470-488)*)
THEOREM RedirectsAreFollowed == NetSpec => []FollowsRedirect
<1>1. NetInit => RedirectInv BY DEF NetInit, RedirectInv, FollowsRedirect
<1>2. RedirectInv /\ [NetNext]_rxVars => RedirectInv'
  <2> SUFFICES ASSUME RedirectInv, [NetNext]_rxVars PROVE RedirectInv' OBVIOUS
  <2> USE DEF RedirectInv, FollowsRedirect, Target, netVars, retryVars, stopVars
  <2>1. CASE Session
    BY <2>1 DEF Session, Begin, Dial, DialFails, DialAudio, ReadTally, Subscribe, Register,
       ReaderFailed, End, Wait
  <2>2. CASE SetTally \/ WriteTally \/ Cancel \/ Hangup
    BY <2>2 DEF SetTally, WriteTally, Cancel, Hangup
  <2>3. ASSUME NEW r \in {"video", "audio"}, ReadFails(r) PROVE RedirectInv'
    BY <2>3 DEF ReadFails
  <2>4. ASSUME NEW r \in {"video", "audio"}, NEW t \in Senders \cup {None}, handleMetadata(r, t)
        PROVE  RedirectInv'
    BY <2>4 DEF handleMetadata, Open
  <2>5. ASSUME NEW s \in Senders, Goes(s) \/ Comes(s) PROVE RedirectInv'
    BY <2>5 DEF Goes, Comes
  <2>6. CASE UNCHANGED rxVars BY <2>6 DEF rxVars
  <2> QED BY <2>1, <2>2, <2>3, <2>4, <2>5, <2>6 DEF NetNext, Over
<1>3. RedirectInv => FollowsRedirect BY DEF RedirectInv
<1> QED BY <1>1, <1>2, <1>3, PTL DEF NetSpec

-----------------------------------------------------------------------------
(* The API.                                                                 *)
USE ApiAssumption

(* The steps of a request before it gets to the session, and of the session.*)
Request(h) ==
    \/ \E s \in Sources : Show(h, s)
    \/ Stop(h)
    \/ \E set \in Settings, resume \in BOOLEAN : SaveSettings(h, set, resume)
    \/ Current(h)
SessionStep(a) == Lock(a) \/ Started(a) \/ NotStarted(a) \/ Undo(a) \/ Stopped(a)
RestStep == Fails \/ Reaped \/ Restart \/ Resume

(* The defaults are a config, and no session and no job have their types.   *)
LEMMA Defaults ==
    /\ DefaultConfig \in Config
    /\ Idle \in Job
    /\ NoSession \in [running : BOOLEAN, source : Sources \cup {NoSource}, set : Settings]
<1>1. (CHOOSE s \in Settings : TRUE) \in Settings OBVIOUS
<1> QED BY <1>1 DEF DefaultConfig, Idle, NoSession, Config, Job

(* A fresh install has the types and an empty record.                       *)
LEMMA InitRecord == ASSUME Init PROVE TypeOK /\ RecordInv
<1>1. TypeOK BY Defaults DEF Init, TypeOK, Places
<1>2. ~sess.running /\ ~config.onAir BY DEF Init, NoSession, DefaultConfig
<1>3. RecordInv BY <1>2 DEF Init, RecordInv, RecordIsTrue, Carries
<1> QED BY <1>1, <1>3

(* What a request saves and takes along has its type.                       *)
LEMMA RequestTypes ==
    ASSUME TypeOK, NEW h \in Handlers, Request(h) PROVE TypeOK'
<1> USE DEF TypeOK, GoTo, Actors
<1>1. ASSUME NEW s \in Sources, Show(h, s) PROVE TypeOK'
  <2>1. config' \in Config BY <1>1 DEF Show, Config
  <2>2. job' \in [Actors -> Job] BY <1>1 DEF Show, Job, Config
  <2> QED BY <1>1, <2>1, <2>2 DEF Show, Places
<1>2. CASE Stop(h)
  <2>1. config' \in Config BY <1>2 DEF Stop, NotSaved, Config
  <2>2. job' \in [Actors -> Job] BY <1>2 DEF Stop, Job
  <2> QED BY <1>2, <2>1, <2>2 DEF Stop, NotSaved, Places
<1>3. ASSUME NEW set \in Settings, NEW resume \in BOOLEAN, SaveSettings(h, set, resume)
      PROVE  TypeOK'
  <2>1. config' \in Config BY <1>3 DEF SaveSettings, Config
  <2>2. job' \in [Actors -> Job] BY <1>3, Defaults DEF SaveSettings, Job
  <2> QED BY <1>3, <2>1, <2>2 DEF SaveSettings, Places
<1>4. CASE Current(h)
  <2>1. job' \in [Actors -> Job] BY <1>4 DEF Current, Job
  <2> QED BY <1>4, <2>1 DEF Current, Places
<1> QED BY <1>1, <1>2, <1>3, <1>4 DEF Request

(* So has what the session, the boot and the rest of the box change.        *)
LEMMA SessionTypes ==
    ASSUME TypeOK, NEW a \in Actors, SessionStep(a) PROVE TypeOK'
<1> USE DEF TypeOK, GoTo
<1>1. CASE Lock(a) BY <1>1 DEF Lock, Places
<1>2. CASE Started(a)
  <2>1. sess' \in [running : BOOLEAN, source : Sources \cup {NoSource}, set : Settings]
    BY <1>2 DEF Started, Job
  <2> QED BY <1>2, <2>1 DEF Started, Places
<1>3. CASE NotStarted(a) BY <1>3 DEF NotStarted, Places
<1>4. CASE Undo(a)
  <2>1. config' \in Config BY <1>4 DEF Undo, NotSaved, Config
  <2> QED BY <1>4, <2>1 DEF Undo, Places
<1>5. CASE Stopped(a) BY <1>5 DEF Stopped, Places
<1> QED BY <1>1, <1>2, <1>3, <1>4, <1>5 DEF SessionStep

(* A restart loses everything but the record.                               *)
LEMMA RestTypes == ASSUME TypeOK, RestStep PROVE TypeOK'
<1> USE DEF TypeOK, GoTo, Actors
<1>1. CASE Fails BY <1>1 DEF Fails
<1>2. CASE Reaped BY <1>2 DEF Reaped
<1>3. CASE Restart
  <2>1. [kind |-> "resume", source |-> config.source, set |-> config.set] \in Job
    BY DEF Config, Job
  <2>2. job' \in [Actors -> Job] BY <1>3, <2>1, Defaults DEF Restart
  <2> QED BY <1>3, <2>2, Defaults DEF Restart, Places
<1>4. CASE Resume BY <1>4 DEF Resume, Places
<1> QED BY <1>1, <1>2, <1>3, <1>4 DEF RestStep

-----------------------------------------------------------------------------
(* What a request takes along is what it has just put on record.            *)
LEMMA RequestKeeps ==
    ASSUME OneByOne, TypeOK, RecordInv, NEW h \in Handlers, Request(h) PROVE RecordInv'
<1> USE DEF TypeOK, GoTo, Actors, RecordInv, RecordIsTrue, Carries, Quiet
<1>1. ASSUME NEW s \in Sources, Show(h, s) PROVE RecordInv'
  <2>1. config'.onAir /\ config'.source = s /\ config'.set = config.set
    BY <1>1 DEF Show, Config
  <2>2. /\ job'[h] = [kind |-> "show", source |-> s, set |-> config.set]
        /\ pc'[h] = "lock" /\ \A a \in Actors \ {h} : pc'[a] = "out"
    BY <1>1 DEF Show, Arrives
  <2> QED BY <1>1, <2>1, <2>2 DEF Show
<1>2. CASE Stop(h)
  <2>1. job'[h].kind = "stop" BY <1>2 DEF Stop, Job
  <2>2. pc'[h] = "lock" /\ \A a \in Actors \ {h} : pc'[a] = "out"
    BY <1>2 DEF Stop, Arrives
  <2>3. config'.onAir => asked' # NoSource BY <1>2 DEF Stop, NotSaved, Config
  <2> QED BY <1>2, <2>1, <2>2, <2>3 DEF Stop
<1>3. ASSUME NEW set \in Settings, NEW resume \in BOOLEAN, SaveSettings(h, set, resume)
      PROVE  RecordInv'
  <2>1. /\ config'.onAir = config.onAir /\ config'.source = config.source
        /\ config'.set = set
    BY <1>3 DEF SaveSettings, Config
  <2>2. job'[h].kind = "config" /\ job'[h].set = set
    BY <1>3, Defaults DEF SaveSettings, Job
  <2>3. pc'[h] = "current" /\ Quiet /\ \A a \in Actors \ {h} : pc'[a] = "out"
    BY <1>3 DEF SaveSettings, Arrives
  <2> QED BY <1>3, <2>1, <2>2, <2>3 DEF SaveSettings
<1>4. CASE Current(h)
  <2>1. /\ pc[h] = "current" /\ \A a \in Actors \ {h} : pc[a] = "out" /\ pc'[a] = "out"
        /\ pc'[h] = IF sess.running THEN "lock" ELSE "out"
    BY <1>4 DEF Current
  <2>2. job'[h].source = sess.source /\ job'[h].set = job[h].set
    BY <1>4 DEF Current, Job
  <2>3. sess.running => config.onAir /\ config.source = sess.source BY <2>1
  <2> QED BY <1>4, <2>1, <2>2, <2>3 DEF Current
<1> QED BY <1>1, <1>2, <1>3, <1>4 DEF Request

(* What the session shows is what its caller took along.                    *)
LEMMA SessionKeeps ==
    ASSUME OneByOne, TypeOK, RecordInv, NEW a \in Actors, SessionStep(a) PROVE RecordInv'
<1> USE DEF TypeOK, GoTo, RecordInv, RecordIsTrue, Carries, Quiet
<1>1. pc[a] # "out" /\ \A b \in Actors \ {a} : pc[b] = "out"
  BY DEF SessionStep, Lock, Started, NotStarted, Undo, Stopped
<1>2. CASE Lock(a)
  <2>1. ~sess'.running BY <1>2 DEF Lock
  <2> QED BY <1>1, <1>2, <2>1 DEF Lock
<1>3. CASE Started(a)
  <2>1. sess'.source = job[a].source /\ sess'.set = job[a].set BY <1>3 DEF Started
  <2>2. config.onAir /\ config.source = job[a].source /\ config.set = job[a].set
    BY <1>3 DEF Started
  <2> QED BY <1>1, <1>3, <2>1, <2>2 DEF Started
<1>4. CASE NotStarted(a) BY <1>1, <1>4 DEF NotStarted
<1>5. CASE Undo(a)
  <2>1. config'.onAir => config.onAir BY <1>5 DEF Undo, NotSaved, Config
  <2> QED BY <1>1, <1>5, <2>1 DEF Undo
<1>6. CASE Stopped(a) BY <1>1, <1>6 DEF Stopped
<1> QED BY <1>2, <1>3, <1>4, <1>5, <1>6 DEF SessionStep

(* A restart takes along what is on record, and nothing runs until then.    *)
LEMMA RestKeeps == ASSUME OneByOne, TypeOK, RecordInv, RestStep PROVE RecordInv'
<1> USE DEF TypeOK, GoTo, Actors, RecordInv, RecordIsTrue, Carries, Quiet
<1>1. CASE Fails BY <1>1 DEF Fails
<1>2. CASE Reaped
  <2>1. ~sess'.running BY <1>2 DEF Reaped
  <2> QED BY <1>2, <2>1 DEF Reaped
<1>3. CASE Restart
  <2>1. ~sess'.running /\ config' = config /\ asked' = asked BY <1>3 DEF Restart, NoSession
  <2>2. \A a \in Actors \ {Boot} : pc'[a] = "out" BY <1>3 DEF Restart
  <2>3. \/ pc'[Boot] = "out"
        \/ /\ pc'[Boot] = "wait" /\ config.onAir
           /\ job'[Boot] = [kind |-> "resume", source |-> config.source, set |-> config.set]
    BY <1>3 DEF Restart, Resumes
  <2> QED BY <2>1, <2>2, <2>3
<1>4. CASE Resume
  <2>1. /\ pc[Boot] = "wait" /\ pc'[Boot] \in {"lock", "out"}
        /\ \A a \in Actors \ {Boot} : pc[a] = "out" /\ pc'[a] = "out"
    BY <1>4 DEF Resume
  <2> QED BY <1>4, <2>1 DEF Resume
<1> QED BY <1>1, <1>2, <1>3, <1>4 DEF RestStep

(* Side by side or not, the variables keep their types.                     *)
THEOREM ApiTypesHold == Spec => []TypeOK
<1>1. Init => TypeOK BY InitRecord
<1>2. TypeOK /\ [Next]_vars => TypeOK'
  <2> SUFFICES ASSUME TypeOK, [Next]_vars PROVE TypeOK' OBVIOUS
  <2>1. CASE Next
    BY <2>1, RequestTypes, SessionTypes, RestTypes DEF Next, Request, SessionStep, RestStep
  <2>2. CASE UNCHANGED vars BY <2>2 DEF vars, TypeOK
  <2> QED BY <2>1, <2>2
<1> QED BY <1>1, <1>2, PTL DEF Spec

(* A request at a time, what is on its way to the session is what the       *)
(* record says (omt/serve.go:184-208, 248-263, omt/main.go:196-244).        *)
THEOREM ApiInvariance == Spec => []RecordInv
<1>1. Init => RecordInv BY InitRecord
<1>2. TypeOK /\ RecordInv /\ [Next]_vars => RecordInv'
  <2> SUFFICES ASSUME TypeOK, RecordInv, [Next]_vars PROVE RecordInv' OBVIOUS
  <2>0. CASE ~OneByOne BY <2>0 DEF RecordInv
  <2>1. CASE OneByOne /\ Next
    BY <2>1, RequestKeeps, SessionKeeps, RestKeeps DEF Next, Request, SessionStep, RestStep
  <2>2. CASE UNCHANGED vars
    BY <2>2 DEF vars, RecordInv, RecordIsTrue, Carries, Quiet
  <2> QED BY <2>0, <2>1, <2>2
<1> QED BY <1>1, <1>2, ApiTypesHold, PTL DEF Spec

(* A request at a time: whatever fails and whenever bdomt is killed, what   *)
(* is on HDMI is on record (omt/config.go:22-24).                           *)
THEOREM RecordHolds == OneByOne => (Spec => []RecordIsTrue)
<1> SUFFICES ASSUME OneByOne PROVE Spec => []RecordIsTrue OBVIOUS
<1>1. RecordInv => RecordIsTrue BY DEF RecordInv
<1> QED BY <1>1, ApiInvariance, PTL

(* A request at a time: once a Stop is on record nothing is shown until the *)
(* next Show, whatever is saved, restarted or resumed (omt/serve.go:205).   *)
THEOREM StopHolds == OneByOne => (Spec => []StopSticks)
<1> SUFFICES ASSUME OneByOne PROVE Spec => []StopSticks OBVIOUS
<1>1. RecordInv => StopSticks BY DEF RecordInv, RecordIsTrue, StopSticks
<1> QED BY <1>1, ApiInvariance, PTL

-----------------------------------------------------------------------------
(* The guard against a crash loop.                                          *)

(* The times are in order and none is to come.                              *)
InOrder == \A i, j \in 1..Len(resumed) : i <= j => resumed[i] <= resumed[j]
NoneToCome == \A i \in 1..Len(resumed) : resumed[i] <= now

(* What the file counts are the last resumes, and its time is the first of
   them; the run before, of at most Limit, began a window earlier.          *)
FileCounts ==
  \/ count = 0 /\ Len(resumed) = 0
  \/ count \in 1..Len(resumed) /\ first = resumed[Len(resumed) - count + 1]
RunBefore ==
  count > 0 => \A m \in 1..Len(resumed) :
                 m <= Len(resumed) - count - Limit + 1 => resumed[m] + Window <= first

(* So 2 * Limit resumes, one after another, do not fit into a window.       *)
SpreadOut ==
  \A i \in 1..Len(resumed) :
     i + 2 * Limit - 1 <= Len(resumed) => resumed[i] + Window <= resumed[i + 2 * Limit - 1]

GuardInv == GuardTypeOK /\ InOrder /\ NoneToCome /\ FileCounts /\ RunBefore /\ SpreadOut

LEMMA TimesAreNumbers ==
  ASSUME GuardInv PROVE Len(resumed) \in Nat /\ \A i \in 1..Len(resumed) : resumed[i] \in Nat
  <1>1. resumed \in Seq(Ticks)
    BY DEF GuardInv, GuardTypeOK
  <1>2. Ticks \subseteq Nat
    BY GuardAssumption DEF Ticks
  <1>3. Len(resumed) \in Nat /\ \A i \in 1..Len(resumed) : resumed[i] \in Ticks
    BY <1>1
  <1> QED BY <1>2, <1>3

LEMMA GuardStarts == GuardInit => GuardInv
  <1> SUFFICES ASSUME GuardInit PROVE GuardInv
    OBVIOUS
  <1>1. resumed = <<>> /\ Len(resumed) = 0 /\ count = 0 /\ now = 0 /\ first = 0
    BY DEF GuardInit
  <1>2. GuardTypeOK
    BY <1>1, GuardAssumption DEF GuardTypeOK, Ticks
  <1>3. InOrder /\ NoneToCome /\ FileCounts /\ RunBefore /\ SpreadOut
    BY <1>1 DEF InOrder, NoneToCome, FileCounts, RunBefore, SpreadOut
  <1> QED BY <1>2, <1>3 DEF GuardInv

(* One more resume, of the run the file counts or the first of a new one.   *)
LEMMA ResumeKeeps == ASSUME GuardInv, ResumeOnce PROVE GuardInv'
  <1> DEFINE n == Len(resumed)
             c == IF Fresh THEN count ELSE 0
  <1>1. /\ Limit \in Nat \ {0} /\ Window \in Nat \ {0} /\ Horizon \in Nat
        /\ now \in Nat /\ first \in Nat /\ count \in Nat /\ count <= Limit /\ n \in Nat
        /\ now \in Ticks /\ first \in Ticks /\ resumed \in Seq(Ticks)
    BY GuardAssumption DEF GuardInv, GuardTypeOK, Ticks
  <1>2. \A i \in 1..n : resumed[i] \in Nat
    BY <1>1 DEF Ticks
  <1>3. /\ c < Limit /\ count' = c + 1 /\ first' = (IF Fresh THEN first ELSE now) /\ now' = now
        /\ resumed' = Append(resumed, now)
    BY DEF ResumeOnce
  <1>4. /\ Len(resumed') = n + 1 /\ resumed'[n + 1] = now
        /\ \A i \in 1..n : resumed'[i] = resumed[i]
        /\ resumed' \in Seq(Ticks)
    BY <1>1, <1>3
  <1>5. GuardTypeOK'
    BY <1>1, <1>3, <1>4 DEF GuardTypeOK
  <1>6. /\ \A i, j \in 1..n : i <= j => resumed[i] <= resumed[j]
        /\ \A i \in 1..n : resumed[i] <= now
    BY DEF GuardInv, InOrder, NoneToCome
  <1>7. \/ count = 0 /\ n = 0
        \/ count \in 1..n /\ first = resumed[n - count + 1]
    BY DEF GuardInv, FileCounts
  <1>8. count > 0 => \A m \in 1..n : m <= n - count - Limit + 1 => resumed[m] + Window <= first
    BY DEF GuardInv, RunBefore
  <1>9. \A i \in 1..n : i + 2 * Limit - 1 <= n => resumed[i] + Window <= resumed[i + 2 * Limit - 1]
    BY DEF GuardInv, SpreadOut
  <1>c. \/ Fresh /\ count > 0 /\ c = count /\ first' = first
        \/ ~Fresh /\ c = 0 /\ first' = now /\ (count = 0 \/ first + Window <= now)
    BY <1>1, <1>3 DEF Fresh
  <1> HIDE DEF n, c
  <1>10. InOrder' /\ NoneToCome'
    <2>1. \A i \in 1..(n + 1) : resumed'[i] <= now /\ (i = n + 1 \/ i \in 1..n)
      BY <1>1, <1>4, <1>6
    <2> QED BY <1>1, <1>2, <1>3, <1>4, <1>6, <2>1 DEF InOrder, NoneToCome
  <1>11. FileCounts'
    <2>1. c + 1 \in 1..(n + 1)
      BY <1>1, <1>7, <1>c
    <2>2. CASE c = 0 /\ first' = now
      BY <1>1, <1>3, <1>4, <2>1, <2>2 DEF FileCounts
    <2>3. CASE c = count /\ count > 0 /\ first' = first
      <3>1. n + 1 - (c + 1) + 1 = n - count + 1 /\ n - count + 1 \in 1..n
        BY <1>1, <1>7, <2>3
      <3> QED BY <1>1, <1>3, <1>4, <1>7, <2>1, <2>3, <3>1 DEF FileCounts
    <2> QED BY <2>2, <2>3, <1>c
  <1>12. \A m \in 1..n : m <= n - c - Limit + 1 => resumed[m] + Window <= first' /\ first' <= now
    <2> SUFFICES ASSUME NEW m \in 1..n, m <= n - c - Limit + 1
                 PROVE  resumed[m] + Window <= first' /\ first' <= now
      OBVIOUS
    <2>1. count > 0 /\ n - count + 1 \in 1..n /\ first = resumed[n - count + 1]
      BY <1>1, <1>7
    <2>2. CASE c = count /\ first' = first
      BY <1>1, <1>6, <1>8, <2>1, <2>2
    <2>3. CASE c = 0 /\ first' = now /\ first + Window <= now
      <3>1. m <= n - count + 1
        BY <1>1, <2>3
      <3>2. resumed[m] <= first
        BY <1>6, <2>1, <3>1
      <3> QED BY <1>1, <1>2, <2>3, <3>2
    <2> QED BY <1>c, <2>1, <2>2, <2>3
  <1>13. RunBefore'
    <2>1. Len(resumed') = n + 1 /\ count' = c + 1 /\ c \in Nat
      BY <1>1, <1>3, <1>4, <1>c
    <2>2. ASSUME NEW m \in 1..Len(resumed'), m <= Len(resumed') - count' - Limit + 1
          PROVE  resumed'[m] + Window <= first'
      <3>1. m \in 1..n /\ m <= n - c - Limit + 1
        BY <1>1, <2>1, <2>2
      <3> QED BY <1>4, <1>12, <3>1
    <2> QED BY <2>2 DEF RunBefore
  <1>14. SpreadOut'
    <2> SUFFICES ASSUME NEW i \in 1..(n + 1), i + 2 * Limit - 1 <= n + 1
                 PROVE  resumed'[i] + Window <= resumed'[i + 2 * Limit - 1]
      BY <1>4 DEF SpreadOut
    <2>0. i \in 1..n /\ i + 2 * Limit - 1 \in 1..(n + 1)
      BY <1>1
    <2>1. CASE i + 2 * Limit - 1 <= n
      BY <1>1, <1>4, <1>9, <2>0, <2>1
    <2>2. CASE i + 2 * Limit - 1 = n + 1
      <3>1. c \in Nat /\ c + 1 <= Limit
        BY <1>1, <1>3, <1>c
      <3>2. i <= n - c - Limit + 1
        BY <1>1, <2>2, <3>1
      <3>3. resumed[i] + Window <= now
        BY <1>1, <1>2, <1>12, <2>0, <3>2, <1>5 DEF GuardTypeOK, Ticks
      <3> QED BY <1>4, <2>0, <2>2, <3>3
    <2> QED BY <1>1, <2>0, <2>1, <2>2
  <1> QED BY <1>5, <1>10, <1>11, <1>13, <1>14 DEF GuardInv

LEMMA GuardKeeps == GuardInv /\ [GuardNext]_guardVars => GuardInv'
  <1> SUFFICES ASSUME GuardInv, [GuardNext]_guardVars PROVE GuardInv'
    OBVIOUS
  <1>1. CASE Tick
    <2>1. now' = now + 1 /\ now' \in Ticks /\ now \in Nat /\ UNCHANGED <<count, first, resumed>>
      BY <1>1, GuardAssumption DEF Tick, GuardInv, GuardTypeOK, Ticks
    <2>2. NoneToCome'
      <3>1. \A i \in 1..Len(resumed) : resumed[i] \in Nat /\ resumed[i] <= now
        BY TimesAreNumbers DEF GuardInv, NoneToCome
      <3> QED BY <2>1, <3>1 DEF NoneToCome
    <2> QED BY <2>1, <2>2 DEF GuardInv, GuardTypeOK, InOrder, FileCounts, RunBefore, SpreadOut
  <1>2. CASE Refuse \/ UNCHANGED guardVars
    BY <1>2 DEF Refuse, guardVars, GuardInv, GuardTypeOK, InOrder, NoneToCome, FileCounts,
                RunBefore, SpreadOut
  <1> QED BY <1>1, <1>2, ResumeKeeps DEF GuardNext

LEMMA LoopIsCutAlways == GuardInv => LoopIsCut
  <1> SUFFICES ASSUME GuardInv, NEW t \in Ticks PROVE Cardinality(From(t)) <= 2 * Limit - 1
    BY DEF LoopIsCut
  <1> DEFINE n == Len(resumed)
             k == 2 * Limit - 1
  <1>1. Limit \in Nat \ {0} /\ Window \in Nat \ {0} /\ n \in Nat /\ t \in Nat /\ k \in Nat /\ k > 0
    BY GuardAssumption DEF GuardInv, GuardTypeOK, Ticks
  <1>2. \A i \in 1..n : resumed[i] \in Nat
    BY TimesAreNumbers
  <1>3. From(t) = {i \in 1..n : t <= resumed[i] /\ resumed[i] < t + Window}
    BY DEF From, GuardInv, GuardTypeOK
  <1>4. CASE From(t) = {}
    BY <1>1, <1>4, FS_EmptySet
  <1>5. CASE From(t) # {}
    <2>1. PICK d \in From(t) : \A e \in From(t) : d <= e
      BY <1>1, <1>3, <1>5, HasALeast
    <2>2. From(t) \subseteq d..(d + k - 1)
      <3> SUFFICES ASSUME NEW e \in From(t), e > d + k - 1 PROVE FALSE
        BY <1>1, <1>3, <2>1
      <3>1. /\ d \in 1..n /\ e \in 1..n /\ d + k \in 1..n /\ d + k <= e
            /\ t <= resumed[d] /\ resumed[e] < t + Window
        BY <1>1, <1>3, <2>1
      <3>2. resumed[d] + Window <= resumed[d + k]
        <4>1. \A i \in 1..n : i + 2 * Limit - 1 <= n
                 => resumed[i] + Window <= resumed[i + 2 * Limit - 1]
          BY DEF GuardInv, SpreadOut
        <4>2. d + k = d + 2 * Limit - 1 /\ d + k <= n
          BY <1>1, <3>1
        <4> QED BY <3>1, <4>1, <4>2
      <3>3. resumed[d + k] <= resumed[e]
        BY <3>1 DEF GuardInv, InOrder
      <3> QED BY <1>1, <1>2, <3>1, <3>2, <3>3, SMTT(30)
    <2>3. d \in Nat
      BY <1>3
    <2>4. IsFiniteSet(d..(d + k - 1)) /\ Cardinality(d..(d + k - 1)) = k
      <3>1. d \in Int /\ d + k - 1 \in Int /\ ~(d > d + k - 1) /\ (d + k - 1) - d + 1 = k
        BY <1>1, <2>3
      <3> HIDE DEF k
      <3> QED BY <3>1, FS_Interval
    <2>5. Cardinality(From(t)) <= Cardinality(d..(d + k - 1))
      BY <2>2, <2>4, FS_Subset
    <2> QED BY <2>4, <2>5
  <1> QED BY <1>4, <1>5

(* No ten minutes see more than twice the limit less one of resumes, for
   every limit, every window and however often bdomt crashes and when
   (resumeAllowed in omt/main.go).                                          *)
THEOREM GuardHolds == PartsSpec => []LoopIsCut
  <1>1. PartsInit => GuardInv
    BY GuardStarts DEF PartsInit
  <1>2. GuardInv /\ [PartsNext]_partsVars => GuardInv'
    <2>1. [PartsNext]_partsVars => [GuardNext]_guardVars
      BY DEF PartsNext, Keeps, partsVars
    <2> QED BY <2>1, GuardKeeps
  <1> QED BY <1>1, <1>2, LoopIsCutAlways, PTL DEF PartsSpec

=============================================================================
