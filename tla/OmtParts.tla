------------------------------- MODULE OmtParts ------------------------------
(***************************************************************************)
(* The parts of bdomt beside the session: its API with what it keeps, the  *)
(* guard against a crash loop, the receiver, the mailbox, the two sinks    *)
(* and the discovery.  They share no state (OmtSession has the calls that  *)
(* join them), and a behaviour is one of a single part: the others stay as *)
(* they begin.                                                             *)
(***************************************************************************)
EXTENDS OmtApi, ResumeGuard, Receiver, Mailbox, VideoSink, AudioSink, Discovery

VARIABLE part

MExtras == {{"srv"}, {"srv", "addr"}}

Parts == {"api", "guard", "receiver", "mailbox", "video", "audio", "discovery"}

PartsInit ==
    /\ Init /\ GuardInit /\ NetInit /\ BoxInit /\ SinkInit /\ AudioInit /\ DiscoveryInit
    /\ part \in Parts /\ (part = "discovery" \/ there)

Keeps(p) ==
    /\ part = p /\ UNCHANGED part
    /\ p # "api" => UNCHANGED vars
    /\ p # "guard" => UNCHANGED guardVars
    /\ p # "receiver" => UNCHANGED rxVars
    /\ p # "mailbox" => UNCHANGED boxVars
    /\ p # "video" => UNCHANGED sinkVars
    /\ p # "audio" => UNCHANGED audioVars
    /\ p # "discovery" => UNCHANGED discoveryVars

PartsNext ==
    \/ Keeps("api") /\ Next
    \/ Keeps("guard") /\ GuardNext
    \/ Keeps("receiver") /\ NetNext
    \/ Keeps("mailbox") /\ BoxNext
    \/ Keeps("video") /\ SinkNext
    \/ Keeps("audio") /\ AudioNext
    \/ Keeps("discovery") /\ DiscoveryNext

partsVars == <<part, vars, guardVars, rxVars, boxVars, sinkVars, audioVars, discoveryVars>>

(* What each part's own module calls fair, while it is that part's turn.    *)
PartsFair ==
    /\ WF_partsVars(Keeps("receiver") /\ Session)
    /\ WF_partsVars(Keeps("receiver") /\ (Cancel \/ WriteTally))
    /\ WF_partsVars(Keeps("receiver") /\ Hangup)
    /\ \A r \in {"video", "audio"} : WF_partsVars(Keeps("receiver") /\ ReadFails(r))
    /\ \A r \in Readers : WF_partsVars(Keeps("mailbox") /\ Notify(r))
    /\ WF_partsVars(Keeps("mailbox") /\ Notified)
    /\ WF_partsVars(Keeps("mailbox") /\ Take)
    /\ WF_partsVars(Keeps("mailbox") /\ DecoderReleases)
    /\ WF_partsVars(Keeps("video") /\ Writer)
    /\ WF_partsVars(Keeps("video") /\ Send)
    /\ WF_partsVars(Keeps("video") /\ Kill)
    /\ WF_partsVars(Keeps("video") /\ Joined)
    /\ WF_partsVars(Keeps("audio") /\ KillSound)
    /\ WF_partsVars(Keeps("audio") /\ JoinSound)
    /\ WF_partsVars(Keeps("audio") /\ Look)
    /\ WF_partsVars(Keeps("audio") /\ WriterWrote)
    /\ WF_partsVars(Keeps("discovery") /\ Browsing)
    /\ \A c \in Lookers :
         WF_partsVars(Keeps("discovery") /\ (FromList(c) \/ Join(c) \/ Lead(c) \/ Woken(c)))

PartsSpec == PartsInit /\ [][PartsNext]_partsVars /\ PartsFair

(* While its sender answers, and nobody stops it, the receiver is connected
   again and again, whatever went before.                                   *)
StaysConnected == part = "receiver" => Reconnects

(* A frame and a buffer are in one place, the pools neither leak nor run
   dry, and the audio sink keeps the newest sound within its budget.        *)
PoolsAreSound ==
    FrameInOnePlace /\ PoolBounded /\ BufferInOnePlace /\ BufferAlwaysThere /\ SoundIsCurrent

(* Whoever asks for the list of senders gets one that was looked up as late
   as they asked for, with every sender that answered in full.              *)
ListIsCurrent == LooksAgain /\ AskedIsListed

(* Nothing waits for good: a frame that is put is taken, no Submit hangs on
   a dead gst-launch, both sinks' Stops return, and who shares a browse gets
   its list.                                                                *)
NothingHangs ==
    PendingIsTaken /\ DeadPipeNeverBlocks /\ StopReturns /\ SoundStops /\ WaitersReturn
=============================================================================
