------------------------------ MODULE VideoSink ------------------------------
(***************************************************************************)
(* bdomt's video sink (omt/sink.go, gstVideo): NV12 frames down a pipe into *)
(* a gst-launch that scans them out.                                       *)
(*                                                                         *)
(* Three actors: the decode loop, which alone calls Start, Buffer, Submit, *)
(* Recycle and Stop; the writer goroutine of the running pipeline; and the *)
(* gst-launch process, which may stop reading its stdin for a while and    *)
(* may die.  Stop joins the writer before it returns, so one pipeline      *)
(* exists at a time and needs no incarnation.                              *)
(***************************************************************************)
EXTENDS FiniteSets, Naturals

CONSTANTS Buffers,      (* the pool of one pipeline, 3 in the code          *)
          QueueCap,     (* capacity of the queue channel, 1 in the code     *)
          NoBuffer

ASSUME SinkAssumption ==
    /\ IsFiniteSet(Buffers)
    /\ NoBuffer \notin Buffers
    /\ QueueCap \in Nat \ {0}

VARIABLES
    call,       (* where the decode loop is                                 *)
    mine,       (* the buffer it holds                                      *)
    open,       (* g.p, g.queue and g.free are set                          *)
    err,        (* g.err is set                                             *)
    free,       (* the buffers in the free channel                          *)
    queue,      (* the buffers in the queue channel                         *)
    lost,       (* buffers dropped by a Submit that returned an error       *)
    writer,     (* where the writer goroutine is                            *)
    writing,    (* the buffer it is writing                                 *)
    gst         (* the gst-launch process                                   *)

sinkVars == <<call, mine, open, err, free, queue, lost, writer, writing, gst>>

SinkTypeOK ==
    /\ call \in {"idle", "filling", "send", "join", "closed"}
    /\ mine \in Buffers \cup {NoBuffer}
    /\ open \in BOOLEAN /\ err \in BOOLEAN
    /\ free \subseteq Buffers /\ queue \subseteq Buffers /\ lost \subseteq Buffers
    /\ Cardinality(queue) <= QueueCap
    /\ writer \in {"none", "wait", "write", "broken", "drain"}
    /\ writing \in Buffers \cup {NoBuffer}
    /\ gst \in {"none", "reads", "hangs", "dead"}

SinkInit ==
    /\ call = "closed" /\ mine = NoBuffer /\ open = FALSE /\ err = FALSE
    /\ free = {} /\ queue = {} /\ lost = {}
    /\ writer = "none" /\ writing = NoBuffer /\ gst = "none"

Exited == gst = "dead"

-----------------------------------------------------------------------------
(* The decode loop.                                                         *)

(* The second half of Start, after its Stop: a new process, a new pool and  *)
(* a new writer.                                                            *)
Launch ==
    /\ call = "closed"
    /\ open' = TRUE /\ err' = FALSE
    /\ free' = Buffers /\ queue' = {} /\ lost' = {}
    /\ writer' = "wait" /\ gst' = "reads" /\ call' = "idle"
    /\ UNCHANGED <<mine, writing>>

Buffer(b) ==
    /\ call = "idle" /\ b \in free
    /\ free' = free \ {b} /\ mine' = b /\ call' = "filling"
    /\ UNCHANGED <<open, err, queue, lost, writer, writing, gst>>

(* The frame did not decode.                                                *)
Recycle ==
    /\ call = "filling"
    /\ free' = free \cup {mine} /\ mine' = NoBuffer /\ call' = "idle"
    /\ UNCHANGED <<open, err, queue, lost, writer, writing, gst>>

(* Submit looks at err and the process, then sends on the queue; the buffer *)
(* of a Submit that fails goes nowhere.                                     *)
SubmitRefused ==
    /\ call = "filling" /\ (err \/ Exited)
    /\ lost' = lost \cup {mine} /\ mine' = NoBuffer /\ call' = "idle"
    /\ UNCHANGED <<open, err, free, queue, writer, writing, gst>>

SubmitStarts ==
    /\ call = "filling" /\ ~err /\ ~Exited
    /\ call' = "send"
    /\ UNCHANGED <<mine, open, err, free, queue, lost, writer, writing, gst>>

(* Mutant of Room: a queue of one more.                                     *)
MoreRoom == Cardinality(queue) <= QueueCap

Room == Cardinality(queue) < QueueCap

Send ==
    /\ call = "send" /\ Room
    /\ queue' = queue \cup {mine} /\ mine' = NoBuffer /\ call' = "idle"
    /\ UNCHANGED <<open, err, free, lost, writer, writing, gst>>

(* Stop clears the fields and closes the queue; then it closes stdin, which *)
(* fails a blocked write, ends the process, by force if need be, and joins  *)
(* the writer.                                                              *)
CloseSink ==
    /\ call = "idle"
    /\ open' = FALSE /\ call' = "join"
    /\ UNCHANGED <<mine, err, free, queue, lost, writer, writing, gst>>

(* Mutant of Kill: a process that does not read its stdin is not killed.    *)
KillReading ==
    /\ call = "join" /\ gst = "reads"
    /\ gst' = "dead"
    /\ UNCHANGED <<call, mine, open, err, free, queue, lost, writer, writing>>

Kill ==
    /\ call = "join" /\ gst \in {"reads", "hangs"}
    /\ gst' = "dead"
    /\ UNCHANGED <<call, mine, open, err, free, queue, lost, writer, writing>>

Joined ==
    /\ call = "join" /\ Exited /\ writer = "none"
    /\ call' = "closed" /\ gst' = "none" /\ free' = {} /\ lost' = {}
    /\ UNCHANGED <<mine, open, err, queue, writer, writing>>

-----------------------------------------------------------------------------
(* The writer.                                                              *)

(* Mutant of WriterTakes: the buffer is free before it is written.          *)
WriterFreesFirst(b) ==
    /\ writer = "wait" /\ b \in queue
    /\ queue' = queue \ {b} /\ writing' = b /\ writer' = "write"
    /\ free' = free \cup {b}
    /\ UNCHANGED <<call, mine, open, err, lost, gst>>

WriterTakes(b) ==
    /\ writer = "wait" /\ b \in queue
    /\ queue' = queue \ {b} /\ writing' = b /\ writer' = "write"
    /\ UNCHANGED <<call, mine, open, err, free, lost, gst>>

Written ==
    /\ writer = "write" /\ gst = "reads"
    /\ free' = free \cup {writing} /\ writing' = NoBuffer /\ writer' = "wait"
    /\ UNCHANGED <<call, mine, open, err, queue, lost, gst>>

WriteFails ==
    /\ writer = "write" /\ (Exited \/ ~open)
    /\ free' = free \cup {writing} /\ writing' = NoBuffer /\ writer' = "broken"
    /\ UNCHANGED <<call, mine, open, err, queue, lost, gst>>

(* The error is recorded under mu, then the queue is drained.               *)
SetErr ==
    /\ writer = "broken"
    /\ err' = TRUE /\ writer' = "drain"
    /\ UNCHANGED <<call, mine, open, free, queue, lost, writing, gst>>

(* Mutant of Drain: only once the queue is closed.                          *)
DrainClosed(b) ==
    /\ writer = "drain" /\ ~open /\ b \in queue
    /\ queue' = queue \ {b} /\ free' = free \cup {b}
    /\ UNCHANGED <<call, mine, open, err, lost, writer, writing, gst>>

Drain(b) ==
    /\ writer = "drain" /\ b \in queue
    /\ queue' = queue \ {b} /\ free' = free \cup {b}
    /\ UNCHANGED <<call, mine, open, err, lost, writer, writing, gst>>

WriterReturns ==
    /\ writer \in {"wait", "drain"} /\ ~open /\ queue = {}
    /\ writer' = "none"
    /\ UNCHANGED <<call, mine, open, err, free, queue, lost, writing, gst>>

-----------------------------------------------------------------------------
(* gst-launch: kmssink may stall, and the process may die.                  *)

Hang ==
    /\ gst = "reads" /\ gst' = "hangs"
    /\ UNCHANGED <<call, mine, open, err, free, queue, lost, writer, writing>>

ReadsAgain ==
    /\ gst = "hangs" /\ gst' = "reads"
    /\ UNCHANGED <<call, mine, open, err, free, queue, lost, writer, writing>>

Die ==
    /\ gst \in {"reads", "hangs"} /\ gst' = "dead"
    /\ UNCHANGED <<call, mine, open, err, free, queue, lost, writer, writing>>

-----------------------------------------------------------------------------
Decoder ==
    \/ Launch \/ (\E b \in Buffers : Buffer(b)) \/ Recycle
    \/ SubmitRefused \/ SubmitStarts \/ Send \/ CloseSink \/ Kill \/ Joined

Writer ==
    \/ (\E b \in Buffers : WriterTakes(b) \/ Drain(b))
    \/ Written \/ WriteFails \/ SetErr \/ WriterReturns

SinkNext == Decoder \/ Writer \/ Hang \/ ReadsAgain \/ Die

(* The writer runs when it can; a decode loop in the middle of a call goes  *)
(* on with it.  Nothing makes gst-launch read again but being killed.       *)
SinkSpec ==
    /\ SinkInit /\ [][SinkNext]_sinkVars
    /\ WF_sinkVars(Writer) /\ WF_sinkVars(Send) /\ WF_sinkVars(Kill) /\ WF_sinkVars(Joined)

-----------------------------------------------------------------------------
(* Properties.                                                              *)

Held(place) == IF place = NoBuffer THEN {} ELSE {place}

(* No frame is torn: a buffer the decode loop fills is not at the same time *)
(* queued, being written or free, and no buffer is in two places.           *)
BufferInOnePlace ==
    LET places == <<free, queue, lost, Held(mine), Held(writing)>>
    IN  \A i, j \in 1..5 : i # j => places[i] \cap places[j] = {}

(* sink.go 49-50 foresees that "every buffer is still queued".  With one more *)
(* buffer than the queue and the writer can hold this never happens: as     *)
(* long as no Submit has failed, Buffer always has one to give.             *)
BufferAlwaysThere == call = "idle" /\ lost = {} => free # {}

(* "Drain so Submit never blocks on a dead pipe" (sink.go 247).             *)
DeadPipeNeverBlocks == call = "send" /\ Exited ~> call # "send"

(* Stop returns, whatever state gst-launch is in: the queue is closed, the  *)
(* process killed and the writer joined.                                    *)
StopReturns == call = "join" ~> call = "closed"

(* "a slow pipe costs a dropped frame rather than a stalled decoder"        *)
(* (sink.go 22-23): the decode loop does not wait in Submit for a process   *)
(* that is not reading.                                                     *)
SlowPipeNeverStalls ==
    ~ /\ call = "send" /\ Cardinality(queue) = QueueCap
      /\ writer = "write" /\ gst = "hangs"
=============================================================================
