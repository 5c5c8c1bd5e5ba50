-------------------------- MODULE OmtSession_proofs --------------------------
(***************************************************************************)
(* Proofs about OmtSession, for any set of callers, any number of runs and *)
(* any restart budget.                                                     *)
(***************************************************************************)
EXTENDS OmtSession, TLAPS

USE SessionAssumption DEF Mine, Waited, CallPlaces, Locked, RunPlaces, Decoding, ReaperPlaces

(* The variables have their types, and the session starts settled.          *)
LEMMA InitInd == ASSUME Init PROVE IndInv
<1> USE DEF Init
<1>1. TypeOK
  <2>1. SessionType BY DEF SessionType
  <2>2. CallType BY DEF CallType
  <2>3. RunType BY DEF RunType
  <2>4. SinkType BY DEF SinkType
  <2> QED BY <2>1, <2>2, <2>3, <2>4 DEF TypeOK
<1>2. MutexInv BY DEF MutexInv
<1>3. DetachInv BY DEF DetachInv
<1>4. BusyInv BY DEF BusyInv, Busy
<1>5. HeldInv BY DEF HeldInv
<1>6. StateInv BY DEF StateInv
<1> QED BY <1>1, <1>2, <1>3, <1>4, <1>5, <1>6 DEF IndInv

-----------------------------------------------------------------------------
(* A step of Start, of Stop or of the reaper of a failed run keeps the      *)
(* types (session.go:159-218).                                              *)
LEMMA CallTypes ==
    ASSUME TypeOK, NEW c \in Callers,
           StartStop(c) \/ \E what \in {"start", "stop"} : Call(c, what)
    PROVE  TypeOK'
<1> USE DEF TypeOK, GoTo
<1>1. SessionType' /\ CallType'
  <2>1. ASSUME Lock(c) \/ Detach(c) \/ Cancel(c) \/ Join(c)
        PROVE SessionType' /\ CallType'
    BY <2>1 DEF SessionType, CallType, Lock, Detach, Cancel, Join
  <2>2. ASSUME Acquire(c) \/ AcquireFails(c) \/ (\E r \in Runs : Publish(c, r))
        PROVE SessionType' /\ CallType'
    BY <2>2 DEF SessionType, CallType, Acquire, AcquireFails, Publish
  <2>3. ASSUME Release(c) \/ SetIdle(c) \/ \E what \in {"start", "stop"} : Call(c, what)
        PROVE SessionType' /\ CallType'
    BY <2>3 DEF SessionType, CallType, Release, SetIdle, Call
  <2> QED BY <2>1, <2>2, <2>3 DEF StartStop
<1>2. RunType' /\ SinkType'
  <2>1. ASSUME Cancel(c) PROVE RunType' /\ SinkType'
    BY <2>1 DEF RunType, SinkType, Cancel, sinkVars
  <2>2. ASSUME NEW r \in Runs, Publish(c, r) PROVE RunType' /\ SinkType'
    BY <2>2 DEF RunType, SinkType, Publish, sinkVars
  <2>3. ASSUME UNCHANGED <<runVars, sinkVars>> PROVE RunType' /\ SinkType'
    BY <2>3 DEF RunType, SinkType, runVars, sinkVars
  <2> QED BY <2>1, <2>2, <2>3 DEF StartStop, Lock, Detach, Join, Acquire, AcquireFails,
                              Release, SetIdle, Call
<1> QED BY <1>1, <1>2

(* A step of run, of its two loops and of the receiver's goroutine keeps    *)
(* the types (session.go:220-400).                                          *)
LEMMA RunTypes ==
    ASSUME TypeOK, NEW r \in Runs,
           Decode(r) \/ Supervise(r) \/ World(r)
    PROVE  TypeOK'
<1> USE DEF TypeOK, RunTo, Keep, GiveUp, Leave
<1>1. SessionType' /\ CallType'
  BY DEF SessionType, CallType, callVars, Decode, Supervise, World, Begin, SeeCancel, Tick,
         Resize, Submit, Shown, SubmitFails, HelpersReturn, Drained, Fail, Close,
         ReaperLock, ReaperDone, SinkBreaks, Silence, Forget
<1>2. RunType'
  <2>1. CASE Decode(r)
    BY <2>1 DEF RunType, runVars, Decode, Begin, SeeCancel, Tick, Resize, Submit, Shown,
                SubmitFails
  <2>2. CASE Supervise(r)
    BY <2>2 DEF RunType, Supervise, HelpersReturn, Drained, Fail, Close, ReaperLock,
                ReaperDone
  <2>3. CASE World(r)
    BY <2>3 DEF RunType, runVars, World, SinkBreaks, Silence, Forget
  <2> QED BY <2>1, <2>2, <2>3
<1>3. SinkType'
  <2>1. CASE Tick(r)
    BY <2>1 DEF SinkType, Tick, Lost, RestartForFailure
  <2>2. CASE SubmitFails(r)
    BY <2>2 DEF SinkType, SubmitFails, RestartForFailure
  <2>3. CASE Begin(r) \/ SeeCancel(r) \/ Resize(r) \/ Submit(r) \/ Shown(r)
    BY <2>3 DEF SinkType, sinkVars, Begin, SeeCancel, Resize, Submit, Shown
  <2>4. CASE Supervise(r)
    BY <2>4 DEF SinkType, sinkVars, Supervise, HelpersReturn, Drained, Fail, Close,
                ReaperLock, ReaperDone
  <2>5. CASE SinkBreaks(r) \/ Silence(r)
    BY <2>5 DEF SinkType, SinkBreaks, Silence
  <2>6. CASE Forget(r)
    BY <2>6 DEF SinkType, Forget
  <2> QED BY <2>1, <2>2, <2>3, <2>4, <2>5, <2>6 DEF Decode, World
<1> QED BY <1>1, <1>2, <1>3

-----------------------------------------------------------------------------
(* The invariant without the types: the part that relates the variables.    *)
Rest == MutexInv /\ DetachInv /\ BusyInv /\ HeldInv /\ StateInv

(* A caller works alone, under op: what it has detached it joins before it  *)
(* takes the display or gives it back (session.go:159-218).                 *)
LEMMA CallPreserves ==
    ASSUME IndInv, NEW c \in Callers,
           StartStop(c) \/ \E what \in {"start", "stop"} : Call(c, what)
    PROVE  Rest'
<1> USE DEF Rest, IndInv, TypeOK, SessionType, CallType, RunType,
            MutexInv, DetachInv, BusyInv, HeldInv, StateInv, Busy,
            GoTo, callVars, runVars
<1>1. CASE Lock(c)
  <2>1. MutexInv' BY <1>1 DEF Lock
  <2>2. DetachInv' BY <1>1 DEF Lock
  <2>3. BusyInv' BY <1>1 DEF Lock
  <2>4. HeldInv' BY <1>1 DEF Lock
  <2>5. StateInv' BY <1>1 DEF Lock
  <2> QED BY <2>1, <2>2, <2>3, <2>4, <2>5
<1>2. CASE Detach(c)
  <2>1. MutexInv' BY <1>2 DEF Detach
  <2>2. DetachInv' BY <1>2 DEF Detach
  <2>3. BusyInv' BY <1>2 DEF Detach
  <2>4. HeldInv' BY <1>2 DEF Detach
  <2>5. StateInv' BY <1>2 DEF Detach
  <2> QED BY <2>1, <2>2, <2>3, <2>4, <2>5
<1>3. CASE Cancel(c)
  <2>1. MutexInv' BY <1>3 DEF Cancel
  <2>2. DetachInv' BY <1>3 DEF Cancel
  <2>3. BusyInv' BY <1>3 DEF Cancel
  <2>4. HeldInv' BY <1>3 DEF Cancel
  <2>5. StateInv' BY <1>3 DEF Cancel
  <2> QED BY <2>1, <2>2, <2>3, <2>4, <2>5
<1>4. CASE Join(c)
  <2>1. MutexInv' BY <1>4 DEF Join
  <2>2. DetachInv' BY <1>4 DEF Join
  <2>3. BusyInv' BY <1>4 DEF Join, Joined
  <2>4. HeldInv' BY <1>4 DEF Join
  <2>5. StateInv' BY <1>4 DEF Join
  <2> QED BY <2>1, <2>2, <2>3, <2>4, <2>5
<1>5. CASE Acquire(c)
  <2>1. MutexInv' BY <1>5 DEF Acquire
  <2>2. DetachInv' BY <1>5 DEF Acquire
  <2>3. BusyInv' BY <1>5 DEF Acquire
  <2>4. HeldInv' BY <1>5 DEF Acquire
  <2>5. StateInv' BY <1>5 DEF Acquire
  <2> QED BY <2>1, <2>2, <2>3, <2>4, <2>5
<1>6. CASE AcquireFails(c)
  <2>1. MutexInv' BY <1>6 DEF AcquireFails
  <2>2. DetachInv' BY <1>6 DEF AcquireFails
  <2>3. BusyInv' BY <1>6 DEF AcquireFails
  <2>4. HeldInv' BY <1>6 DEF AcquireFails
  <2>5. StateInv' BY <1>6 DEF AcquireFails
  <2> QED BY <2>1, <2>2, <2>3, <2>4, <2>5
<1>7. CASE Release(c)
  <2>1. MutexInv' BY <1>7 DEF Release
  <2>2. DetachInv' BY <1>7 DEF Release
  <2>3. BusyInv' BY <1>7 DEF Release
  <2>4. HeldInv' BY <1>7 DEF Release
  <2>5. StateInv' BY <1>7 DEF Release
  <2> QED BY <2>1, <2>2, <2>3, <2>4, <2>5
<1>8. CASE SetIdle(c)
  <2>1. MutexInv' BY <1>8 DEF SetIdle
  <2>2. DetachInv' BY <1>8 DEF SetIdle
  <2>3. BusyInv' BY <1>8 DEF SetIdle
  <2>4. HeldInv' BY <1>8 DEF SetIdle
  <2>5. StateInv' BY <1>8 DEF SetIdle
  <2> QED BY <2>1, <2>2, <2>3, <2>4, <2>5
<1>9. ASSUME NEW r \in Runs, Publish(c, r) PROVE Rest'
  <2>1. MutexInv' BY <1>9 DEF Publish, Unused
  <2>2. DetachInv' BY <1>9 DEF Publish, Unused
  <2>3. BusyInv' BY <1>9 DEF Publish, Unused
  <2>4. HeldInv' BY <1>9 DEF Publish, Unused
  <2>5. StateInv' BY <1>9 DEF Publish, Unused
  <2> QED BY <2>1, <2>2, <2>3, <2>4, <2>5
<1>10. ASSUME NEW what \in {"start", "stop"}, Call(c, what) PROVE Rest'
  <2>1. MutexInv' BY <1>10 DEF Call
  <2>2. DetachInv' BY <1>10 DEF Call
  <2>3. BusyInv' BY <1>10 DEF Call
  <2>4. HeldInv' BY <1>10 DEF Call
  <2>5. StateInv' BY <1>10 DEF Call
  <2> QED BY <2>1, <2>2, <2>3, <2>4, <2>5
<1> QED BY <1>1, <1>2, <1>3, <1>4, <1>5, <1>6, <1>7, <1>8, <1>9, <1>10 DEF StartStop

-----------------------------------------------------------------------------
(* A run, its reaper and the world around it leave the callers' part of the *)
(* invariant alone: only a run that is current or being joined is busy.     *)
LEMMA RunPreserves ==
    ASSUME IndInv, NEW r \in Runs,
           Decode(r) \/ Supervise(r) \/ World(r)
    PROVE  Rest'
<1> USE DEF Rest, IndInv, TypeOK, SessionType, CallType, RunType,
            MutexInv, DetachInv, BusyInv, HeldInv, StateInv, Busy,
            RunTo, Keep, callVars, runVars
<1>1. CASE Begin(r)
  <2>1. MutexInv' BY <1>1 DEF Begin, GiveUp, Leave
  <2>2. DetachInv' BY <1>1 DEF Begin, GiveUp, Leave
  <2>3. BusyInv' BY <1>1 DEF Begin, GiveUp, Leave
  <2>4. HeldInv' BY <1>1 DEF Begin, GiveUp, Leave
  <2>5. StateInv' BY <1>1 DEF Begin, GiveUp, Leave
  <2> QED BY <2>1, <2>2, <2>3, <2>4, <2>5
<1>2. CASE SeeCancel(r)
  <2>1. MutexInv' BY <1>2 DEF SeeCancel, Leave
  <2>2. DetachInv' BY <1>2 DEF SeeCancel, Leave
  <2>3. BusyInv' BY <1>2 DEF SeeCancel, Leave
  <2>4. HeldInv' BY <1>2 DEF SeeCancel, Leave
  <2>5. StateInv' BY <1>2 DEF SeeCancel, Leave
  <2> QED BY <2>1, <2>2, <2>3, <2>4, <2>5
<1>3. CASE Tick(r)
  <2>1. MutexInv' BY <1>3 DEF Tick, GiveUp, Leave
  <2>2. DetachInv' BY <1>3 DEF Tick, GiveUp, Leave
  <2>3. BusyInv' BY <1>3 DEF Tick, GiveUp, Leave
  <2>4. HeldInv' BY <1>3 DEF Tick, GiveUp, Leave
  <2>5. StateInv' BY <1>3 DEF Tick, GiveUp, Leave
  <2> QED BY <2>1, <2>2, <2>3, <2>4, <2>5
<1>4. CASE Resize(r)
  <2>1. MutexInv' BY <1>4 DEF Resize, GiveUp, Leave
  <2>2. DetachInv' BY <1>4 DEF Resize, GiveUp, Leave
  <2>3. BusyInv' BY <1>4 DEF Resize, GiveUp, Leave
  <2>4. HeldInv' BY <1>4 DEF Resize, GiveUp, Leave
  <2>5. StateInv' BY <1>4 DEF Resize, GiveUp, Leave
  <2> QED BY <2>1, <2>2, <2>3, <2>4, <2>5
<1>5. CASE Submit(r)
  <2>1. MutexInv' BY <1>5 DEF Submit
  <2>2. DetachInv' BY <1>5 DEF Submit
  <2>3. BusyInv' BY <1>5 DEF Submit
  <2>4. HeldInv' BY <1>5 DEF Submit
  <2>5. StateInv' BY <1>5 DEF Submit
  <2> QED BY <2>1, <2>2, <2>3, <2>4, <2>5
<1>6. CASE Shown(r)
  <2>1. MutexInv' BY <1>6 DEF Shown
  <2>2. DetachInv' BY <1>6 DEF Shown
  <2>3. BusyInv' BY <1>6 DEF Shown
  <2>4. HeldInv' BY <1>6 DEF Shown
  <2>5. StateInv' BY <1>6 DEF Shown
  <2> QED BY <2>1, <2>2, <2>3, <2>4, <2>5
<1>7. CASE SubmitFails(r)
  <2>1. MutexInv' BY <1>7 DEF SubmitFails, GiveUp, Leave
  <2>2. DetachInv' BY <1>7 DEF SubmitFails, GiveUp, Leave
  <2>3. BusyInv' BY <1>7 DEF SubmitFails, GiveUp, Leave
  <2>4. HeldInv' BY <1>7 DEF SubmitFails, GiveUp, Leave
  <2>5. StateInv' BY <1>7 DEF SubmitFails, GiveUp, Leave
  <2> QED BY <2>1, <2>2, <2>3, <2>4, <2>5
<1>8. CASE HelpersReturn(r)
  <2>1. MutexInv' BY <1>8 DEF HelpersReturn
  <2>2. DetachInv' BY <1>8 DEF HelpersReturn
  <2>3. BusyInv' BY <1>8 DEF HelpersReturn
  <2>4. HeldInv' BY <1>8 DEF HelpersReturn
  <2>5. StateInv' BY <1>8 DEF HelpersReturn
  <2> QED BY <2>1, <2>2, <2>3, <2>4, <2>5
<1>9. CASE Drained(r)
  <2>1. MutexInv' BY <1>9 DEF Drained
  <2>2. DetachInv' BY <1>9 DEF Drained
  <2>3. BusyInv' BY <1>9 DEF Drained
  <2>4. HeldInv' BY <1>9 DEF Drained
  <2>5. StateInv' BY <1>9 DEF Drained
  <2> QED BY <2>1, <2>2, <2>3, <2>4, <2>5
<1>10. CASE Fail(r)
  <2>1. MutexInv' BY <1>10 DEF Fail
  <2>2. DetachInv' BY <1>10 DEF Fail
  <2>3. BusyInv' BY <1>10 DEF Fail
  <2>4. HeldInv' BY <1>10 DEF Fail
  <2>5. StateInv' BY <1>10 DEF Fail
  <2> QED BY <2>1, <2>2, <2>3, <2>4, <2>5
<1>11. CASE Close(r)
  <2>1. MutexInv' BY <1>11 DEF Close
  <2>2. DetachInv' BY <1>11 DEF Close
  <2>3. BusyInv' BY <1>11 DEF Close
  <2>4. HeldInv' BY <1>11 DEF Close
  <2>5. StateInv' BY <1>11 DEF Close
  <2> QED BY <2>1, <2>2, <2>3, <2>4, <2>5
<1>12. CASE ReaperLock(r)
  <2>1. MutexInv' BY <1>12 DEF ReaperLock
  <2>2. DetachInv' BY <1>12 DEF ReaperLock
  <2>3. BusyInv' BY <1>12 DEF ReaperLock
  <2>4. HeldInv' BY <1>12 DEF ReaperLock
  <2>5. StateInv' BY <1>12 DEF ReaperLock
  <2> QED BY <2>1, <2>2, <2>3, <2>4, <2>5
<1>13. CASE ReaperDone(r)
  <2>1. MutexInv' BY <1>13 DEF ReaperDone
  <2>2. DetachInv' BY <1>13 DEF ReaperDone
  <2>3. BusyInv' BY <1>13 DEF ReaperDone
  <2>4. HeldInv' BY <1>13 DEF ReaperDone
  <2>5. StateInv' BY <1>13 DEF ReaperDone
  <2> QED BY <2>1, <2>2, <2>3, <2>4, <2>5
<1>14. CASE World(r)
  <2>1. MutexInv' BY <1>14 DEF World, SinkBreaks, Silence, Forget
  <2>2. DetachInv' BY <1>14 DEF World, SinkBreaks, Silence, Forget
  <2>3. BusyInv' BY <1>14 DEF World, SinkBreaks, Silence, Forget
  <2>4. HeldInv' BY <1>14 DEF World, SinkBreaks, Silence, Forget
  <2>5. StateInv' BY <1>14 DEF World, SinkBreaks, Silence, Forget
  <2> QED BY <2>1, <2>2, <2>3, <2>4, <2>5
<1> QED BY <1>1, <1>2, <1>3, <1>4, <1>5, <1>6, <1>7, <1>8, <1>9, <1>10, <1>11, <1>12, <1>13, <1>14 DEF Decode, Supervise

(* Steps that change nothing.                                               *)
LEMMA StutterPreserves == ASSUME IndInv, UNCHANGED vars PROVE IndInv'
<1> USE DEF vars, callVars, runVars, sinkVars, IndInv
<1>1. TypeOK' BY DEF TypeOK, SessionType, CallType, RunType, SinkType
<1>2. MutexInv' /\ DetachInv' /\ HeldInv' BY DEF MutexInv, DetachInv, HeldInv
<1>3. BusyInv' BY DEF BusyInv, Busy
<1>4. StateInv' BY DEF StateInv
<1> QED BY <1>1, <1>2, <1>3, <1>4

(* The inductive invariant holds in every reachable state.                  *)
THEOREM Invariance == Spec => []IndInv
<1>1. Init => IndInv BY InitInd
<1>2. IndInv /\ [Next]_vars => IndInv'
  <2> SUFFICES ASSUME IndInv, [Next]_vars PROVE IndInv' OBVIOUS
  <2>1. ASSUME NEW c \in Callers,
               StartStop(c) \/ \E what \in {"start", "stop"} : Call(c, what)
        PROVE IndInv'
    BY <2>1, CallTypes, CallPreserves DEF IndInv, Rest
  <2>2. ASSUME NEW r \in Runs, Decode(r) \/ Supervise(r) \/ World(r) PROVE IndInv'
    BY <2>2, RunTypes, RunPreserves DEF IndInv, Rest
  <2>3. CASE UNCHANGED vars BY <2>3, StutterPreserves
  <2> QED BY <2>1, <2>2, <2>3 DEF Next
<1> QED BY <1>1, <1>2, PTL DEF Spec

(* session.go 16: nothing of ours draws on the display unless it is held.   *)
THEOREM DrawsSafely == Spec => []DrawsOnlyWhenHeld
<1>1. IndInv => DrawsOnlyWhenHeld
  BY DEF IndInv, BusyInv, Busy, HeldInv, DrawsOnlyWhenHeld, Using
<1> QED BY <1>1, Invariance, PTL

(* Two runs never draw at the same time, however many Starts compete.       *)
THEOREM DrawsAlone == Spec => []OneRunDraws
<1>1. IndInv => OneRunDraws
  <2> SUFFICES ASSUME IndInv, NEW r \in Runs, NEW q \in Runs, Using(r), Using(q)
               PROVE r = q
    BY DEF OneRunDraws
  <2>1. Busy(r) /\ Busy(q) BY DEF IndInv, BusyInv, Busy, Using
  <2>2. ASSUME NEW c \in Callers, join[c] \in Runs PROVE cur = None /\ op = c
    BY <2>2 DEF IndInv, DetachInv, MutexInv
  <2> QED BY <2>1, <2>2 DEF IndInv, BusyInv
<1> QED BY <1>1, Invariance, PTL

(* When nobody is inside Start or Stop, state, run and display agree.       *)
THEOREM Settles == Spec => []SettledState
<1>1. IndInv => SettledState
  BY DEF IndInv, MutexInv, HeldInv, StateInv, SettledState
<1> QED BY <1>1, Invariance, PTL

(* A late frame of the previous source never makes a new session live.      *)
THEOREM LiveIsOwn == Spec => LiveByItsOwnFrame
<1> DEFINE Own == state # "live" /\ state' = "live" /\ cur # None
                    => rpc[cur] = "submit" /\ rpc'[cur] = "loop"
<1>1. ASSUME IndInv, [Next]_vars PROVE [Own]_vars
  <2> SUFFICES ASSUME Next, state # "live", state' = "live", cur # None
               PROVE rpc[cur] = "submit" /\ rpc'[cur] = "loop"
    BY <1>1 DEF vars
  <2>1. PICK r \in Runs : Shown(r)
    BY DEF Next, StartStop, Decode, Supervise, World, Call, Lock, Detach, Cancel, Join,
           Acquire, AcquireFails, Publish, Release, SetIdle, Begin, SeeCancel, Tick, Resize,
           Submit, SubmitFails, HelpersReturn, Drained, Fail, Close, ReaperLock, ReaperDone,
           SinkBreaks, Silence, Forget, Keep
  <2>2. Busy(r) BY <2>1 DEF Shown, Busy
  <2>3. cur = r BY <1>1, <2>2 DEF IndInv, BusyInv, DetachInv
  <2> QED BY <1>1, <2>1, <2>3 DEF Shown, RunTo, IndInv, TypeOK, RunType
<1> QED BY <1>1, Invariance, PTL DEF Spec, LiveByItsOwnFrame

-----------------------------------------------------------------------------
(* The refinement: with using the set of runs that use the output, every    *)
(* step of the session is a step of Handover or a stutter.                  *)
Mapped == {r \in Runs : Using(r)}

(* Nobody uses the output when there is no current run and none is joined.  *)
LEMMA Quiet == ASSUME IndInv, cur = None, \A c \in Callers : join[c] = None
               PROVE  Mapped = {}
BY DEF IndInv, BusyInv, Busy, Mapped, Using

(* A run that uses the output is the only one.                              *)
LEMMA Alone == ASSUME IndInv, NEW r \in Runs, Using(r) PROVE Mapped = {r} /\ held
<1>1. \A q \in Runs : Using(q) => q = r
  <2> SUFFICES ASSUME NEW q \in Runs, Using(q) PROVE q = r OBVIOUS
  <2>1. Busy(r) /\ Busy(q) BY DEF IndInv, BusyInv, Busy, Using
  <2>2. ASSUME NEW c \in Callers, join[c] \in Runs PROVE cur = None /\ op = c
    BY <2>2 DEF IndInv, DetachInv, MutexInv
  <2> QED BY <2>1, <2>2 DEF IndInv, BusyInv
<1>2. held BY DEF IndInv, BusyInv, Busy, HeldInv, Using
<1> QED BY <1>1, <1>2 DEF Mapped

(* A step of Start or Stop takes the display, gives it back once no run     *)
(* uses it, begins a run, or is invisible to Handover.                      *)
LEMMA CallRefines ==
    ASSUME IndInv, NEW c \in Callers,
           StartStop(c) \/ \E what \in {"start", "stop"} : Call(c, what)
    PROVE  [Promise!Next]_(Promise!vars)
<1> USE DEF Promise!vars, Promise!Next
<1>1. CASE Acquire(c)
  <2>1. Mapped' = Mapped /\ held' = TRUE BY <1>1 DEF Acquire, Mapped, Using, runVars
  <2> QED BY <2>1 DEF Promise!Take, Mapped, IndInv, TypeOK, SessionType
<1>2. CASE Release(c)
  <2>1. Mapped' = Mapped /\ held' = FALSE BY <1>2 DEF Release, Mapped, Using, runVars
  <2>2. cur = None /\ \A d \in Callers : join[d] = None
    BY <1>2 DEF Release, IndInv, DetachInv, MutexInv
  <2> QED BY <2>1, <2>2, Quiet DEF Promise!Give, Mapped, IndInv, TypeOK, SessionType
<1>3. ASSUME NEW r \in Runs, Publish(c, r) PROVE [Promise!Next]_(Promise!vars)
  <2>1. cur = None /\ held /\ \A d \in Callers : join[d] = None
    BY <1>3 DEF Publish, IndInv, DetachInv, MutexInv, HeldInv
  <2>2. Mapped = {} BY <2>1, Quiet
  <2>3. Mapped' = {r} /\ held' = held
    BY <1>3, <2>2 DEF Publish, Mapped, Using, IndInv, TypeOK, RunType
  <2> QED BY <2>1, <2>2, <2>3 DEF Promise!Begin, Mapped
<1>4. CASE UNCHANGED <<rpc, helpers, held>> BY <1>4 DEF Using
<1> QED BY <1>1, <1>2, <1>3, <1>4 DEF StartStop, Lock, Detach, Cancel, Join, AcquireFails,
                                    SetIdle, Call, runVars

(* A step of a run, of its reaper or of the world finishes a run, gives the *)
(* display back, or is invisible to Handover.                               *)
LEMMA RunRefines ==
    ASSUME IndInv, NEW r \in Runs, Decode(r) \/ Supervise(r) \/ World(r)
    PROVE  [Promise!Next]_(Promise!vars)
<1> USE DEF Promise!vars, Promise!Next, RunTo, Keep
<1>1. CASE ReaperDone(r) /\ reaper[r] = "release"
  <2>1. Mapped' = Mapped /\ held' = FALSE BY <1>1 DEF ReaperDone, Mapped, Using
  <2>2. cur = None /\ \A d \in Callers : join[d] = None
    BY <1>1 DEF ReaperDone, IndInv, DetachInv, MutexInv, BusyInv
  <2> QED BY <2>1, <2>2, Quiet DEF Promise!Give, Mapped, IndInv, TypeOK, SessionType
<1>2. CASE held' = held /\ \A q \in Runs : Using(q)' = Using(q)
  BY <1>2 DEF Using
<1>3. CASE held' = held /\ Using(r) /\ ~Using(r)'
           /\ \A q \in Runs \ {r} : Using(q)' = Using(q)
  <2>1. Mapped = {r} /\ Mapped' = {} BY <1>3, Alone DEF Mapped
  <2> QED BY <1>3, <2>1 DEF Promise!Finish, Mapped
<1>4. CASE Decode(r)
  <2>1. held' = held /\ helpers' = helpers /\ Using(r)
        /\ \A q \in Runs \ {r} : rpc'[q] = rpc[q]
    BY <1>4 DEF Decode, Begin, SeeCancel, Tick, Resize, Submit, Shown, SubmitFails, GiveUp,
                Leave, runVars, Using, IndInv, TypeOK, RunType
  <2> QED BY <1>2, <1>3, <2>1 DEF Using
<1>5. CASE HelpersReturn(r)
  <2>1. held' = held /\ rpc' = rpc /\ Using(r)
        /\ \A q \in Runs \ {r} : helpers'[q] = helpers[q]
    BY <1>5 DEF HelpersReturn, Using, IndInv, TypeOK, RunType
  <2> QED BY <1>2, <1>3, <2>1 DEF Using
<1>6. CASE Drained(r) \/ Fail(r) \/ Close(r)
  <2>1. held' = held /\ helpers' = helpers /\ rpc[r] \notin Decoding /\ rpc'[r] \notin Decoding
        /\ \A q \in Runs \ {r} : rpc'[q] = rpc[q]
    BY <1>6 DEF Drained, Fail, Close, IndInv, TypeOK, RunType
  <2> QED BY <1>2, <2>1 DEF Using
<1>7. CASE ReaperLock(r) \/ (ReaperDone(r) /\ reaper[r] = "skip") \/ World(r)
  <2>1. held' = held /\ helpers' = helpers /\ rpc' = rpc
    BY <1>7 DEF ReaperLock, ReaperDone, World, SinkBreaks, Silence, Forget, runVars
  <2> QED BY <1>2, <2>1 DEF Using
<1> QED BY <1>1, <1>4, <1>5, <1>6, <1>7 DEF Supervise, ReaperDone

(* OmtSession implements Handover.                                          *)
THEOREM KeepsPromise == Spec => HandoverKept
<1>1. Init => Promise!Init BY DEF Init, Promise!Init, Using
<1>2. ASSUME IndInv, [Next]_vars PROVE [Promise!Next]_(Promise!vars)
  <2>1. CASE UNCHANGED vars
    BY <2>1 DEF vars, runVars, Promise!vars, Using
  <2> QED BY <1>2, <2>1, CallRefines, RunRefines DEF Next
<1> QED BY <1>1, <1>2, Invariance, PTL DEF Spec, HandoverKept, Promise!Spec

-----------------------------------------------------------------------------
(* Who waits for whom.  stopLoops waits for done with op locked, and others *)
(* wait for op: a run that waited for op in its turn, or that nobody told   *)
(* to stop, would hold up every later Start and Stop.                       *)

(* A run has a step to take that nobody else must make possible: its select *)
(* has ctx.Done, a Submit returns, its helpers see the context.             *)
HasAStep(r) ==
    \/ rpc[r] \in {"begin", "submit", "fail", "close"}
    \/ rpc[r] \in {"loop", "drain"} /\ cancelled[r]

(* What a caller waits for has been spawned, is told to stop before it is   *)
(* waited for, and tells its own helpers.                                   *)
ToldToStop ==
    /\ cur # None => rpc[cur] # "none"
    /\ \A c \in Callers :
         /\ join[c] # None => rpc[join[c]] # "none"
         /\ cpc[c] = "join" => cancelled[join[c]]
    /\ \A r \in Runs : rpc[r] \in {"drain", "fail", "close", "done"} => cancelled[r]

(* Whoever has op and waits, waits for a run that is done or has a step of  *)
(* its own, and a run asks for op only when nobody needs to wait for it any *)
(* more; op itself belongs to somebody who is between Lock and Unlock.      *)
NoCircle ==
    /\ \A c \in Callers : cpc[c] = "join" => rpc[join[c]] = "done" \/ HasAStep(join[c])
    /\ \A r \in Runs : reaper[r] # "none" => rpc[r] = "done" \/ HasAStep(r)
    /\ op # None =>
         \/ op \in Callers /\ cpc[op] \in Locked
         \/ op \in Runs /\ reaper[op] \in {"release", "skip"}
    /\ \A c, d \in Callers : cpc[c] \in Locked /\ cpc[d] \in Locked => c = d

LEMMA StopIsTold ==
    ASSUME IndInv, ToldToStop, [Next]_vars
    PROVE  ToldToStop'
<1> USE DEF IndInv, TypeOK, SessionType, CallType, RunType, DetachInv, ToldToStop, GoTo
<1>1. ASSUME NEW c \in Callers, Lock(c) \/ Detach(c) \/ Join(c) PROVE ToldToStop'
  BY <1>1 DEF Lock, Detach, Join, runVars
<1>2. ASSUME NEW c \in Callers, Cancel(c) PROVE ToldToStop'
  BY <1>2 DEF Cancel
<1>3. ASSUME NEW c \in Callers, Acquire(c) \/ AcquireFails(c) \/ Release(c) \/ SetIdle(c)
      PROVE ToldToStop'
  BY <1>3 DEF Acquire, AcquireFails, Release, SetIdle, runVars
<1>4. ASSUME NEW c \in Callers, NEW r \in Runs, Publish(c, r) PROVE ToldToStop'
  BY <1>4 DEF Publish, Unused
<1>5. ASSUME NEW c \in Callers, NEW what \in {"start", "stop"}, Call(c, what) PROVE ToldToStop'
  BY <1>5 DEF Call, runVars
<1>6. ASSUME NEW r \in Runs, Decode(r) \/ Supervise(r) \/ World(r) PROVE ToldToStop'
  <2> USE DEF RunTo, Keep, GiveUp, Leave, callVars, runVars
  <2>1. CASE Decode(r)
    BY <2>1 DEF Decode, Begin, SeeCancel, Tick, Resize, Submit, Shown, SubmitFails
  <2>2. CASE HelpersReturn(r) \/ Drained(r) \/ Fail(r) \/ Close(r)
    BY <2>2 DEF HelpersReturn, Drained, Fail, Close
  <2>3. CASE ReaperLock(r)
    BY <2>3 DEF ReaperLock
  <2>4. CASE ReaperDone(r)
    BY <2>4 DEF ReaperDone
  <2>5. CASE World(r)
    BY <2>5 DEF World, SinkBreaks, Silence, Forget
  <2> QED BY <1>6, <2>1, <2>2, <2>3, <2>4, <2>5 DEF Supervise
<1>7. CASE UNCHANGED vars
  BY <1>7 DEF vars, callVars, runVars
<1> QED BY <1>1, <1>2, <1>3, <1>4, <1>5, <1>6, <1>7 DEF Next, StartStop

(* No callers, runs and reapers ever wait in a circle, whoever stops whom
   while an output fails (stopLoops and run in omt/session.go).             *)
THEOREM NobodyWaitsInACircle == Spec => []NoCircle
<1>1. Init => ToldToStop
  BY DEF Init, ToldToStop
<1>2. IndInv /\ ToldToStop => NoCircle
  <2> SUFFICES ASSUME IndInv, ToldToStop PROVE NoCircle
    OBVIOUS
  <2> USE DEF IndInv, TypeOK, SessionType, CallType, RunType, ToldToStop, HasAStep
  <2>1. ASSUME NEW c \in Callers, cpc[c] = "join"
        PROVE  rpc[join[c]] = "done" \/ HasAStep(join[c])
    BY <2>1 DEF DetachInv
  <2>2. ASSUME NEW r \in Runs, reaper[r] # "none" PROVE rpc[r] = "done" \/ HasAStep(r)
    BY <2>2 DEF BusyInv
  <2> QED BY <2>1, <2>2 DEF NoCircle, MutexInv
<1> QED BY <1>1, <1>2, Invariance, StopIsTold, PTL DEF Spec
=============================================================================
