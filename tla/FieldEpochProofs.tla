--------------------------- MODULE FieldEpochProofs ---------------------------
(***************************************************************************)
(* Theorems about FieldEpoch, for any set of sessions, any number of       *)
(* epochs and pipeline threads, and any choice of faults.                  *)
(***************************************************************************)
EXTENDS FieldEpoch, TLAPS

(* Where a process may stand with a key of its own in target.              *)
Working == {"creating", "run", "check", "set", "read", "stop", "finish"}

(* A key without a row was never started; a runtime was.                   *)
Started ==
  /\ \A k \in Key : row[k] = "none" => ffmpeg[k] = "none" /\ k \notin runtimes
  /\ \A k \in runtimes : ffmpeg[k] # "none"

(* The key allocate_live is working on is fresh: nothing else names it.    *)
Fresh ==
  pc[Loop] = "creating" =>
    /\ row[target[Loop]] = "active"
    /\ ffmpeg[target[Loop]] = "none"
    /\ target[Loop] \notin runtimes

(* Processes and pipelines work on keys, threads on keys that were started.*)
Targets ==
  /\ \A p \in Proc : pc[p] \in Working => target[p] \in Key
  /\ \A t \in Thread : pc[t] # "idle" =>
       /\ pc[t] \notin {"creating", "built", "starting"}
       /\ target[t] \in Key
       /\ ffmpeg[target[t]] # "none"
  /\ pc[Loop] \in {"built", "starting"} \/ op = "attach" => next \in Key
  /\ pc[Loop] \in {"idle", "creating", "built", "starting"} => op = "none"
  /\ next # NoKey => ffmpeg[next] # "none"
  /\ slot # NoKey => ffmpeg[slot] # "none"

(* A releaser that is about to drop a row has no running receiver left.    *)
Stopped ==
  \A p \in Proc : pc[p] = "finish" => ffmpeg[target[p]] # "running"

IInv ==
  /\ TypeOK
  /\ Started
  /\ Fresh
  /\ Targets
  /\ Stopped
  /\ SingleActiveEpoch
  /\ ReceiverBacked
  /\ LiveHasActiveEpoch

USE DEF vars, db, service, pipeline, control, Goto, Call

-----------------------------------------------------------------------------
(* One lemma per action: it preserves every conjunct it can disturb.       *)

LEMMA RegisterStep ==
  ASSUME IInv, NEW s \in Session, Register(s)
  PROVE  IInv'
<1>1. TypeOK'
  BY DEF IInv, TypeOK, Register
<1>2. LiveHasActiveEpoch'
  BY DEF IInv, LiveHasActiveEpoch, Register
<1> QED
  BY <1>1, <1>2 DEF IInv, Register, Started, Fresh, Targets, Stopped,
     SingleActiveEpoch, ReceiverBacked

LEMMA CompleteStep ==
  ASSUME IInv, NEW s \in Session, Complete(s)
  PROVE  IInv'
<1>1. TypeOK'
  BY DEF IInv, TypeOK, Complete
<1>2. LiveHasActiveEpoch'
  BY DEF IInv, LiveHasActiveEpoch, Complete
<1> QED
  BY <1>1, <1>2 DEF IInv, Complete, Started, Fresh, Targets, Stopped,
     SingleActiveEpoch, ReceiverBacked

LEMMA AllocateBeginStep ==
  ASSUME IInv, NEW s \in Session, NEW e \in Epoch, AllocateBegin(s, e)
  PROVE  IInv'
<1>1. TypeOK'
  BY DEF IInv, TypeOK, AllocateBegin, CreateEpoch, Key, Proc, Phase, Op
<1>2. Started'
  BY DEF IInv, Started, AllocateBegin, CreateEpoch
<1>3. Fresh'
  BY DEF IInv, Fresh, AllocateBegin, CreateEpoch, IsNextEpoch, TypeOK, Started,
     ReceiverBacked, Key, Epoch, Proc
<1>4. Targets'
  BY ConstantsAssumption DEF IInv, Targets, AllocateBegin, CreateEpoch, TypeOK, Key,
     Proc
<1>5. Stopped'
  BY DEF IInv, Stopped, AllocateBegin, CreateEpoch
<1>6. SingleActiveEpoch'
  BY DEF IInv, SingleActiveEpoch, AllocateBegin, CreateEpoch, HasActiveEpoch
<1>7. ReceiverBacked'
  BY DEF IInv, ReceiverBacked, AllocateBegin, CreateEpoch
<1>8. LiveHasActiveEpoch'
  BY DEF IInv, LiveHasActiveEpoch, AllocateBegin, CreateEpoch, TypeOK, Key, Proc
<1> QED
  BY <1>1, <1>2, <1>3, <1>4, <1>5, <1>6, <1>7, <1>8 DEF IInv

LEMMA DeleteStep ==
  ASSUME IInv, NEW k \in Key, Delete(k)
  PROVE  IInv'
<1>1. TypeOK'
  BY DEF IInv, TypeOK, Delete, Proc, Phase, Op
<1>2. Fresh'
  BY DEF IInv, Fresh, Delete
<1>3. Targets'
  BY ConstantsAssumption DEF IInv, Targets, Delete, TypeOK, Proc
<1>4. Stopped'
  BY DEF IInv, Stopped, Delete
<1> QED
  BY <1>1, <1>2, <1>3, <1>4 DEF IInv, Delete, Started, SingleActiveEpoch,
     ReceiverBacked, LiveHasActiveEpoch

LEMMA OpenFrameSourceStep ==
  ASSUME IInv, NEW k \in Key, OpenFrameSource(k)
  PROVE  IInv'
<1>1. TypeOK'
  BY DEF IInv, TypeOK, OpenFrameSource, Proc, Phase, Op
<1>2. Fresh'
  BY DEF IInv, Fresh, OpenFrameSource
<1>3. Targets'
  BY ConstantsAssumption DEF IInv, Targets, OpenFrameSource, TypeOK,
     Fresh, Started, ReceiverBacked, Proc, Working
<1>4. Stopped'
  BY DEF IInv, Stopped, OpenFrameSource
<1> QED
  BY <1>1, <1>2, <1>3, <1>4 DEF IInv, OpenFrameSource, Started,
     SingleActiveEpoch, ReceiverBacked, LiveHasActiveEpoch

LEMMA ResumeStep ==
  ASSUME IInv, NEW t \in Thread, Resume(t)
  PROVE  IInv'
<1>1. TypeOK'
  BY DEF IInv, TypeOK, Resume, Spawn, Proc, Phase, Op
<1>2. Fresh'
  BY DEF IInv, Fresh, Resume
<1>3. Targets'
  BY DEF IInv, Targets, Resume, TypeOK, Proc
<1>4. Stopped'
  BY DEF IInv, Stopped, Resume, Spawn
<1> QED
  BY <1>1, <1>2, <1>3, <1>4 DEF IInv, Resume, Started, SingleActiveEpoch,
     ReceiverBacked, LiveHasActiveEpoch

LEMMA StopPipelineStep ==
  ASSUME IInv, StopPipeline
  PROVE  IInv'
<1>1. TypeOK'
  BY DEF IInv, TypeOK, StopPipeline, Call, Proc, Phase, Op
<1>2. Fresh'
  BY DEF IInv, Fresh, StopPipeline, Call
<1>3. Targets'
  BY DEF IInv, Targets, StopPipeline, Call, TypeOK, Proc
<1>4. Stopped'
  BY DEF IInv, Stopped, StopPipeline, Call
<1> QED
  BY <1>1, <1>2, <1>3, <1>4 DEF IInv, StopPipeline, Started,
     SingleActiveEpoch, ReceiverBacked, LiveHasActiveEpoch

LEMMA AllocateStartStep ==
  ASSUME IInv, AllocateStart
  PROVE  IInv'
<1>1. TypeOK'
  BY DEF IInv, TypeOK, AllocateStart, Targets, Proc, Phase, Op, Working
<1>2. Started'
  BY DEF IInv, Started, AllocateStart, TypeOK, Targets, Fresh,
     ReceiverBacked, Proc, Working
<1>3. Fresh'
  BY DEF IInv, Fresh, AllocateStart, TypeOK, Proc
<1>4. Targets'
  BY DEF IInv, Targets, AllocateStart, TypeOK, Proc, Working
<1>5. Stopped'
  BY DEF IInv, Stopped, AllocateStart, TypeOK, Targets, Fresh, Started,
     ReceiverBacked, Proc
<1>6. ReceiverBacked'
  BY DEF IInv, ReceiverBacked, AllocateStart, TypeOK, Fresh, Started, Proc
<1> QED
  BY <1>1, <1>2, <1>3, <1>4, <1>5, <1>6 DEF IInv, AllocateStart,
     SingleActiveEpoch, LiveHasActiveEpoch

LEMMA AllocateStartFailsStep ==
  ASSUME IInv, AllocateStartFails
  PROVE  IInv'
<1>1. TypeOK'
  BY DEF IInv, TypeOK, AllocateStartFails, ReleaseEpoch, Call, Proc,
     Phase, Op
<1>2. Started'
  BY DEF IInv, Started, AllocateStartFails, ReleaseEpoch, Call
<1>3. Fresh'
  BY DEF IInv, Fresh, AllocateStartFails, Call, TypeOK, Proc
<1>4. Targets'
  BY DEF IInv, Targets, AllocateStartFails, Call, TypeOK, Proc, Working
<1>5. Stopped'
  BY DEF IInv, Stopped, AllocateStartFails, Call
<1>6. SingleActiveEpoch'
  BY DEF IInv, SingleActiveEpoch, AllocateStartFails, ReleaseEpoch, Call
<1>7. ReceiverBacked'
  BY DEF IInv, ReceiverBacked, AllocateStartFails, Call, TypeOK, Started,
     Fresh, Targets, SingleActiveEpoch, Proc, Working
<1>8. LiveHasActiveEpoch'
  BY DEF IInv, LiveHasActiveEpoch, AllocateStartFails, ReleaseEpoch, Call,
     TypeOK, Targets, Proc
<1> QED
  BY <1>1, <1>2, <1>3, <1>4, <1>5, <1>6, <1>7, <1>8 DEF IInv

LEMMA AllocateDiskFailsStep ==
  ASSUME IInv, AllocateDiskFails
  PROVE  IInv'
<1>1. TypeOK'
  BY DEF IInv, TypeOK, AllocateDiskFails, Proc, Phase, Op
<1>2. Fresh'
  BY DEF IInv, Fresh, AllocateDiskFails, TypeOK, Proc
<1>3. Targets'
  BY DEF IInv, Targets, AllocateDiskFails, TypeOK, Proc, Working
<1>4. Stopped'
  BY DEF IInv, Stopped, AllocateDiskFails
<1> QED
  BY <1>1, <1>2, <1>3, <1>4 DEF IInv, AllocateDiskFails, Started,
     SingleActiveEpoch, ReceiverBacked, LiveHasActiveEpoch

LEMMA ConstructFailsStep ==
  ASSUME IInv, ConstructFails
  PROVE  IInv'
<1>1. TypeOK'
  BY DEF IInv, TypeOK, ConstructFails, Call, Proc, Phase, Op
<1>2. Fresh'
  BY DEF IInv, Fresh, ConstructFails, Call
<1>3. Targets'
  BY DEF IInv, Targets, ConstructFails, Call, TypeOK, Proc
<1>4. Stopped'
  BY DEF IInv, Stopped, ConstructFails, Call
<1> QED
  BY <1>1, <1>2, <1>3, <1>4 DEF IInv, ConstructFails, Started,
     SingleActiveEpoch, ReceiverBacked, LiveHasActiveEpoch

LEMMA AttachReplacesStep ==
  ASSUME IInv, AttachReplaces
  PROVE  IInv'
<1>1. TypeOK'
  BY DEF IInv, TypeOK, AttachReplaces, Proc, Phase, Op
<1>2. Fresh'
  BY DEF IInv, Fresh, AttachReplaces
<1>3. Targets'
  BY DEF IInv, Targets, AttachReplaces, TypeOK, Proc
<1>4. Stopped'
  BY DEF IInv, Stopped, AttachReplaces
<1> QED
  BY <1>1, <1>2, <1>3, <1>4 DEF IInv, AttachReplaces, Started,
     SingleActiveEpoch, ReceiverBacked, LiveHasActiveEpoch

LEMMA AttachFirstStep ==
  ASSUME IInv, AttachFirst
  PROVE  IInv'
<1>1. TypeOK'
  BY DEF IInv, TypeOK, AttachFirst, Proc, Phase, Op
<1>2. Fresh'
  BY DEF IInv, Fresh, AttachFirst
<1>3. Targets'
  BY DEF IInv, Targets, AttachFirst, TypeOK, Proc, Working
<1>4. Stopped'
  BY DEF IInv, Stopped, AttachFirst
<1> QED
  BY <1>1, <1>2, <1>3, <1>4 DEF IInv, AttachFirst, Started,
     SingleActiveEpoch, ReceiverBacked, LiveHasActiveEpoch

LEMMA StartPipelineStep ==
  ASSUME IInv, NEW t \in Thread, StartPipeline(t)
  PROVE  IInv'
<1>1. TypeOK'
  BY DEF IInv, TypeOK, StartPipeline, Spawn, Targets, Proc, Phase, Op
<1>2. Fresh'
  BY DEF IInv, Fresh, StartPipeline, TypeOK, Proc
<1>3. Targets'
  BY ConstantsAssumption DEF IInv, Targets, StartPipeline, TypeOK,
     Started, Fresh, ReceiverBacked, Key, Epoch, Proc, Working
<1>4. Stopped'
  BY DEF IInv, Stopped, StartPipeline, TypeOK, Proc
<1> QED
  BY <1>1, <1>2, <1>3, <1>4 DEF IInv, StartPipeline, Started,
     SingleActiveEpoch, ReceiverBacked, LiveHasActiveEpoch

LEMMA StartFailsStep ==
  ASSUME IInv, StartFails
  PROVE  IInv'
<1>1. TypeOK'
  BY DEF IInv, TypeOK, StartFails, Proc, Phase, Op
<1>2. Fresh'
  BY DEF IInv, Fresh, StartFails
<1>3. Targets'
  BY DEF IInv, Targets, StartFails, TypeOK, Proc
<1>4. Stopped'
  BY DEF IInv, Stopped, StartFails
<1> QED
  BY <1>1, <1>2, <1>3, <1>4 DEF IInv, StartFails, Started,
     SingleActiveEpoch, ReceiverBacked, LiveHasActiveEpoch

LEMMA HandlerReturnsStep ==
  ASSUME IInv, HandlerReturns
  PROVE  IInv'
<1>1. TypeOK'
  BY DEF IInv, TypeOK, HandlerReturns, Call, Proc, Phase, Op
<1>2. Fresh'
  BY DEF IInv, Fresh, HandlerReturns, Call
<1>3. Targets'
  BY ConstantsAssumption DEF IInv, Targets, HandlerReturns, Call, TypeOK,
     Proc, Working
<1>4. Stopped'
  BY DEF IInv, Stopped, HandlerReturns, Call
<1> QED
  BY <1>1, <1>2, <1>3, <1>4 DEF IInv, HandlerReturns, Started,
     SingleActiveEpoch, ReceiverBacked, LiveHasActiveEpoch

LEMMA LeaveLoopStep ==
  ASSUME IInv, NEW t \in Thread, LeaveLoop(t)
  PROVE  IInv'
<1>1. TypeOK'
  BY DEF IInv, TypeOK, LeaveLoop, Proc, Phase, Op
<1>2. Fresh'
  BY DEF IInv, Fresh, LeaveLoop
<1>3. Targets'
  BY DEF IInv, Targets, LeaveLoop
<1>4. Stopped'
  BY DEF IInv, Stopped, LeaveLoop
<1> QED
  BY <1>1, <1>2, <1>3, <1>4 DEF IInv, LeaveLoop, Started,
     SingleActiveEpoch, ReceiverBacked, LiveHasActiveEpoch

LEMMA ThreadReturnsStep ==
  ASSUME IInv, NEW t \in Thread, ThreadReturns(t)
  PROVE  IInv'
<1>1. TypeOK'
  BY DEF IInv, TypeOK, ThreadReturns, Proc, Phase, Op
<1>2. Fresh'
  BY DEF IInv, Fresh, ThreadReturns
<1>3. Targets'
  BY DEF IInv, Targets, ThreadReturns, TypeOK, Proc, Working
<1>4. Stopped'
  BY DEF IInv, Stopped, ThreadReturns
<1> QED
  BY <1>1, <1>2, <1>3, <1>4 DEF IInv, ThreadReturns, Started,
     SingleActiveEpoch, ReceiverBacked, LiveHasActiveEpoch

LEMMA ReleaseCheckStep ==
  ASSUME IInv, NEW p \in Proc, ReleaseCheck(p)
  PROVE  IInv'
<1>1. TypeOK'
  BY DEF IInv, TypeOK, ReleaseCheck, Proc, Phase, Op
<1>2. Fresh'
  BY DEF IInv, Fresh, ReleaseCheck
<1>3. Targets'
  BY DEF IInv, Targets, ReleaseCheck, TypeOK, Proc, Working
<1>4. Stopped'
  BY DEF IInv, Stopped, ReleaseCheck
<1> QED
  BY <1>1, <1>2, <1>3, <1>4 DEF IInv, ReleaseCheck, Started,
     SingleActiveEpoch, ReceiverBacked, LiveHasActiveEpoch

LEMMA ReleaseSetStep ==
  ASSUME IInv, NEW p \in Proc, ReleaseSet(p)
  PROVE  IInv'
<1>1. TypeOK'
  BY DEF IInv, TypeOK, ReleaseSet, Goto, Targets, Proc, Phase, Op, Working
<1>2. Fresh'
  BY DEF IInv, Fresh, ReleaseSet, Goto
<1>3. Targets'
  BY DEF IInv, Targets, ReleaseSet, Goto, TypeOK, Proc, Working
<1>4. Stopped'
  BY DEF IInv, Stopped, ReleaseSet, Goto
<1> QED
  BY <1>1, <1>2, <1>3, <1>4 DEF IInv, ReleaseSet, Started,
     SingleActiveEpoch, ReceiverBacked, LiveHasActiveEpoch

LEMMA ReleaseReadStep ==
  ASSUME IInv, NEW p \in Proc, ReleaseRead(p)
  PROVE  IInv'
<1>1. TypeOK'
  BY DEF IInv, TypeOK, ReleaseRead, Proc, Phase, Op
<1>2. Fresh'
  BY DEF IInv, Fresh, ReleaseRead
<1>3. Targets'
  BY DEF IInv, Targets, ReleaseRead, TypeOK, Proc, Working
<1>4. Stopped'
  BY DEF IInv, Stopped, ReleaseRead, TypeOK, Targets, Fresh, Started,
     ReceiverBacked, Proc, Working
<1> QED
  BY <1>1, <1>2, <1>3, <1>4 DEF IInv, ReleaseRead, LockFree, Started,
     SingleActiveEpoch, ReceiverBacked, LiveHasActiveEpoch

LEMMA ReleaseStopStep ==
  ASSUME IInv, NEW p \in Proc, ReleaseStop(p)
  PROVE  IInv'
<1>1. TypeOK'
  BY DEF IInv, TypeOK, ReleaseStop, Proc, Phase, Op
<1>2. Started'
  BY DEF IInv, Started, ReleaseStop
<1>3. Fresh'
  BY DEF IInv, Fresh, ReleaseStop
<1>4. Targets'
  BY DEF IInv, Targets, ReleaseStop, TypeOK, Proc, Working
<1>5. Stopped'
  BY DEF IInv, Stopped, ReleaseStop, TypeOK, Targets, Proc, Working
<1>6. ReceiverBacked'
  BY DEF IInv, ReceiverBacked, ReleaseStop
<1> QED
  BY <1>1, <1>2, <1>3, <1>4, <1>5, <1>6 DEF IInv, ReleaseStop,
     SingleActiveEpoch, LiveHasActiveEpoch

LEMMA ReleaseStopFailsStep ==
  ASSUME IInv, NEW p \in Proc, ReleaseStopFails(p)
  PROVE  IInv'
<1>1. TypeOK'
  BY DEF IInv, TypeOK, ReleaseStopFails, Proc, Phase, Op
<1>2. Started'
  BY DEF IInv, Started, ReleaseStopFails
<1>3. Fresh'
  BY DEF IInv, Fresh, ReleaseStopFails
<1>4. Targets'
  BY DEF IInv, Targets, ReleaseStopFails, TypeOK, Proc, Working
<1>5. Stopped'
  BY DEF IInv, Stopped, ReleaseStopFails, TypeOK, Targets, Proc, Working
<1>6. ReceiverBacked'
  BY DEF IInv, ReceiverBacked, ReleaseStopFails
<1> QED
  BY <1>1, <1>2, <1>3, <1>4, <1>5, <1>6 DEF IInv, ReleaseStopFails,
     SingleActiveEpoch, LiveHasActiveEpoch

LEMMA ReleaseFinishStep ==
  ASSUME IInv, NEW p \in Proc, ReleaseFinish(p)
  PROVE  IInv'
<1>1. TypeOK'
  BY DEF IInv, TypeOK, ReleaseFinish, ReleaseEpoch, DropRuntime, Proc,
     Phase, Op
<1>2. Started'
  BY DEF IInv, Started, ReleaseFinish, ReleaseEpoch, DropRuntime
<1>3. Fresh'
  BY DEF IInv, Fresh, ReleaseFinish, LockFree
<1>4. Targets'
  BY DEF IInv, Targets, ReleaseFinish, TypeOK, Proc, Working
<1>5. Stopped'
  BY DEF IInv, Stopped, ReleaseFinish
<1>6. SingleActiveEpoch'
  BY DEF IInv, SingleActiveEpoch, ReleaseFinish, ReleaseEpoch
<1>7. ReceiverBacked'
  BY DEF IInv, ReceiverBacked, ReleaseFinish, ReleaseEpoch, DropRuntime,
     TypeOK, Started, Fresh, Stopped, LiveHasActiveEpoch, Proc
<1>8. LiveHasActiveEpoch'
  BY DEF IInv, LiveHasActiveEpoch, ReleaseFinish, ReleaseEpoch, TypeOK,
     Proc
<1> QED
  BY <1>1, <1>2, <1>3, <1>4, <1>5, <1>6, <1>7, <1>8 DEF IInv

LEMMA ReceiverExitsStep ==
  ASSUME IInv, NEW k \in Key, ReceiverExits(k)
  PROVE  IInv'
<1>1. TypeOK'
  BY DEF IInv, TypeOK, ReceiverExits
<1>2. Started'
  BY DEF IInv, Started, ReceiverExits
<1>3. Fresh'
  BY DEF IInv, Fresh, ReceiverExits
<1>4. Targets'
  BY DEF IInv, Targets, ReceiverExits
<1>5. Stopped'
  BY DEF IInv, Stopped, ReceiverExits
<1>6. ReceiverBacked'
  BY DEF IInv, ReceiverBacked, ReceiverExits
<1> QED
  BY <1>1, <1>2, <1>3, <1>4, <1>5, <1>6 DEF IInv, ReceiverExits,
     SingleActiveEpoch, LiveHasActiveEpoch

LEMMA ReceiverEndStep ==
  ASSUME IInv, NEW k \in Key, ReceiverEnd(k)
  PROVE  IInv'
<1>1. TypeOK'
  BY DEF IInv, TypeOK, ReceiverEnd
<1> QED
  BY <1>1 DEF IInv, ReceiverEnd, LockFree, Started, Fresh, Targets,
     Stopped, SingleActiveEpoch, ReceiverBacked, LiveHasActiveEpoch

LEMMA CrashStep ==
  ASSUME IInv, Crash
  PROVE  IInv'
<1>1. TypeOK'
  BY DEF IInv, TypeOK, Crash, Proc, Phase, Op
<1>2. Started'
  BY DEF IInv, Started, Crash
<1>3. Fresh'
  BY DEF IInv, Fresh, Crash, Proc
<1>4. Targets'
  BY DEF IInv, Targets, Crash, TypeOK, Proc, Working
<1>5. Stopped'
  BY DEF IInv, Stopped, Crash
<1>6. ReceiverBacked'
  BY DEF IInv, ReceiverBacked, Crash
<1> QED
  BY <1>1, <1>2, <1>3, <1>4, <1>5, <1>6 DEF IInv, Crash,
     SingleActiveEpoch, LiveHasActiveEpoch

-----------------------------------------------------------------------------
(* The invariant.                                                          *)

LEMMA InitInvariant ==
  ASSUME Init
  PROVE  IInv
<1>1. TypeOK
  BY ConstantsAssumption DEF Init, TypeOK, Phase, Op, Proc
<1>2. Started /\ Fresh /\ Stopped
  BY DEF Init, Started, Fresh, Stopped, Proc
<1>3. Targets
  BY DEF Init, Targets, Proc, Working
<1>4. SingleActiveEpoch /\ ReceiverBacked /\ LiveHasActiveEpoch
  BY DEF Init, SingleActiveEpoch, ReceiverBacked, LiveHasActiveEpoch
<1> QED
  BY <1>1, <1>2, <1>3, <1>4 DEF IInv

LEMMA StepInvariant ==
  ASSUME IInv, [Next]_vars
  PROVE  IInv'
<1>1. CASE Request
  BY <1>1, RegisterStep, CompleteStep, AllocateBeginStep, DeleteStep,
     OpenFrameSourceStep, ResumeStep, StopPipelineStep DEF Request
<1>2. CASE Handler
  BY <1>2, AllocateStartStep, AllocateStartFailsStep, AllocateDiskFailsStep,
     ConstructFailsStep, AttachReplacesStep, AttachFirstStep,
     StartPipelineStep, StartFailsStep, HandlerReturnsStep DEF Handler
<1>3. ASSUME NEW t \in Thread, PipelineThread(t) \/ LoopFails(t)
      PROVE  IInv'
  BY <1>3, LeaveLoopStep, ThreadReturnsStep DEF PipelineThread, LoopEnds, LoopFails
<1>4. ASSUME NEW p \in Proc, Release(p)
      PROVE  IInv'
  BY <1>4, ReleaseCheckStep, ReleaseSetStep, ReleaseReadStep,
     ReleaseStopStep, ReleaseStopFailsStep, ReleaseFinishStep DEF Release
<1>5. ASSUME NEW k \in Key, Receiver(k)
      PROVE  IInv'
  BY <1>5, ReceiverExitsStep, ReceiverEndStep DEF Receiver
<1>6. CASE Crash
  BY <1>6, CrashStep
<1>7. CASE UNCHANGED vars
  BY <1>7 DEF IInv, TypeOK, Started, Fresh, Targets, Stopped,
     SingleActiveEpoch, ReceiverBacked, LiveHasActiveEpoch
<1> QED
  BY <1>1, <1>2, <1>3, <1>4, <1>5, <1>6, <1>7 DEF Next

(* IInv holds in every state the service, its pipelines and its receivers  *)
(* can reach.                                                              *)
THEOREM Invariance == Spec => []IInv
<1>1. Init => IInv
  BY InitInvariant
<1>2. IInv /\ [Next]_vars => IInv'
  BY StepInvariant
<1> QED
  BY <1>1, <1>2, PTL DEF Spec

-----------------------------------------------------------------------------
(* What follows from it.                                                   *)

(* Every variable keeps its type; in particular consumer_attached is set   *)
(* only on a runtime that is still in _epochs.                             *)
THEOREM TypeCorrect == Spec => []TypeOK
<1>1. IInv => TypeOK
  BY DEF IInv
<1> QED
  BY <1>1, Invariance, PTL

(* has_active_epoch, next_epoch and the two-phase release together keep    *)
(* at most one row active, across crashes, failed starts and races.        *)
THEOREM OneActiveEpoch == Spec => []SingleActiveEpoch
<1>1. IInv => SingleActiveEpoch
  BY DEF IInv
<1> QED
  BY <1>1, Invariance, PTL

(* release_live never drops the runtime or the row of a receiver that      *)
(* still listens, whichever thread releases, and however often.            *)
THEOREM RunningReceiverBacked == Spec => []ReceiverBacked
<1>1. IInv => ReceiverBacked
  BY DEF IInv
<1> QED
  BY <1>1, Invariance, PTL

(* A session the store calls live has an active epoch.                     *)
THEOREM LiveSessionActive == Spec => []LiveHasActiveEpoch
<1>1. IInv => LiveHasActiveEpoch
  BY DEF IInv
<1> QED
  BY <1>1, Invariance, PTL

-----------------------------------------------------------------------------
(* The active row has its runtime, when nothing crashes and no disk fails. *)

LEMMA SlotStep ==
  ASSUME IInv, ActiveHasRuntime, [Next]_vars
  PROVE  ActiveHasRuntime'
<1> SUFFICES ASSUME Faults \cap {"crash", "disk"} = {},
                    NEW k \in Key, row'[k] = "active"
             PROVE  k \in runtimes' \/ pc'[Loop] = "creating"
  BY DEF ActiveHasRuntime
<1>1. row[k] = "active" => k \in runtimes \/ pc[Loop] = "creating"
  BY DEF ActiveHasRuntime
<1>2. pc[Loop] = "creating" /\ row[k] = "active" => k = target[Loop]
  BY DEF IInv, Fresh, SingleActiveEpoch, Targets, Working, Proc
<1>3. pc \in [Proc -> Phase] /\ row \in [Key -> {"none", "active", "released"}]
  BY DEF IInv, TypeOK
<1> USE <1>1, <1>2, <1>3
<1>4. CASE Request
  BY <1>4 DEF Request, Register, Complete, AllocateBegin, CreateEpoch, Delete,
     OpenFrameSource, Resume, Spawn, StopPipeline, Proc
<1>5. CASE Handler
  BY <1>5, ConstantsAssumption DEF Handler, AllocateStart, AllocateStartFails,
     AllocateDiskFails, ReleaseEpoch, ConstructFails, AttachReplaces, AttachFirst,
     StartPipeline, Spawn, StartFails, HandlerReturns, Proc
<1>6. ASSUME NEW t \in Thread, PipelineThread(t) \/ LoopFails(t)
      PROVE  k \in runtimes' \/ pc'[Loop] = "creating"
  BY <1>6, ConstantsAssumption DEF PipelineThread, LoopEnds, LoopFails, LeaveLoop, ThreadReturns, Proc
<1>7. ASSUME NEW p \in Proc, Release(p)
      PROVE  k \in runtimes' \/ pc'[Loop] = "creating"
  <2>1. CASE ReleaseFinish(p)
    BY <1>7, <2>1 DEF ReleaseFinish, ReleaseEpoch, DropRuntime, LockFree
  <2> QED
    BY <1>7, <2>1 DEF Release, ReleaseCheck, ReleaseSet, ReleaseRead, ReleaseStop,
       ReleaseStopFails, LockFree, Proc
<1>8. ASSUME NEW j \in Key, Receiver(j)
      PROVE  k \in runtimes' \/ pc'[Loop] = "creating"
  BY <1>8 DEF Receiver, ReceiverExits, ReceiverEnd
<1>9. CASE Crash
  BY <1>9 DEF Crash
<1>10. CASE UNCHANGED vars
  BY <1>10
<1> QED
  BY <1>4, <1>5, <1>6, <1>7, <1>8, <1>9, <1>10 DEF Next

(* Without a crash or a disk fault the slot is never held by nobody:       *)
(* whatever is allocated, fails to start or is released by several callers *)
(* at once, release_live finds a runtime for the active epoch.             *)
THEOREM SlotHeldByRuntime == Spec => []ActiveHasRuntime
<1>1. Init => ActiveHasRuntime
  BY DEF Init, ActiveHasRuntime
<1>2. IInv /\ ActiveHasRuntime /\ [Next]_vars => ActiveHasRuntime'
  BY SlotStep
<1> QED
  BY <1>1, <1>2, Invariance, PTL DEF Spec

-----------------------------------------------------------------------------
(* Action properties.                                                      *)

(* What a row may do in one step.                                          *)
RowStep ==
  \A s \in Session, e \in Epoch :
    /\ row[<<s, e>>] = "released" => row'[<<s, e>>] = "released"
    /\ row[<<s, e>>] # "none" => row'[<<s, e>>] # "none"
    /\ row[<<s, e>>] = "none" /\ row'[<<s, e>>] # "none" =>
         \A d \in Epoch : d > e => row[<<s, d>>] = "none"

LEMMA RowSteps ==
  ASSUME IInv, [Next]_vars
  PROVE  RowStep
<1>1. ASSUME NEW s \in Session, NEW e \in Epoch, AllocateBegin(s, e)
      PROVE  RowStep
  BY <1>1 DEF IInv, TypeOK, RowStep, AllocateBegin, CreateEpoch, IsNextEpoch, Key, Epoch
<1>2. CASE AllocateStartFails
  BY <1>2 DEF IInv, TypeOK, RowStep, AllocateStartFails, ReleaseEpoch, Key
<1>3. ASSUME NEW p \in Proc, ReleaseFinish(p)
      PROVE  RowStep
  BY <1>3 DEF IInv, TypeOK, RowStep, ReleaseFinish, ReleaseEpoch, Key
<1>4. CASE UNCHANGED row
  BY <1>4 DEF RowStep
<1>5. CASE Request
  BY <1>5, <1>1, <1>4 DEF Request, Register, Complete, Delete,
     OpenFrameSource, Resume, StopPipeline
<1>6. CASE Handler
  BY <1>6, <1>2, <1>4 DEF Handler, AllocateStart, AllocateDiskFails,
     ConstructFails, AttachReplaces, AttachFirst, StartPipeline, StartFails,
     HandlerReturns
<1>7. ASSUME NEW p \in Proc, Release(p)
      PROVE  RowStep
  BY <1>7, <1>3, <1>4 DEF Release, ReleaseCheck, ReleaseSet, ReleaseRead,
     ReleaseStop, ReleaseStopFails
<1> QED
  BY <1>4, <1>5, <1>6, <1>7 DEF Next, PipelineThread, LoopEnds,
     LoopFails, LeaveLoop, ThreadReturns, Receiver, ReceiverExits, ReceiverEnd, Crash

(* Epoch numbers are never reused: MAX + 1 over all rows, released ones    *)
(* included, is above every epoch of the session.                          *)
THEOREM EpochsNeverReused == Spec => EpochNeverReused
<1>1. IInv /\ [Next]_vars => [RowStep]_vars
  BY RowSteps
<1> QED
  BY <1>1, Invariance, PTL DEF Spec, EpochNeverReused, RowStep

(* While p finishes a release, the epochs p is not working on keep what    *)
(* they have.                                                              *)
Finishes(p) == pc[p] \in {"stop", "finish"} /\ pc'[p] # pc[p] /\ pc'[p] # "idle"

OthersKept(p) ==
  \A k \in Key \ {target[p]} :
    /\ row'[k] = row[k]
    /\ ffmpeg'[k] = ffmpeg[k]
    /\ k \in runtimes <=> k \in runtimes'
    /\ k \in attached <=> k \in attached'

LEMMA ReleaseSteps ==
  ASSUME IInv, [Next]_vars, NEW p \in Proc, Finishes(p)
  PROVE  OthersKept(p)
<1>1. ASSUME NEW q \in Proc, Release(q)
      PROVE  OthersKept(p)
  <2>1. p = q
    BY <1>1 DEF IInv, TypeOK, Finishes, Release, ReleaseCheck, ReleaseSet,
       ReleaseRead, ReleaseStop, ReleaseStopFails, ReleaseFinish
  <2>2. CASE ReleaseStop(p) \/ ReleaseStopFails(p)
    BY <2>2 DEF IInv, TypeOK, OthersKept, ReleaseStop, ReleaseStopFails
  <2>3. CASE ReleaseFinish(p)
    BY <2>3 DEF IInv, TypeOK, OthersKept, ReleaseFinish, DropRuntime,
       ReleaseEpoch
  <2> QED
    BY <1>1, <2>1, <2>2, <2>3 DEF Finishes, Release, ReleaseCheck,
       ReleaseSet, ReleaseRead
<1>2. ~Request
  BY ConstantsAssumption DEF IInv, TypeOK, Finishes, Request, Register,
     Complete, AllocateBegin, Delete, OpenFrameSource, Resume, Spawn,
     StopPipeline, Proc
<1>3. ~Handler
  BY ConstantsAssumption DEF IInv, TypeOK, Finishes, Handler, AllocateStart,
     AllocateStartFails, AllocateDiskFails, ConstructFails, AttachReplaces,
     AttachFirst, StartPipeline, Spawn, StartFails, HandlerReturns, Proc
<1>4. ASSUME NEW t \in Thread
      PROVE  ~(PipelineThread(t) \/ LoopFails(t))
  BY DEF IInv, TypeOK, Finishes, PipelineThread, LoopEnds, LoopFails, LeaveLoop, ThreadReturns, Proc
<1>5. ASSUME NEW k \in Key
      PROVE  ~Receiver(k)
  BY DEF Finishes, Receiver, ReceiverExits, ReceiverEnd
<1>6. ~Crash /\ ~UNCHANGED vars
  BY DEF Finishes, Crash
<1> QED
  BY <1>1, <1>2, <1>3, <1>4, <1>5, <1>6 DEF Next

(* However late a release runs, and whoever holds the slot by then, it     *)
(* touches nothing but its own epoch.                                      *)
THEOREM StaleReleasesHarmless == Spec => StaleReleaseHarmless
<1>1. IInv /\ [Next]_vars => [\A p \in Proc : Finishes(p) => OthersKept(p)]_vars
  BY ReleaseSteps
<1> QED
  BY <1>1, Invariance, PTL DEF Spec, StaleReleaseHarmless, Finishes, OthersKept

-----------------------------------------------------------------------------
(* The service implements the lease.                                       *)

Granted == {k \in Key : row[k] # "none"}
Serving == {k \in Key : ffmpeg[k] = "running"}

LEMMA HolderIsActive ==
  ASSUME SingleActiveEpoch, NEW k \in Key, row[k] = "active"
  PROVE  LeaseHolder = k
  BY DEF SingleActiveEpoch, LeaseHolder, HasActiveEpoch

LEMMA NoActiveNoHolder ==
  ASSUME ~HasActiveEpoch
  PROVE  LeaseHolder = NoKey
  BY DEF LeaseHolder

LEMMA SameRowSameHolder ==
  ASSUME UNCHANGED row
  PROVE  UNCHANGED <<LeaseHolder, Granted>>
  BY DEF LeaseHolder, HasActiveEpoch, Granted

LEMMA ServingAtMostOne ==
  ASSUME IInv, NEW j \in Key, NEW k \in Key,
         ffmpeg[j] = "running", ffmpeg[k] = "running"
  PROVE  j = k
  BY DEF IInv, ReceiverBacked, SingleActiveEpoch

USE DEF Lease!Next, Lease!Grant, Lease!Serve, Lease!Cease, Lease!Release,
        Lease!leaseVars

LEMMA LeaseGrant ==
  ASSUME IInv, NEW s \in Session, NEW e \in Epoch, AllocateBegin(s, e)
  PROVE  Lease!Next
<1> DEFINE k == <<s, e>>
<1>1. k \in Key /\ row[k] = "none" /\ row' = [row EXCEPT ![k] = "active"]
  BY DEF AllocateBegin, CreateEpoch, IsNextEpoch, Key, Epoch
<1>2. LeaseHolder = NoKey
  BY NoActiveNoHolder DEF AllocateBegin, CreateEpoch
<1>3. row'[k] = "active" /\ \A j \in Key : row'[j] = "active" => j = k
  BY <1>1 DEF IInv, TypeOK, AllocateBegin, CreateEpoch, HasActiveEpoch
<1>4. LeaseHolder' = k
  BY <1>1, <1>3 DEF LeaseHolder, HasActiveEpoch
<1>5. k \notin Granted /\ Granted' = Granted \cup {k}
  BY <1>1 DEF IInv, TypeOK, Granted
<1>6. Serving' = Serving
  BY DEF AllocateBegin, CreateEpoch, Serving
<1> QED
  BY <1>1, <1>2, <1>4, <1>5, <1>6 DEF Granted, Serving

LEMMA LeaseServe ==
  ASSUME IInv, AllocateStart
  PROVE  Lease!Next
<1> DEFINE k == target[Loop]
<1>1. k \in Key /\ row[k] = "active" /\ ffmpeg[k] = "none"
  BY DEF IInv, Fresh, Targets, AllocateStart, Proc, Working
<1>2. LeaseHolder = k
  BY <1>1, HolderIsActive DEF IInv
<1>3. Serving = {}
  BY <1>1 DEF IInv, ReceiverBacked, SingleActiveEpoch, Serving
<1>4. Serving' = {k}
  BY <1>1, <1>3 DEF IInv, TypeOK, AllocateStart, Serving
<1>5. UNCHANGED <<LeaseHolder, Granted>>
  BY SameRowSameHolder DEF AllocateStart
<1> QED
  BY <1>1, <1>2, <1>3, <1>4, <1>5, ConstantsAssumption DEF Granted, Serving, Key, Epoch

LEMMA LeaseCease ==
  ASSUME IInv, UNCHANGED row, NEW k \in Key, ffmpeg[k] = "running",
         NEW v \in {"exited", "stuck"}, ffmpeg' = [ffmpeg EXCEPT ![k] = v]
  PROVE  Lease!Next
<1>1. UNCHANGED <<LeaseHolder, Granted>>
  BY SameRowSameHolder
<1>2. Serving' = {}
  BY ServingAtMostOne DEF IInv, TypeOK, Serving
<1> QED
  BY <1>1, <1>2 DEF Granted, Serving

LEMMA LeaseRelease ==
  ASSUME IInv, NEW k \in Key, ReleaseEpoch(k), UNCHANGED ffmpeg,
         row[k] = "active" => ffmpeg[k] # "running"
  PROVE  Lease!Next \/ UNCHANGED Lease!leaseVars
<1>1. UNCHANGED Serving
  BY DEF Serving
<1>2. CASE row[k] # "active"
  <2>1. UNCHANGED row
    BY <1>2 DEF IInv, TypeOK, ReleaseEpoch
  <2> QED
    BY <1>1, <2>1, SameRowSameHolder DEF Granted, Serving
<1>3. CASE row[k] = "active"
  <2>1. Serving = {}
    BY <1>3 DEF IInv, ReceiverBacked, SingleActiveEpoch, Serving
  <2>2. ~HasActiveEpoch'
    BY <1>3 DEF IInv, TypeOK, SingleActiveEpoch, ReleaseEpoch, HasActiveEpoch
  <2>3. LeaseHolder' = NoKey
    BY <2>2 DEF LeaseHolder
  <2>4. UNCHANGED Granted
    BY <1>3 DEF IInv, TypeOK, ReleaseEpoch, Granted
  <2> QED
    BY <1>1, <2>1, <2>3, <2>4 DEF Granted, Serving
<1> QED
  BY <1>2, <1>3

LEMMA LeaseStep ==
  ASSUME IInv, [Next]_vars
  PROVE  [Lease!Next]_Lease!leaseVars
<1>1. CASE UNCHANGED <<row, ffmpeg>>
  BY <1>1, SameRowSameHolder DEF Granted
<1>2. CASE Request
  BY <1>1, <1>2, LeaseGrant DEF Request, Register, Complete, Delete,
     OpenFrameSource, Resume, StopPipeline
<1>3. CASE AllocateStartFails
  BY <1>3, LeaseRelease DEF IInv, Fresh, Targets, AllocateStartFails, Proc,
     Working
<1>4. CASE Handler
  BY <1>1, <1>3, <1>4, LeaseServe DEF Handler, AllocateDiskFails,
     ConstructFails, AttachReplaces, AttachFirst, StartPipeline, StartFails,
     HandlerReturns
<1>5. ASSUME NEW p \in Proc, Release(p)
      PROVE  [Lease!Next]_Lease!leaseVars
  <2>1. CASE ReleaseStop(p)
    <3>1. target[p] \in Key
      BY <2>1 DEF IInv, Targets, ReleaseStop, Working
    <3>2. CASE ffmpeg[target[p]] = "running"
      BY <2>1, <3>1, <3>2, LeaseCease DEF ReleaseStop
    <3>3. CASE ffmpeg[target[p]] # "running"
      BY <1>1, <2>1, <3>1, <3>3 DEF IInv, TypeOK, ReleaseStop
    <3> QED
      BY <3>2, <3>3
  <2>2. CASE ReleaseStopFails(p)
    BY <2>2, LeaseCease DEF IInv, Targets, ReleaseStopFails, Working
  <2>3. CASE ReleaseFinish(p)
    BY <2>3, LeaseRelease DEF IInv, Targets, Stopped, ReleaseFinish, Working
  <2> QED
    BY <1>1, <1>5, <2>1, <2>2, <2>3 DEF Release, ReleaseCheck, ReleaseSet,
       ReleaseRead
<1>6. ASSUME NEW k \in Key, Receiver(k)
      PROVE  [Lease!Next]_Lease!leaseVars
  BY <1>1, <1>6, LeaseCease DEF Receiver, ReceiverExits, ReceiverEnd
<1>7. CASE Crash
  <2>1. UNCHANGED <<LeaseHolder, Granted>>
    BY <1>7, SameRowSameHolder DEF Crash
  <2>2. Serving' = {}
    BY <1>7 DEF IInv, TypeOK, Crash, Serving
  <2> QED
    BY <2>1, <2>2 DEF Granted, Serving
<1> QED
  BY <1>1, <1>2, <1>4, <1>5, <1>6, <1>7 DEF Next, PipelineThread, LoopEnds,
     LoopFails, LeaveLoop, ThreadReturns

(* Registration, allocation, binding, racing releases, failed starts,      *)
(* crashes and restarts together behave as a lease on one live slot.       *)
THEOREM LeaseImplemented == Spec => ImplementsLease
<1>1. Init => Lease!Init
  BY DEF Init, Lease!Init, LeaseHolder, HasActiveEpoch
<1>2. IInv /\ [Next]_vars => [Lease!Next]_Lease!leaseVars
  BY LeaseStep
<1> QED
  BY <1>1, <1>2, Invariance, PTL DEF Spec, ImplementsLease, Lease!Spec

-----------------------------------------------------------------------------
(* One inference consumer per live epoch.  The argument follows the epoch  *)
(* from open_frame_source through main._pipeline to the thread that reads  *)
(* it.                                                                     *)

(* Thread t reads an epoch the service still knows.                        *)
Reads(t) == pc[t] = "run" /\ target[t] \in runtimes

(* The handler has stopped the pipeline in the slot and will replace it.   *)
Replacing ==
  /\ pc[Loop] \in {"check", "set", "read", "stop", "finish", "return"}
  /\ op \in {"attach", "unstart", "stop"}

(* Whoever reads, is in the slot or is about to be, has claimed the epoch. *)
Claimed ==
  /\ \A t \in Thread : Reads(t) => target[t] \in attached
  /\ slot \in runtimes => slot \in attached
  /\ next \in runtimes => next \in attached

(* A thread reads the slot's epoch only while that pipeline runs, or until *)
(* the handler that stopped it has replaced it.                            *)
SlotRuns ==
  \A t \in Thread : Reads(t) /\ target[t] = slot =>
    slot \in running \/ Replacing

NoNext == pc[Loop] \in {"idle", "creating"} => next = NoKey

CInv ==
  /\ Claimed
  /\ SlotRuns
  /\ NoNext
  /\ SingleConsumer

(* The marker for no epoch is no epoch.                                    *)
LEMMA NoKeyNotKey == NoKey \notin Key
  BY ConstantsAssumption DEF Key, Epoch

-----------------------------------------------------------------------------
(* One lemma per action: it preserves each conjunct of CInv.               *)

LEMMA RegisterConsumer ==
  ASSUME IInv, CInv, NEW s \in Session, Register(s)
  PROVE  CInv'
<1>1. Claimed'
  BY DEF CInv, Claimed, Reads, Register
<1>2. SlotRuns'
  BY DEF CInv, SlotRuns, Reads, Replacing, Register
<1>3. NoNext'
  BY DEF CInv, NoNext, Register
<1>4. SingleConsumer'
  BY DEF CInv, SingleConsumer, Register
<1> QED
  BY <1>1, <1>2, <1>3, <1>4 DEF CInv

LEMMA CompleteConsumer ==
  ASSUME IInv, CInv, NEW s \in Session, Complete(s)
  PROVE  CInv'
<1>1. Claimed'
  BY DEF CInv, Claimed, Reads, Complete
<1>2. SlotRuns'
  BY DEF CInv, SlotRuns, Reads, Replacing, Complete
<1>3. NoNext'
  BY DEF CInv, NoNext, Complete
<1>4. SingleConsumer'
  BY DEF CInv, SingleConsumer, Complete
<1> QED
  BY <1>1, <1>2, <1>3, <1>4 DEF CInv

LEMMA AllocateBeginConsumer ==
  ASSUME IInv, CInv, NEW s \in Session, NEW e \in Epoch, AllocateBegin(s, e)
  PROVE  CInv'
<1>1. Claimed'
  BY DEF CInv, Claimed, Reads, AllocateBegin, CreateEpoch
<1>2. SlotRuns'
  BY DEF CInv, SlotRuns, Reads, Replacing, AllocateBegin, CreateEpoch
<1>3. NoNext'
  BY DEF CInv, NoNext, AllocateBegin, CreateEpoch
<1>4. SingleConsumer'
  BY DEF CInv, SingleConsumer, AllocateBegin, CreateEpoch
<1> QED
  BY <1>1, <1>2, <1>3, <1>4 DEF CInv

LEMMA DeleteConsumer ==
  ASSUME IInv, CInv, NEW k \in Key, Delete(k)
  PROVE  CInv'
<1>1. Claimed'
  BY DEF CInv, Claimed, Reads, Delete
<1>2. SlotRuns'
  BY DEF CInv, SlotRuns, Reads, Replacing, Delete
<1>3. NoNext'
  BY DEF CInv, NoNext, Delete
<1>4. SingleConsumer'
  BY DEF CInv, SingleConsumer, Delete
<1> QED
  BY <1>1, <1>2, <1>3, <1>4 DEF CInv

LEMMA OpenFrameSourceConsumer ==
  ASSUME IInv, CInv, NEW k \in Key, OpenFrameSource(k)
  PROVE  CInv'
<1>1. Claimed'
  BY DEF CInv, Claimed, Reads, OpenFrameSource
<1>2. SlotRuns'
  BY DEF CInv, SlotRuns, Reads, Replacing, OpenFrameSource
<1>3. NoNext'
  BY DEF IInv, TypeOK, CInv, NoNext, Proc, OpenFrameSource
<1>4. SingleConsumer'
  BY DEF CInv, Claimed, SingleConsumer, Reads, OpenFrameSource
<1> QED
  BY <1>1, <1>2, <1>3, <1>4 DEF CInv

LEMMA ResumeConsumer ==
  ASSUME IInv, CInv, NEW t \in Thread, Resume(t)
  PROVE  CInv'
<1>1. Claimed'
  BY DEF IInv, TypeOK, CInv, Claimed, Reads, Resume
<1>2. SlotRuns'
  BY DEF CInv, SlotRuns, Resume, Spawn
<1>3. NoNext'
  BY DEF CInv, NoNext, Resume
<1>4. SingleConsumer'
  BY DEF IInv, TypeOK, CInv, SlotRuns, NoNext, SingleConsumer, Reads,
     Replacing, Resume
<1> QED
  BY <1>1, <1>2, <1>3, <1>4 DEF CInv

LEMMA StopPipelineConsumer ==
  ASSUME IInv, CInv, StopPipeline
  PROVE  CInv'
<1>1. Claimed'
  BY DEF CInv, Claimed, Reads, StopPipeline, Call
<1>2. SlotRuns'
  BY DEF IInv, TypeOK, CInv, SlotRuns, Replacing, Proc, StopPipeline, Call
<1>3. NoNext'
  BY DEF CInv, NoNext, StopPipeline, Call
<1>4. SingleConsumer'
  BY DEF CInv, SingleConsumer, StopPipeline, Call
<1> QED
  BY <1>1, <1>2, <1>3, <1>4 DEF CInv

LEMMA AllocateStartConsumer ==
  ASSUME IInv, CInv, AllocateStart
  PROVE  CInv'
<1>1. Claimed'
  BY NoKeyNotKey DEF IInv, Fresh, Targets, CInv, Claimed, Reads, Proc,
     Working, AllocateStart
<1>2. SlotRuns'
  BY NoKeyNotKey DEF IInv, Fresh, Targets, CInv, SlotRuns, Reads,
     Replacing, AllocateStart
<1>3. NoNext'
  BY NoKeyNotKey DEF CInv, NoNext, AllocateStart
<1>4. SingleConsumer'
  BY NoKeyNotKey DEF IInv, Fresh, Targets, CInv, SingleConsumer,
     AllocateStart
<1> QED
  BY <1>1, <1>2, <1>3, <1>4 DEF CInv

LEMMA AllocateStartFailsConsumer ==
  ASSUME IInv, CInv, AllocateStartFails
  PROVE  CInv'
<1>1. Claimed'
  BY DEF CInv, Claimed, Reads, AllocateStartFails, Call
<1>2. SlotRuns'
  BY DEF CInv, SlotRuns, Reads, Replacing, AllocateStartFails, Call
<1>3. NoNext'
  BY DEF CInv, NoNext, AllocateStartFails, Call
<1>4. SingleConsumer'
  BY DEF CInv, SingleConsumer, AllocateStartFails, Call
<1> QED
  BY <1>1, <1>2, <1>3, <1>4 DEF CInv

LEMMA AllocateDiskFailsConsumer ==
  ASSUME IInv, CInv, AllocateDiskFails
  PROVE  CInv'
<1>1. Claimed'
  BY DEF CInv, Claimed, Reads, AllocateDiskFails
<1>2. SlotRuns'
  BY DEF CInv, SlotRuns, Reads, Replacing, AllocateDiskFails
<1>3. NoNext'
  BY DEF CInv, NoNext, AllocateDiskFails
<1>4. SingleConsumer'
  BY DEF CInv, SingleConsumer, AllocateDiskFails
<1> QED
  BY <1>1, <1>2, <1>3, <1>4 DEF CInv

LEMMA ConstructFailsConsumer ==
  ASSUME IInv, CInv, ConstructFails
  PROVE  CInv'
<1>1. Claimed'
  BY DEF CInv, Claimed, Reads, ConstructFails, Call
<1>2. SlotRuns'
  BY DEF CInv, SlotRuns, Reads, Replacing, ConstructFails, Call
<1>3. NoNext'
  BY DEF CInv, NoNext, ConstructFails, Call
<1>4. SingleConsumer'
  BY DEF CInv, SingleConsumer, ConstructFails, Call
<1> QED
  BY <1>1, <1>2, <1>3, <1>4 DEF CInv

LEMMA AttachReplacesConsumer ==
  ASSUME IInv, CInv, AttachReplaces
  PROVE  CInv'
<1>1. Claimed'
  BY DEF CInv, Claimed, Reads, AttachReplaces
<1>2. SlotRuns'
  BY DEF IInv, TypeOK, CInv, SlotRuns, Replacing, Proc, AttachReplaces
<1>3. NoNext'
  BY DEF CInv, NoNext, AttachReplaces
<1>4. SingleConsumer'
  BY DEF CInv, SingleConsumer, AttachReplaces
<1> QED
  BY <1>1, <1>2, <1>3, <1>4 DEF CInv

LEMMA AttachFirstConsumer ==
  ASSUME IInv, CInv, AttachFirst
  PROVE  CInv'
<1>1. Claimed'
  BY DEF CInv, Claimed, Reads, AttachFirst
<1>2. SlotRuns'
  BY DEF CInv, SlotRuns, SingleConsumer, Reads, AttachFirst
<1>3. NoNext'
  BY DEF CInv, NoNext, AttachFirst
<1>4. SingleConsumer'
  BY DEF CInv, SingleConsumer, AttachFirst
<1> QED
  BY <1>1, <1>2, <1>3, <1>4 DEF CInv

LEMMA StartPipelineConsumer ==
  ASSUME IInv, CInv, NEW t \in Thread, StartPipeline(t)
  PROVE  CInv'
<1>1. Claimed'
  BY NoKeyNotKey DEF IInv, TypeOK, CInv, Claimed, Reads, Proc,
     StartPipeline
<1>2. SlotRuns'
  BY NoKeyNotKey DEF IInv, TypeOK, CInv, SlotRuns, Reads, Replacing, Proc,
     StartPipeline, Spawn
<1>3. NoNext'
  BY NoKeyNotKey DEF CInv, NoNext, StartPipeline
<1>4. SingleConsumer'
  BY NoKeyNotKey DEF IInv, TypeOK, CInv, SingleConsumer, Proc,
     StartPipeline
<1> QED
  BY <1>1, <1>2, <1>3, <1>4 DEF CInv

LEMMA StartFailsConsumer ==
  ASSUME IInv, CInv, StartFails
  PROVE  CInv'
<1>1. Claimed'
  BY DEF CInv, Claimed, Reads, StartFails
<1>2. SlotRuns'
  BY DEF IInv, TypeOK, CInv, SlotRuns, Replacing, Proc, StartFails
<1>3. NoNext'
  BY DEF CInv, NoNext, StartFails
<1>4. SingleConsumer'
  BY DEF CInv, SingleConsumer, StartFails
<1> QED
  BY <1>1, <1>2, <1>3, <1>4 DEF CInv

LEMMA HandlerReturnsConsumer ==
  ASSUME IInv, CInv, HandlerReturns
  PROVE  CInv'
<1> USE NoKeyNotKey, ConstantsAssumption DEF IInv, TypeOK, Targets, Reads, Proc
<1>1. CASE op = "attach"
  <2>1. slot' = next /\ next' = next /\ pc'[Loop] = "starting"
    BY <1>1 DEF HandlerReturns
  <2>2. Claimed' /\ NoNext'
    BY <2>1 DEF HandlerReturns, CInv, Claimed, NoNext
  <2>3. SlotRuns' /\ SingleConsumer'
    BY <2>1 DEF HandlerReturns, CInv, SlotRuns, SingleConsumer
  <2> QED
    BY <2>2, <2>3 DEF CInv
<1>2. CASE op # "attach"
  <2>1. next' = NoKey /\ slot' = IF op \in {"unstart", "stop"} THEN NoKey ELSE slot
    BY <1>2 DEF HandlerReturns
  <2>2. Claimed' /\ NoNext'
    BY <2>1 DEF HandlerReturns, CInv, Claimed, NoNext
  <2>3. SlotRuns'
    BY <1>2, <2>1 DEF HandlerReturns, CInv, SlotRuns, Replacing
  <2>4. SingleConsumer'
    BY <2>1 DEF HandlerReturns, CInv, SingleConsumer
  <2> QED
    BY <2>2, <2>3, <2>4 DEF CInv
<1> QED
  BY <1>1, <1>2

LEMMA LeaveLoopConsumer ==
  ASSUME IInv, CInv, NEW t \in Thread, LeaveLoop(t)
  PROVE  CInv'
<1>1. Claimed'
  BY DEF CInv, Claimed, Reads, LeaveLoop
<1>2. SlotRuns'
  BY DEF IInv, TypeOK, CInv, SlotRuns, SingleConsumer, Reads, Replacing,
     Proc, LeaveLoop
<1>3. NoNext'
  BY DEF CInv, NoNext, LeaveLoop
<1>4. SingleConsumer'
  BY DEF CInv, SingleConsumer, LeaveLoop
<1> QED
  BY <1>1, <1>2, <1>3, <1>4 DEF CInv

LEMMA ThreadReturnsConsumer ==
  ASSUME IInv, CInv, NEW t \in Thread, ThreadReturns(t)
  PROVE  CInv'
<1>1. Claimed'
  BY DEF CInv, Claimed, Reads, ThreadReturns
<1>2. SlotRuns'
  BY DEF CInv, SlotRuns, Reads, Replacing, ThreadReturns
<1>3. NoNext'
  BY DEF CInv, NoNext, ThreadReturns
<1>4. SingleConsumer'
  BY DEF CInv, SingleConsumer, ThreadReturns
<1> QED
  BY <1>1, <1>2, <1>3, <1>4 DEF CInv

LEMMA ReleaseCheckConsumer ==
  ASSUME IInv, CInv, NEW p \in Proc, ReleaseCheck(p)
  PROVE  CInv'
<1>1. Claimed'
  BY DEF CInv, Claimed, Reads, ReleaseCheck
<1>2. SlotRuns'
  BY DEF CInv, SlotRuns, Reads, Replacing, ReleaseCheck
<1>3. NoNext'
  BY DEF CInv, NoNext, ReleaseCheck
<1>4. SingleConsumer'
  BY DEF CInv, SingleConsumer, ReleaseCheck
<1> QED
  BY <1>1, <1>2, <1>3, <1>4 DEF CInv

LEMMA ReleaseSetConsumer ==
  ASSUME IInv, CInv, NEW p \in Proc, ReleaseSet(p)
  PROVE  CInv'
<1>1. Claimed'
  BY DEF CInv, Claimed, Reads, ReleaseSet, Goto
<1>2. SlotRuns'
  BY DEF CInv, SlotRuns, Reads, Replacing, ReleaseSet, Goto
<1>3. NoNext'
  BY DEF CInv, NoNext, ReleaseSet, Goto
<1>4. SingleConsumer'
  BY DEF CInv, SingleConsumer, ReleaseSet, Goto
<1> QED
  BY <1>1, <1>2, <1>3, <1>4 DEF CInv

LEMMA ReleaseReadConsumer ==
  ASSUME IInv, CInv, NEW p \in Proc, ReleaseRead(p)
  PROVE  CInv'
<1>1. Claimed'
  BY DEF CInv, Claimed, Reads, ReleaseRead
<1>2. SlotRuns'
  BY DEF CInv, SlotRuns, Reads, Replacing, ReleaseRead
<1>3. NoNext'
  BY DEF CInv, NoNext, ReleaseRead
<1>4. SingleConsumer'
  BY DEF CInv, SingleConsumer, ReleaseRead
<1> QED
  BY <1>1, <1>2, <1>3, <1>4 DEF CInv

LEMMA ReleaseStopConsumer ==
  ASSUME IInv, CInv, NEW p \in Proc, ReleaseStop(p)
  PROVE  CInv'
<1>1. Claimed'
  BY DEF CInv, Claimed, Reads, ReleaseStop
<1>2. SlotRuns'
  BY DEF CInv, SlotRuns, Reads, Replacing, ReleaseStop
<1>3. NoNext'
  BY DEF CInv, NoNext, ReleaseStop
<1>4. SingleConsumer'
  BY DEF CInv, SingleConsumer, ReleaseStop
<1> QED
  BY <1>1, <1>2, <1>3, <1>4 DEF CInv

LEMMA ReleaseStopFailsConsumer ==
  ASSUME IInv, CInv, NEW p \in Proc, ReleaseStopFails(p)
  PROVE  CInv'
<1>1. Claimed'
  BY DEF CInv, Claimed, Reads, ReleaseStopFails
<1>2. SlotRuns'
  BY DEF CInv, SlotRuns, Reads, Replacing, ReleaseStopFails
<1>3. NoNext'
  BY DEF CInv, NoNext, ReleaseStopFails
<1>4. SingleConsumer'
  BY DEF CInv, SingleConsumer, ReleaseStopFails
<1> QED
  BY <1>1, <1>2, <1>3, <1>4 DEF CInv

LEMMA ReleaseFinishConsumer ==
  ASSUME IInv, CInv, NEW p \in Proc, ReleaseFinish(p)
  PROVE  CInv'
<1>1. Claimed'
  BY DEF CInv, Claimed, Reads, ReleaseFinish, DropRuntime
<1>2. SlotRuns'
  BY DEF CInv, SlotRuns, Reads, Replacing, ReleaseFinish, DropRuntime
<1>3. NoNext'
  BY DEF CInv, NoNext, ReleaseFinish
<1>4. SingleConsumer'
  BY DEF CInv, SingleConsumer, ReleaseFinish, DropRuntime
<1> QED
  BY <1>1, <1>2, <1>3, <1>4 DEF CInv

LEMMA ReceiverExitsConsumer ==
  ASSUME IInv, CInv, NEW k \in Key, ReceiverExits(k)
  PROVE  CInv'
<1>1. Claimed'
  BY DEF CInv, Claimed, Reads, ReceiverExits
<1>2. SlotRuns'
  BY DEF CInv, SlotRuns, Reads, Replacing, ReceiverExits
<1>3. NoNext'
  BY DEF CInv, NoNext, ReceiverExits
<1>4. SingleConsumer'
  BY DEF CInv, SingleConsumer, ReceiverExits
<1> QED
  BY <1>1, <1>2, <1>3, <1>4 DEF CInv

LEMMA ReceiverEndConsumer ==
  ASSUME IInv, CInv, NEW k \in Key, ReceiverEnd(k)
  PROVE  CInv'
<1>1. Claimed'
  BY DEF CInv, Claimed, Reads, ReceiverEnd
<1>2. SlotRuns'
  BY DEF CInv, SlotRuns, Reads, Replacing, ReceiverEnd
<1>3. NoNext'
  BY DEF CInv, NoNext, ReceiverEnd
<1>4. SingleConsumer'
  BY DEF CInv, SingleConsumer, ReceiverEnd
<1> QED
  BY <1>1, <1>2, <1>3, <1>4 DEF CInv

LEMMA CrashConsumer ==
  ASSUME IInv, CInv, Crash
  PROVE  CInv'
<1>1. Claimed'
  BY DEF CInv, Claimed, Reads, Crash
<1>2. SlotRuns'
  BY DEF CInv, SlotRuns, Reads, Crash
<1>3. NoNext'
  BY DEF CInv, NoNext, Crash
<1>4. SingleConsumer'
  BY DEF CInv, SingleConsumer, Crash
<1> QED
  BY <1>1, <1>2, <1>3, <1>4 DEF CInv

-----------------------------------------------------------------------------
LEMMA InitConsumer ==
  ASSUME Init
  PROVE  CInv
  BY DEF Init, CInv, Claimed, SlotRuns, NoNext, SingleConsumer, Reads, Proc

LEMMA StepConsumer ==
  ASSUME IInv, CInv, [Next]_vars
  PROVE  CInv'
<1>1. CASE Request
  BY <1>1, RegisterConsumer, CompleteConsumer, AllocateBeginConsumer,
     DeleteConsumer, OpenFrameSourceConsumer, ResumeConsumer,
     StopPipelineConsumer DEF Request
<1>2. CASE Handler
  BY <1>2, AllocateStartConsumer, AllocateStartFailsConsumer,
     AllocateDiskFailsConsumer, ConstructFailsConsumer,
     AttachReplacesConsumer, AttachFirstConsumer, StartPipelineConsumer,
     StartFailsConsumer, HandlerReturnsConsumer DEF Handler
<1>3. ASSUME NEW t \in Thread, PipelineThread(t) \/ LoopFails(t)
      PROVE  CInv'
  BY <1>3, LeaveLoopConsumer, ThreadReturnsConsumer DEF PipelineThread,
     LoopEnds, LoopFails
<1>4. ASSUME NEW p \in Proc, Release(p)
      PROVE  CInv'
  BY <1>4, ReleaseCheckConsumer, ReleaseSetConsumer, ReleaseReadConsumer,
     ReleaseStopConsumer, ReleaseStopFailsConsumer, ReleaseFinishConsumer
     DEF Release
<1>5. ASSUME NEW k \in Key, Receiver(k)
      PROVE  CInv'
  BY <1>5, ReceiverExitsConsumer, ReceiverEndConsumer DEF Receiver
<1>6. CASE Crash
  BY <1>6, CrashConsumer
<1>7. CASE UNCHANGED vars
  BY <1>7 DEF CInv, Claimed, SlotRuns, NoNext, SingleConsumer, Reads,
     Replacing
<1> QED
  BY <1>1, <1>2, <1>3, <1>4, <1>5, <1>6, <1>7 DEF Next

(* consumer_attached does what it is for: however pipelines are started,   *)
(* replaced, stopped and resumed, and however their threads lag behind,    *)
(* no live epoch ever has two readers, nor one more waiting to start.      *)
THEOREM OneConsumer == Spec => []SingleConsumer
<1>1. Init => CInv
  BY InitConsumer
<1>2. IInv /\ CInv /\ [Next]_vars => CInv'
  BY StepConsumer
<1>3. CInv => SingleConsumer
  BY DEF CInv
<1> QED
  BY <1>1, <1>2, <1>3, Invariance, PTL DEF Spec

=============================================================================
