------------------------ MODULE TeamCalibrationProofs ------------------------
(***************************************************************************)
(* For any number of tracks, jobs and samples: types, samples that were    *)
(* collected under the label the track has now, and a bundle that stays    *)
(* the one that was validated.                                             *)
(***************************************************************************)
EXTENDS TeamCalibration, TLAPS

USE DEF Label, NoLabel, NoSamples, Job

SampleRecord == [label : Label \cup {NoLabel}, count : 0 .. MaxSamples]

(* A session that was validated keeps the bank its bundle was built from.  *)
Validated ==
  state \in {"ready", "running"} => bundle = bank /\ Sufficient(bank)

Inv == TypeOK /\ SamplesUnderLabel /\ Validated

(* The empty bank is a bank, and holds nothing under a wrong label.        *)
LEMMA EmptyBankType ==
  /\ EmptyBank \in [Track -> SampleRecord]
  /\ \A t \in Track : EmptyBank[t].count = 0
  BY BoundsAssumption DEF EmptyBank, SampleRecord

LEMMA NumbersType == 0 \in 0 .. MaxJob /\ \A j \in Job : j \in 0 .. MaxJob
  BY BoundsAssumption

(* What session.start and reset leave behind.                              *)
LEMMA WipeKeeps ==
  ASSUME Inv, NEW next \in State, next \notin {"ready", "running"}, Wipe(next)
  PROVE  /\ SamplesUnderLabel' /\ Validated'
         /\ state' \in State /\ labels' \in [Track -> Label \cup {NoLabel}]
         /\ bank' \in [Track -> SampleRecord] /\ bundle' \in [Track -> SampleRecord]
         /\ clip' \in 0 .. MaxJob /\ start' \in BOOLEAN
<1>1. /\ state' = next /\ labels' = [t \in Track |-> NoLabel]
      /\ bank' = EmptyBank /\ bundle' = EmptyBank /\ clip' = 0 /\ start' = FALSE
  BY DEF Wipe
<1>2. SamplesUnderLabel'
  <2>1. \A t \in Track : bank'[t].count = 0
    BY <1>1, EmptyBankType
  <2> QED BY <2>1 DEF SamplesUnderLabel
<1>3. Validated'
  BY <1>1 DEF Validated
<1>4. labels' \in [Track -> Label \cup {NoLabel}]
  BY <1>1
<1>5. clip' \in 0 .. MaxJob /\ start' \in BOOLEAN
  BY <1>1, NumbersType
<1> QED BY <1>1, <1>2, <1>3, <1>4, <1>5, EmptyBankType

(* observe_frame samples under the label of the moment, and nothing at all *)
(* once the session is validated.                                          *)
LEMMA ObserveKeeps ==
  ASSUME Inv, NEW visible \in SUBSET Track, ObserveFrame(visible)
  PROVE  Inv'
<1> USE DEF Inv
<1>1. \A t \in Track : bank[t] \in SampleRecord /\ labels[t] \in Label \cup {NoLabel}
  BY DEF TypeOK, SampleRecord
<1>2. \A t \in Track : [label |-> labels[t], count |-> bank[t].count + 1] \in SampleRecord
                       \/ bank[t].count >= MaxSamples
  BY <1>1, BoundsAssumption DEF SampleRecord
<1>3. bank' \in [Track -> SampleRecord]
  <2> SUFFICES ASSUME NEW t \in Track
               PROVE  (IF /\ Accepting /\ t \in visible
                          /\ labels[t] # NoLabel /\ bank[t].count < MaxSamples
                       THEN [label |-> labels[t], count |-> bank[t].count + 1]
                       ELSE bank[t]) \in SampleRecord
    BY DEF ObserveFrame, Sampled
  <2> QED BY <1>1, BoundsAssumption DEF SampleRecord
<1>4. TypeOK'
  BY <1>3 DEF TypeOK, ObserveFrame, Sampled, SampleRecord, State, service
<1>5. SamplesUnderLabel'
  <2> SUFFICES ASSUME NEW t \in Track, bank'[t].count > 0
               PROVE  bank'[t].label = labels'[t]
    BY DEF SamplesUnderLabel
  <2>1. CASE bank'[t] = bank[t]
    BY <2>1 DEF SamplesUnderLabel, ObserveFrame, Sampled
  <2>2. CASE bank'[t] = [label |-> labels[t], count |-> bank[t].count + 1]
    BY <2>2 DEF ObserveFrame, Sampled
  <2> QED BY <2>1, <2>2 DEF ObserveFrame, Sampled
<1>6. Validated'
  <2>1. CASE Accepting
    BY <2>1 DEF Accepting, Validated, ObserveFrame, Sampled
  <2>2. CASE ~Accepting
    <3>1. bank' = [t \in Track |-> bank[t]]
      BY <2>2 DEF ObserveFrame, Sampled
    <3>2. bank' = bank
      BY <3>1 DEF TypeOK
    <3> QED BY <3>2 DEF Validated, ObserveFrame, Sampled, Sufficient, Team, Evaluable
  <2> QED BY <2>1, <2>2
<1> QED BY <1>4, <1>5, <1>6

(* A label that changes takes the samples under the old one with it.       *)
LEMMA LabelKeeps ==
  ASSUME Inv, NEW t \in Track, NEW l \in Label \cup {NoLabel},
         NEW n \in 0 .. MaxSamples, LabelTrack(t, l, n)
  PROVE  Inv'
<1> USE DEF Inv
<1>1. PICK r \in SampleRecord :
        /\ bank' = [bank EXCEPT ![t] = r]
        /\ r.count > 0 => r.label = l
  <2>1. CASE l = NoLabel \/ n = 0
    <3>1. NoSamples \in SampleRecord /\ ~(NoSamples.count > 0)
      BY BoundsAssumption DEF SampleRecord
    <3> QED BY <2>1, <3>1 DEF LabelTrack, ReplaceSamples
  <2>2. CASE ~(l = NoLabel \/ n = 0)
    <3>1. [label |-> l, count |-> n] \in SampleRecord
      BY DEF SampleRecord
    <3> QED BY <2>2, <3>1 DEF LabelTrack, ReplaceSamples
  <2> QED BY <2>1, <2>2
<1>2. TypeOK'
  BY <1>1 DEF TypeOK, LabelTrack, SampleRecord, State, Accepting, service
<1>3. SamplesUnderLabel'
  <2> SUFFICES ASSUME NEW u \in Track, bank'[u].count > 0
               PROVE  bank'[u].label = labels'[u]
    BY DEF SamplesUnderLabel
  <2>1. CASE u = t
    BY <1>1, <2>1 DEF TypeOK, LabelTrack
  <2>2. CASE u # t
    BY <1>1, <2>2 DEF TypeOK, LabelTrack, SamplesUnderLabel
  <2> QED BY <2>1, <2>2
<1>4. Validated'
  BY DEF Validated, LabelTrack, Accepting
<1> QED BY <1>2, <1>3, <1>4

(* Every other step leaves labels and samples alone.                       *)
LEMMA Untouched ==
  ASSUME Inv, UNCHANGED <<labels, bank>>
  PROVE  SamplesUnderLabel'
  BY DEF Inv, SamplesUnderLabel

LEMMA Carried ==
  ASSUME Inv, UNCHANGED <<bank, bundle>>,
         state' \in {"ready", "running"} => state \in {"ready", "running"}
  PROVE  Validated'
  BY DEF Inv, Validated, Sufficient, Team, Evaluable

(* The clip handlers change no label and no sample, except by forgetting   *)
(* them all.                                                               *)
LEMMA ClipKeeps ==
  ASSUME Inv, Preview \/ StartClip \/ Reset \/ \E j \in Job : FinishClip(j)
  PROVE  Inv'
<1>1. CASE Preview
  <2>1. Wipe("source_preview") BY <1>1 DEF Preview, LoadSource, BeginSourcePreview
  <2>2. TypeOK'
    BY <1>1, <2>1, WipeKeeps, BoundsAssumption
    DEF Inv, TypeOK, Preview, LoadSource, BeginSourcePreview, State, SampleRecord
  <2> QED BY <2>1, <2>2, WipeKeeps DEF Inv, State
<1>2. CASE StartClip
  <2>1. TypeOK' BY <1>2 DEF Inv, TypeOK, StartClip, BeginClipSelecting, State, service
  <2> QED BY <1>2, <2>1, Untouched, Carried DEF Inv, StartClip, BeginClipSelecting
<1>3. CASE Reset
  <2>1. Wipe("idle") BY <1>3 DEF Reset, ResetSession
  <2>2. TypeOK'
    BY <1>3, <2>1, WipeKeeps, NumbersType
    DEF Inv, TypeOK, Reset, ResetSession, State, SampleRecord
  <2> QED BY <2>1, <2>2, WipeKeeps DEF Inv, State
<1>4. ASSUME NEW j \in Job, FinishClip(j) PROVE Inv'
  <2>1. at' \in [Job -> {"none", "run", "written", "failing", "ended"}]
    BY <1>4 DEF Inv, TypeOK, FinishClip, BeginProcessing, session
  <2>2. job' \in 0 .. MaxJob /\ clip' \in 0 .. MaxJob /\ worker' \in 0 .. MaxJob
    BY <1>4, NumbersType DEF Inv, TypeOK, FinishClip, BeginProcessing, session
  <2>3. TypeOK' BY <1>4, <2>1, <2>2 DEF Inv, TypeOK, FinishClip, BeginProcessing, session, State
  <2>4. UNCHANGED <<labels, bank, bundle>>
        /\ (state' \in {"ready", "running"} => state \in {"ready", "running"})
    BY <1>4 DEF FinishClip, BeginProcessing, session
  <2> QED BY <2>3, <2>4, Untouched, Carried DEF Inv
<1> QED BY <1>1, <1>2, <1>3, <1>4

(* No worker makes a session ready: one that ends or fails takes it to     *)
(* "review" or back to the selection of a clip.                            *)
LEMMA WorkerKeeps ==
  ASSUME Inv, NEW j \in Job, Worker(j)
  PROVE  Inv'
<1>1. TypeOK'
  BY DEF Inv, TypeOK, Worker, WorkerWrites, WorkerRaises, WorkerCompletes,
         WorkerFails, WorkerMove, SetState, State, session, service
<1>2. UNCHANGED <<labels, bank, bundle>>
      /\ (state' \in {"ready", "running"} => state \in {"ready", "running"})
  BY DEF Worker, WorkerWrites, WorkerRaises, WorkerCompletes, WorkerFails,
         SetState, session
<1> QED BY <1>1, <1>2, Untouched, Carried DEF Inv

(* Starting a calibration over the cameras.                                *)
LEMMA LiveKeeps ==
  ASSUME Inv, StartLive \/ StartLiveOk \/ StartLiveFails
  PROVE  Inv'
<1>1. CASE StartLive
  <2>1. Wipe("calibrating") BY <1>1 DEF StartLive
  <2>2. TypeOK'
    BY <1>1, <2>1, WipeKeeps DEF Inv, TypeOK, StartLive, State, SampleRecord, service
  <2> QED BY <2>1, <2>2, WipeKeeps DEF Inv, State
<1>2. CASE StartLiveOk
  <2>1. TypeOK' BY <1>2 DEF Inv, TypeOK, StartLiveOk, session, service
  <2> QED BY <1>2, <2>1, Untouched, Carried DEF Inv, StartLiveOk, session
<1>3. CASE StartLiveFails
  <2>1. Wipe("idle") BY <1>3 DEF StartLiveFails, ResetSession
  <2>2. TypeOK'
    BY <1>3, <2>1, WipeKeeps
    DEF Inv, TypeOK, StartLiveFails, ResetSession, State, SampleRecord, service
  <2> QED BY <2>1, <2>2, WipeKeeps DEF Inv, State
<1> QED BY <1>1, <1>2, <1>3

(* Validation: only a sufficient bank makes a session ready, and that bank *)
(* is the one the bundle is built from.                                    *)
LEMMA ValidateKeeps ==
  ASSUME Inv, ValidateFails \/ ValidatePasses \/ ValidateRaises
  PROVE  Inv'
<1>1. UNCHANGED <<labels, bank>>
  BY DEF ValidateFails, ValidatePasses, ValidateRaises, SetState
<1>2. TypeOK'
  BY DEF Inv, TypeOK, ValidateFails, ValidatePasses, ValidateRaises, SetState,
         State, service, SampleRecord
<1>3. Validated'
  <2>1. CASE ValidatePasses
    BY <2>1, <1>1 DEF Validated, ValidatePasses, Sufficient, Team, Evaluable
  <2>2. CASE ~ValidatePasses
    BY <2>2 DEF Validated, ValidateFails, ValidateRaises, SetState
  <2> QED BY <2>1, <2>2
<1> QED BY <1>1, <1>2, <1>3, Untouched DEF Inv

(* The gate, and the end of a pipeline.                                    *)
LEMMA GateKeeps ==
  ASSUME Inv, PipelineStop \/ \E required \in BOOLEAN : PipelineStart(required)
  PROVE  Inv'
<1>1. CASE PipelineStop
  <2>1. TypeOK' BY <1>1 DEF Inv, TypeOK, PipelineStop, session, service
  <2> QED BY <1>1, <2>1, Untouched, Carried DEF Inv, PipelineStop, session
<1>2. ASSUME NEW required \in BOOLEAN, PipelineStart(required) PROVE Inv'
  <2>1. TypeOK'
    BY <1>2 DEF Inv, TypeOK, PipelineStart, MarkRunning, SetState, State, service
  <2>2. /\ UNCHANGED <<labels, bank, bundle>>
        /\ state' \in {"ready", "running"} => state \in {"ready", "running"}
    BY <1>2 DEF PipelineStart, MarkRunning, SetState
  <2> QED BY <2>1, <2>2, Untouched, Carried DEF Inv
<1> QED BY <1>1, <1>2

LEMMA InitInv == Init => Inv
<1> SUFFICES ASSUME Init PROVE Inv
  OBVIOUS
<1>1. TypeOK
  <2>1. bank \in [Track -> SampleRecord] /\ bundle \in [Track -> SampleRecord]
    BY EmptyBankType DEF Init, NewSession, NewService
  <2>2. labels \in [Track -> Label \cup {NoLabel}]
    BY DEF Init, NewSession, NewService
  <2>3. at \in [Job -> {"none", "run", "written", "failing", "ended"}]
    BY DEF Init, NewSession, NewService
  <2>4. 0 \in 0 .. MaxJob
    BY BoundsAssumption
  <2> QED BY <2>1, <2>2, <2>3, <2>4 DEF Init, NewSession, NewService, TypeOK, State, SampleRecord
<1> QED BY <1>1, EmptyBankType DEF Inv, Init, NewSession, NewService, SamplesUnderLabel, Validated

LEMMA StepInv == Inv /\ [Next]_vars => Inv'
<1> SUFFICES ASSUME Inv, [Next]_vars PROVE Inv'
  OBVIOUS
<1>1. CASE UNCHANGED vars
  <2>1. TypeOK' BY <1>1 DEF Inv, TypeOK, vars, session, service
  <2> QED BY <1>1, <2>1, Untouched, Carried DEF Inv, vars, session
<1>2. ASSUME NEW visible \in SUBSET Track, ObserveFrame(visible) PROVE Inv'
  BY <1>2, ObserveKeeps
<1>3. ASSUME NEW t \in Track, NEW l \in Label \cup {NoLabel},
             NEW n \in 0 .. MaxSamples, LabelTrack(t, l, n)
      PROVE  Inv'
  BY <1>3, LabelKeeps
<1>4. ASSUME NEW j \in Job, Worker(j) PROVE Inv'
  BY <1>4, WorkerKeeps
<1> QED
  BY <1>1, <1>2, <1>3, <1>4, ClipKeeps, LiveKeeps, ValidateKeeps, GateKeeps
  DEF Next

(* The inductive invariant of the calibration session.                     *)
THEOREM Invariance == Spec => []Inv
  BY InitInv, StepInv, PTL DEF Spec

(* Types for any tracks, jobs and thresholds: no track ever holds more     *)
(* samples than max_samples_per_track, whoever samples it.                 *)
THEOREM TypeCorrect == Spec => []TypeOK
  BY Invariance, PTL DEF Inv

(* No track keeps samples from before its label changed.                   *)
THEOREM LabelsKept == Spec => []SamplesUnderLabel
  BY Invariance, PTL DEF Inv

(* The match runs on what was validated: the bundle is the bank, and the   *)
(* bank meets the thresholds.                                              *)
THEOREM BundleCertified == Spec => []CertifiedBundle
<1>1. Inv => CertifiedBundle
  BY DEF Inv, CertifiedBundle, CanRun, Validated
<1> QED BY <1>1, Invariance, PTL
=============================================================================
