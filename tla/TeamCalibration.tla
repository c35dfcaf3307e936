--------------------------- MODULE TeamCalibration ---------------------------
(***************************************************************************)
(* The pre-match team calibration of app/classification/team_calibration:  *)
(* TeamCalibrationSession (labels, samples, validation),                   *)
(* CalibrationClipService (the preview and the clip its worker thread      *)
(* processes), their HTTP handlers and the gate of pipeline_start.         *)
(*                                                                         *)
(* Processes.  The event loop runs one handler at a time, in one step,     *)
(* except POST /start, which builds a pipeline between session.start and   *)
(* its answer.  Worker threads and the thread of a calibration pipeline    *)
(* (observe_frame) run meanwhile; every method of the session is one       *)
(* critical section.                                                       *)
(*                                                                         *)
(* A clip, its job and its worker share a number; 0 is "none".  MaxJob     *)
(* bounds the jobs.  Whether features separate the teams, and whether      *)
(* appearance features are there, is a choice made when a session is       *)
(* validated.  Label "role" stands for both goalkeeper labels and referee. *)
(***************************************************************************)
EXTENDS Naturals, FiniteSets

CONSTANTS
  Track,        \* track ids
  MaxJob,       \* bound on clip jobs
  MinTracks,    \* min_tracks_per_team
  MinSamples,   \* min_samples_per_track
  MaxSamples    \* max_samples_per_track

ASSUME BoundsAssumption ==
  /\ IsFiniteSet(Track)
  /\ MaxJob \in Nat \ {0}
  /\ MinTracks \in Nat \ {0} /\ MinSamples \in Nat \ {0}
  /\ MaxSamples \in Nat /\ MinSamples <= MaxSamples

Job == 1 .. MaxJob
Label == {"home", "away", "role"}
NoLabel == "none"
NoSamples == [label |-> NoLabel, count |-> 0]
EmptyBank == [t \in Track |-> NoSamples]

VARIABLES
  state,        \* TeamCalibrationSession._state
  labels,       \* _labels
  bank,         \* _feature_bank: the label and number of a track's samples
  clip,         \* _clip_id
  bundle,       \* _bundle: the bank it was built from, EmptyBank for none
  start,        \* whether _clip_start_ms is set
  loaded,       \* whether the clip service has a source
  job,          \* CalibrationClipService._job
  worker,       \* the job of CalibrationClipService._worker
  at,           \* where the worker of each job is
  metadata,     \* the jobs whose metadata.json exists
  observer,     \* the calibration pipeline: "off", "on", "late" (stopped)
  handler       \* "idle" or "starting" (POST /start builds a pipeline)

session == <<state, labels, bank, clip, bundle, start>>
service == <<loaded, job, worker, metadata>>
vars == <<session, service, at, observer, handler>>

State == {"idle", "source_preview", "clip_selecting", "processing", "review",
          "calibrating", "validating", "ready", "running"}

TypeOK ==
  /\ state \in State
  /\ labels \in [Track -> Label \cup {NoLabel}]
  /\ bank \in [Track -> [label : Label \cup {NoLabel}, count : 0 .. MaxSamples]]
  /\ bundle \in [Track -> [label : Label \cup {NoLabel}, count : 0 .. MaxSamples]]
  /\ clip \in 0 .. MaxJob /\ job \in 0 .. MaxJob /\ worker \in 0 .. MaxJob
  /\ start \in BOOLEAN /\ loaded \in BOOLEAN
  /\ at \in [Job -> {"none", "run", "written", "failing", "ended"}]
  /\ metadata \subseteq Job
  /\ observer \in {"off", "on", "late"}
  /\ handler \in {"idle", "starting"}

(* The session and the clip service as the server constructs them.         *)
NewSession ==
  /\ state = "idle" /\ labels = [t \in Track |-> NoLabel]
  /\ bank = EmptyBank /\ bundle = EmptyBank
  /\ clip = 0 /\ start = FALSE

NewService == loaded = FALSE /\ job = 0 /\ worker = 0 /\ metadata = {}

Init ==
  /\ NewSession /\ NewService
  /\ at = [j \in Job |-> "none"]
  /\ observer = "off" /\ handler = "idle"

Alive(j) == j # 0 /\ at[j] \in {"run", "written", "failing"}

(* TeamCalibrationSession.start and reset forget everything.               *)
Wipe(next) ==
  /\ state' = next
  /\ labels' = [t \in Track |-> NoLabel]
  /\ bank' = EmptyBank /\ bundle' = EmptyBank
  /\ clip' = 0 /\ start' = FALSE

SetState(next) ==
  /\ state' = next
  /\ UNCHANGED <<labels, bank, clip, bundle, start>>

(* Mutant: what was validated may still be changed.                        *)
AcceptingReady == state \in {"calibrating", "review", "ready"}

(* The states in which labels, samples and validation are accepted.        *)
Accepting == state \in {"calibrating", "review"}

CanRun == state \in {"ready", "running"} /\ bundle # EmptyBank

BeginSourcePreview == Wipe("source_preview")

BeginClipSelecting ==
  /\ state \in {"source_preview", "clip_selecting"}
  /\ state' = "clip_selecting" /\ start' = TRUE
  /\ UNCHANGED <<labels, bank, clip, bundle>>

BeginProcessing(j) ==
  /\ state = "clip_selecting"
  /\ state' = "processing" /\ clip' = j
  /\ UNCHANGED <<labels, bank, bundle, start>>

ResetSession == Wipe("idle")

(* TrackFeatureBank.update through _add_samples_locked: one more sample    *)
(* under the label the track has, unless the track is full.                *)
Sampled(t) ==
  IF labels[t] # NoLabel /\ bank[t].count < MaxSamples
  THEN [label |-> labels[t], count |-> bank[t].count + 1]
  ELSE bank[t]

-----------------------------------------------------------------------------
(* The clip handlers.                                                      *)

LoadSource ==
  /\ state = "idle"
  /\ loaded' = TRUE /\ job' = 0
  /\ BeginSourcePreview
  /\ UNCHANGED <<worker, metadata>>

Preview == handler = "idle" /\ LoadSource /\ UNCHANGED <<at, observer, handler>>

StartClip ==
  /\ handler = "idle" /\ loaded
  /\ BeginClipSelecting
  /\ UNCHANGED <<service, at, observer, handler>>

(* The job replaces the one before as soon as it is built; begin_processing*)
(* then refuses it unless a clip is being selected, and no worker starts.  *)
FinishClip(j) ==
  /\ handler = "idle" /\ loaded /\ start
  /\ ~(job # 0 /\ Alive(worker))
  /\ at[j] = "none" /\ \A i \in Job : i < j => at[i] # "none"
  /\ job' = j
  /\ \/ /\ BeginProcessing(j)
        /\ worker' = j
        /\ at' = [at EXCEPT ![j] = "run"]
     \/ /\ state # "clip_selecting"
        /\ at' = [at EXCEPT ![j] = "ended"]
        /\ UNCHANGED <<session, worker>>
  /\ UNCHANGED <<loaded, metadata, observer, handler>>

(* reset is refused while the worker the service knows of is alive.        *)
Reset ==
  /\ handler = "idle" /\ ~Alive(worker)
  /\ ResetSession
  /\ loaded' = FALSE /\ job' = 0 /\ worker' = 0
  /\ metadata' = metadata \ {job}
  /\ UNCHANGED <<at, observer, handler>>

-----------------------------------------------------------------------------
(* The worker thread: _process_job.                                        *)

WorkerMove(j, place) == at' = [at EXCEPT ![j] = place]

WorkerWrites(j) ==
  /\ at[j] = "run"
  /\ metadata' = metadata \cup {j}
  /\ WorkerMove(j, "written")
  /\ UNCHANGED <<session, loaded, job, worker, observer, handler>>

WorkerRaises(j) ==
  /\ at[j] = "run"
  /\ WorkerMove(j, "failing")
  /\ UNCHANGED <<session, service, observer, handler>>

(* complete_processing, which raises when the session is not processing.   *)
WorkerCompletes(j) ==
  /\ at[j] = "written"
  /\ \/ /\ state = "processing"
        /\ SetState("review")
        /\ WorkerMove(j, "ended")
     \/ /\ state # "processing"
        /\ WorkerMove(j, "failing")
        /\ UNCHANGED session
  /\ UNCHANGED <<service, observer, handler>>

(* Mutant: a worker that fails leaves the session alone.                   *)
WorkerGivesUp(j) ==
  /\ at[j] = "failing"
  /\ WorkerMove(j, "ended")
  /\ UNCHANGED <<session, service, observer, handler>>

(* fail_processing asks nothing about the state it replaces.               *)
WorkerFails(j) ==
  /\ at[j] = "failing"
  /\ SetState("clip_selecting")
  /\ WorkerMove(j, "ended")
  /\ UNCHANGED <<service, observer, handler>>

-----------------------------------------------------------------------------
(* Live calibration: POST /api/team-calibration/start.                     *)

StartLive ==
  /\ handler = "idle"
  /\ Wipe("calibrating")
  /\ handler' = "starting"
  /\ UNCHANGED <<service, at, observer>>

StartLiveOk ==
  /\ handler = "starting"
  /\ observer' = "on"
  /\ handler' = "idle"
  /\ UNCHANGED <<session, service, at>>

(* The handler resets the session itself: the clip service is not asked.   *)
StartLiveFails ==
  /\ handler = "starting"
  /\ ResetSession
  /\ observer' \in {observer, IF observer = "on" THEN "late" ELSE observer}
  /\ handler' = "idle"
  /\ UNCHANGED <<service, at>>

(* observe_frame: each visible track that is labelled, and not yet full,   *)
(* gains a sample.  A stopped pipeline may still deliver one frame.        *)
ObserveFrame(visible) ==
  /\ observer # "off"
  /\ observer' = IF observer = "late" THEN "off" ELSE "on"
  /\ bank' = [t \in Track |->
                IF Accepting /\ t \in visible THEN Sampled(t) ELSE bank[t]]
  /\ UNCHANGED <<state, labels, clip, bundle, start, service, at, handler>>

-----------------------------------------------------------------------------
(* Labels and validation.                                                  *)

(* Mutant: the samples of a track survive a change of its label.           *)
KeepSamples(t, l, n) ==
  bank' = [bank EXCEPT ![t] =
             IF l = NoLabel THEN NoSamples
             ELSE [label |-> IF n > 0 THEN l ELSE @.label,
                   count |-> IF n > 0 THEN n ELSE @.count]]

(* Samples under an earlier label are dropped, those of the clip added.    *)
ReplaceSamples(t, l, n) ==
  bank' = [bank EXCEPT ![t] =
             IF l = NoLabel \/ n = 0 THEN NoSamples
             ELSE [label |-> l, count |-> n]]

(* Without a job the label comes alone; with one its metadata must be      *)
(* there and the clip gives n samples.  IGNORE removes the label.          *)
LabelTrack(t, l, n) ==
  /\ handler = "idle" /\ Accepting
  /\ job # 0 => job \in metadata
  /\ job = 0 \/ l = NoLabel => n = 0
  /\ labels' = [labels EXCEPT ![t] = l]
  /\ ReplaceSamples(t, l, n)
  /\ UNCHANGED <<state, clip, bundle, start, service, at, observer, handler>>

Team(b, l) == {t \in Track : b[t].label = l}

(* Leave-one-out can be evaluated: a track can be held out and both teams  *)
(* still have a prototype.                                                 *)
Evaluable(b) ==
  \E t \in Team(b, "home") \cup Team(b, "away") :
    Team(b, "home") \ {t} # {} /\ Team(b, "away") \ {t} # {}

Sufficient(b) ==
  /\ \A l \in {"home", "away"} :
       /\ Cardinality(Team(b, l)) >= MinTracks
       /\ \A t \in Team(b, l) : b[t].count >= MinSamples
  /\ Evaluable(b)

ValidateFails ==
  /\ handler = "idle" /\ Accepting
  /\ SetState(IF clip # 0 THEN "review" ELSE "calibrating")
  /\ UNCHANGED <<service, at, observer, handler>>

ValidatePasses ==
  /\ handler = "idle" /\ Accepting /\ Sufficient(bank)
  /\ state' = "ready" /\ bundle' = bank
  /\ UNCHANGED <<labels, bank, clip, start, service, at, observer, handler>>

(* The report passed and bundle.save raised: nobody leaves "validating".   *)
ValidateRaises ==
  /\ handler = "idle" /\ Accepting /\ Sufficient(bank)
  /\ SetState("validating")
  /\ UNCHANGED <<service, at, observer, handler>>

-----------------------------------------------------------------------------
(* pipeline_start with require_team_calibration set, and without it; the   *)
(* pipeline that replaces a calibration pipeline does not observe.         *)
MarkRunning == SetState(IF state = "ready" THEN "running" ELSE state)

PipelineStart(required) ==
  /\ handler = "idle"
  /\ required => CanRun
  /\ MarkRunning
  /\ observer' \in {observer, IF observer = "on" THEN "late" ELSE observer}
  /\ UNCHANGED <<service, at, handler>>

PipelineStop ==
  /\ handler = "idle" /\ observer = "on"
  /\ observer' = "late"
  /\ UNCHANGED <<session, service, at, handler>>

Worker(j) ==
  WorkerWrites(j) \/ WorkerRaises(j) \/ WorkerCompletes(j) \/ WorkerFails(j)

Next ==
  \/ Preview \/ StartClip \/ Reset
  \/ \E j \in Job : FinishClip(j) \/ Worker(j)
  \/ StartLive \/ StartLiveOk \/ StartLiveFails
  \/ \E visible \in SUBSET Track : ObserveFrame(visible)
  \/ \E t \in Track, l \in Label \cup {NoLabel}, n \in 0 .. MaxSamples :
       LabelTrack(t, l, n)
  \/ ValidateFails \/ ValidatePasses \/ ValidateRaises
  \/ \E required \in BOOLEAN : PipelineStart(required)
  \/ PipelineStop

(* A worker thread that has started is scheduled until it ends.            *)
Spec == Init /\ [][Next]_vars /\ \A j \in Job : WF_vars(Worker(j))

-----------------------------------------------------------------------------
(* The samples of a track were all collected under the label it has now:   *)
(* "A changed semantic label must not retain features sampled under the    *)
(* previous role/team assignment" (session.py), whoever sampled them.      *)
SamplesUnderLabel ==
  \A t \in Track : bank[t].count > 0 => bank[t].label = labels[t]

(* While the gate lets a match run, the bundle is the one built from the   *)
(* labels and samples now held, which meet the thresholds: no observation, *)
(* label or worker alters what was validated.                              *)
CertifiedBundle ==
  CanRun => bundle = bank /\ Sufficient(bank) /\ SamplesUnderLabel

(* A clip never stays in processing, whoever else touched the session.     *)
ProcessingEnds == state = "processing" ~> state # "processing"
=============================================================================
