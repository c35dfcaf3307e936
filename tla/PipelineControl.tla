--------------------------- MODULE PipelineControl ---------------------------
(***************************************************************************)
(* Starting, resuming, replacing and stopping the inference pipeline       *)
(* (app/server/api/pipeline.py, app/server/main.py), its thread            *)
(* (InferencePipeline._run_loop), a local file source and the debug        *)
(* recorder.                                                               *)
(*                                                                         *)
(* Processes.  The event loop runs one handler at a time: every handler is *)
(* an "async def" without an await.  Inside a handler the steps of stop()  *)
(* interleave with the pipeline threads, so each is a step here.  start()  *)
(* is one step: once it has read _running as false, only a finally block   *)
(* touches what it uses, and each of those steps commutes with it.  A      *)
(* thread that has ended frees its place.                                  *)
(*                                                                         *)
(* Pipelines are numbered in the order they are built, 0 is "none".        *)
(* MaxPipe bounds the pipelines built and MaxThread the threads alive at   *)
(* once; a file may end at any read.                                       *)
(***************************************************************************)
EXTENDS Naturals, FiniteSets

CONSTANTS
  Source,       \* video files a request may name
  NoSource,     \* the absent video_source
  MaxPipe, MaxThread

ASSUME BoundsAssumption ==
  /\ NoSource \notin Source
  /\ MaxPipe \in Nat \ {0} /\ MaxThread \in Nat \ {0}

Pipe == 1 .. MaxPipe
Thread == 1 .. MaxThread

VARIABLES
  slot,         \* main._pipeline and app.state.pipeline
  config,       \* store.config.video_source
  flag,         \* store.pipeline_running
  status,       \* store.source_status
  built,        \* how many pipelines exist
  running,      \* InferencePipeline._running
  source,       \* the capture of each pipeline: "none", "open", "eof", "released"
  recorder,     \* "off", "active" (no writer yet) or "writing"
  owner,        \* the pipeline of each thread, 0 when there is none
  at,           \* where each thread is
  handler,      \* where the handler is
  then,         \* what the handler does when stop() returns
  next,         \* the pipeline the handler has built
  asked,        \* the source it will write to the configuration
  stopped,      \* history: pipelines whose stop() has run to its end
  late,         \* history: frames published after that
  files,        \* history: times each pipeline's output file was opened
  command       \* history: the last command that reached its end

store == <<config, flag, status>>
pipes == <<built, running, source, recorder>>
threads == <<owner, at>>
loop == <<slot, handler, then, next, asked>>
history == <<stopped, late, files, command>>
vars == <<store, pipes, threads, loop, history>>

TypeOK ==
  /\ slot \in 0 .. MaxPipe /\ next \in 0 .. MaxPipe
  /\ config \in Source \cup {NoSource} /\ asked \in Source \cup {NoSource}
  /\ flag \in BOOLEAN
  /\ status \in {"connected", "disconnected", "error"}
  /\ built \in 0 .. MaxPipe
  /\ running \in [Pipe -> BOOLEAN]
  /\ source \in [Pipe -> {"none", "open", "eof", "released"}]
  /\ recorder \in [Pipe -> {"off", "active", "writing"}]
  /\ owner \in [Thread -> 0 .. MaxPipe]
  /\ at \in [Thread -> {"none", "check", "read", "frame", "write", "clear",
                        "lower", "release", "record"}]
  /\ handler \in {"idle", "attach", "stop", "release", "record", "tail"}
  /\ then \in {"launch", "cleared", "failed"}
  /\ stopped \subseteq Pipe
  /\ late \in [Pipe -> Nat] /\ files \in [Pipe -> Nat]
  /\ command \in {"none", "start", "stop"}

(* A pipeline as its constructor leaves it.                                *)
Constructed ==
  /\ running = [p \in Pipe |-> FALSE]
  /\ recorder = [p \in Pipe |-> "off"]
  /\ owner = [t \in Thread |-> 0] /\ at = [t \in Thread |-> "none"]

(* The server starts idle, or main() has built the pipeline of the command *)
(* line's video source and is about to attach it, before any request can   *)
(* be served.                                                              *)
Init ==
  /\ slot = 0 /\ flag = FALSE /\ then = "launch"
  /\ Constructed
  /\ \/ /\ config = NoSource /\ asked = NoSource
        /\ handler = "idle" /\ built = 0 /\ next = 0
        /\ source = [p \in Pipe |-> "none"] /\ status = "disconnected"
     \/ /\ config \in Source /\ asked = config
        /\ handler = "attach" /\ built = 1 /\ next = 1
        /\ source = [p \in Pipe |-> IF p = 1 THEN "open" ELSE "none"]
        /\ status = "connected"
  /\ stopped = {} /\ command = "none"
  /\ late = [p \in Pipe |-> 0] /\ files = [p \in Pipe |-> 0]

-----------------------------------------------------------------------------
(* The parts of InferencePipeline.stop and of the finally block that both  *)
(* run: they differ in nothing but who runs them.                          *)

Lower(p) ==
  /\ running' = [running EXCEPT ![p] = FALSE]
  /\ UNCHANGED <<built, source, recorder>>

(* Mutant: a file that has come to its end is not released.               *)
ReleaseOpen(p) ==
  /\ source' = [source EXCEPT ![p] = IF @ = "eof" THEN @ ELSE "released"]
  /\ status' = "disconnected"
  /\ UNCHANGED <<config, flag, built, running, recorder>>

Release(p) ==
  /\ source' = [source EXCEPT ![p] = "released"]
  /\ status' = "disconnected"
  /\ UNCHANGED <<config, flag, built, running, recorder>>

(* Mutant: the recorder closes its writer and stays active.                *)
StopWriter(p) ==
  /\ recorder' = [recorder EXCEPT ![p] = IF @ = "writing" THEN "active" ELSE @]
  /\ UNCHANGED <<store, built, running, source>>

StopRecorder(p) ==
  /\ recorder' = [recorder EXCEPT ![p] = "off"]
  /\ UNCHANGED <<store, built, running, source>>

StartRecorder(p) ==
  recorder' = [recorder EXCEPT ![p] = IF @ = "off" THEN "active" ELSE @]

(* Mutant: start() does not look at _running.                              *)
StartAgain(p) ==
  \E t \in Thread :
    /\ flag' = TRUE
    /\ owner[t] = 0
    /\ owner' = [owner EXCEPT ![t] = p]
    /\ at' = [at EXCEPT ![t] = "check"]
    /\ running' = [running EXCEPT ![p] = TRUE]
    /\ UNCHANGED <<built, source, recorder>>

(* InferencePipeline.start: nothing when _running is set; otherwise the    *)
(* recorder is started, both flags are raised and a thread is spawned.     *)
StartPipe(p) ==
  /\ flag' = TRUE
  /\ IF running[p] THEN UNCHANGED <<pipes, threads>>
     ELSE \E t \in Thread :
            /\ owner[t] = 0 /\ \A u \in Thread : u < t => owner[u] # 0
            /\ owner' = [owner EXCEPT ![t] = p]
            /\ at' = [at EXCEPT ![t] = "check"]
            /\ running' = [running EXCEPT ![p] = TRUE]
            /\ StartRecorder(p)
            /\ UNCHANGED <<built, source>>

(* start() raises where it loads the models, before it has changed         *)
(* anything.                                                               *)
StartRaises(p) == ~running[p] /\ UNCHANGED <<pipes, threads>>

-----------------------------------------------------------------------------
(* Handlers.  A request names a video source or not, changes the           *)
(* configuration or not, and names a device or not.                        *)

Request == [video : Source \cup {NoSource}, tuned : BOOLEAN, device : BOOLEAN]

Plain(r) == r.video = NoSource /\ ~r.tuned /\ ~r.device

Requested(r) == IF r.video = NoSource THEN config ELSE r.video

ShouldCreate(r) ==
  /\ Requested(r) # NoSource
  /\ slot = 0 \/ r.video # config \/ r.tuned

(* A plain request, or one that asks for nothing new, resumes the current  *)
(* pipeline: the flag is raised first and whatever start() raises (a model *)
(* that does not load) is swallowed.                                       *)
Resume(r) ==
  /\ handler = "idle" /\ slot # 0
  /\ Plain(r) \/ ~ShouldCreate(r)
  /\ \/ StartPipe(slot)
     \/ StartRaises(slot) /\ flag' = TRUE
  /\ command' = "start"
  /\ UNCHANGED <<config, status, loop, stopped, late, files>>

OpenSource(p) ==
  /\ source' = [source EXCEPT ![p] = "open"]
  /\ status' = "connected"

(* The source is opened by create_pipeline, before anything is stopped.    *)
Build(s) ==
  /\ handler = "idle"
  /\ built < MaxPipe
  /\ built' = built + 1 /\ next' = built + 1
  /\ OpenSource(built + 1)
  /\ then' = "launch" /\ asked' = s
  /\ handler' = "attach"
  /\ UNCHANGED <<config, flag, running, recorder, threads, slot, history>>

Create(r) ==
  /\ ~(slot # 0 /\ Plain(r)) /\ ShouldCreate(r)
  /\ Build(Requested(r))

(* POST /api/team-calibration/start: the same factory, always a new        *)
(* pipeline.                                                               *)
CalibrationStart(r) == Requested(r) # NoSource /\ Build(Requested(r))

(* The file does not exist, or the constructor raised after the source was *)
(* opened and create_pipeline released it.                                 *)
CreateFails(r) ==
  /\ handler = "idle" /\ ~(slot # 0 /\ Plain(r)) /\ ShouldCreate(r)
  /\ status' = "error"
  /\ UNCHANGED <<config, flag, pipes, threads, loop, history>>

(* It reports its errors by the answer alone; the status is the one the    *)
(* released source left, if it was opened.                                 *)
CalibrationFails(r) ==
  /\ handler = "idle" /\ Requested(r) # NoSource
  /\ status' \in {status, "disconnected"}
  /\ UNCHANGED <<config, flag, pipes, threads, loop, history>>

(* PUT /api/config and the WebSocket's update_config.                      *)
SetConfig(s) ==
  /\ handler = "idle"
  /\ config' = s
  /\ UNCHANGED <<flag, status, pipes, threads, loop, history>>

Stop ==
  /\ handler = "idle"
  /\ then' = "cleared"
  /\ handler' = "attach"
  /\ UNCHANGED <<store, pipes, threads, slot, next, asked, history>>

(* Mutant: the pipeline that is replaced is not stopped.                   *)
AttachOver ==
  /\ handler = "attach"
  /\ handler' = "tail"
  /\ UNCHANGED <<store, pipes, threads, slot, then, next, asked, history>>

(* Both attach_and_start_pipeline and stop_and_clear_pipeline stop what is *)
(* in the slot, under _pipeline_lock, which only handlers take.            *)
Attach ==
  /\ handler = "attach"
  /\ handler' = IF slot = 0 THEN "tail" ELSE "stop"
  /\ UNCHANGED <<store, pipes, threads, slot, then, next, asked, history>>

(* The pipeline stop() works on: the one in the slot, which is the new one *)
(* when its start has failed.                                              *)
StopLower ==
  /\ handler = "stop"
  /\ Lower(slot)
  /\ flag' = FALSE
  /\ handler' = "release"
  /\ UNCHANGED <<config, status, threads, slot, then, next, asked, history>>

StopRelease ==
  /\ handler = "release"
  /\ Release(slot)
  /\ handler' = "record"
  /\ UNCHANGED <<threads, slot, then, next, asked, history>>

StopRecord ==
  /\ handler = "record"
  /\ StopRecorder(slot)
  /\ stopped' = stopped \cup {slot}
  /\ handler' = "tail"
  /\ UNCHANGED <<threads, slot, then, next, asked, late, files, command>>

(* The slot is replaced, the flag raised and the new pipeline started.     *)
Launch ==
  /\ handler = "tail" /\ then = "launch"
  /\ slot' = next /\ next' = 0
  /\ StartPipe(next)
  /\ config' = asked
  /\ handler' = "idle" /\ command' = "start"
  /\ UNCHANGED <<status, then, asked, stopped, late, files>>

(* start() raised: the new pipeline is stopped, the slot emptied and the   *)
(* error is reported.                                                      *)
LaunchFails ==
  /\ handler = "tail" /\ then = "launch"
  /\ slot' = next /\ next' = 0
  /\ StartRaises(next)
  /\ flag' = FALSE
  /\ handler' = "stop" /\ then' = "failed"
  /\ UNCHANGED <<config, status, asked, history>>

(* Mutant: the flag is left to the stopped pipeline.                       *)
ClearedKeepsFlag ==
  /\ handler = "tail" /\ then \in {"cleared", "failed"}
  /\ slot' = 0
  /\ status' \in CASE then = "failed"  -> {"error", "disconnected"}
                  [] then = "cleared" -> {"disconnected"}
  /\ handler' = "idle"
  /\ command' = "stop"
  /\ UNCHANGED <<config, flag, pipes, threads, then, next, asked, stopped, late,
                 files>>

(* The tail of stop_and_clear_pipeline and of the error path, where        *)
(* pipeline_start reports an error and the calibration's start does not.   *)
Cleared ==
  /\ handler = "tail" /\ then \in {"cleared", "failed"}
  /\ slot' = 0
  /\ status' \in CASE then = "failed"  -> {"error", "disconnected"}
                  [] then = "cleared" -> {"disconnected"}
  /\ flag' = FALSE
  /\ handler' = "idle"
  /\ command' = "stop"
  /\ UNCHANGED <<config, pipes, threads, then, next, asked, stopped, late, files>>

(* The WebSocket's start and stop set the flag and nothing else.           *)
SocketCommand(raise) ==
  /\ handler = "idle"
  /\ flag' = raise
  /\ command' = IF raise THEN "start" ELSE command
  /\ UNCHANGED <<config, status, pipes, threads, loop, stopped, late, files>>

-----------------------------------------------------------------------------
(* The pipeline thread.                                                    *)

Move(t, place) == at' = [at EXCEPT ![t] = place] /\ UNCHANGED owner

(* while self._running                                                     *)
Check(t) ==
  /\ at[t] = "check"
  /\ Move(t, IF running[owner[t]] THEN "read" ELSE "clear")
  /\ UNCHANGED <<store, pipes, loop, history>>

ReadFrame(t) ==
  /\ at[t] = "read"
  /\ source[owner[t]] = "open"
  /\ Move(t, "frame")
  /\ UNCHANGED <<store, pipes, loop, history>>

(* The file is at its end, or the capture was released: read() finishes    *)
(* the source, so is_opened() is false and the loop is left.               *)
ReadNothing(t) ==
  /\ at[t] = "read"
  /\ source' = [source EXCEPT ![owner[t]] = IF @ = "open" THEN "eof" ELSE @]
  /\ status' = "disconnected"
  /\ Move(t, "clear")
  /\ UNCHANGED <<config, flag, built, running, recorder, loop, history>>

(* _process_frame up to the recorder.  An exception ends the loop.         *)
Infer(t) ==
  /\ at[t] = "frame"
  /\ Move(t, "write") \/ Move(t, "clear")
  /\ UNCHANGED <<store, pipes, loop, history>>

(* VideoRecorder.write: the writer is opened with the first frame; one     *)
(* that does not open turns the recorder off.                              *)
WriteFrame(p) ==
  \/ /\ recorder[p] = "active"
     /\ recorder' = [recorder EXCEPT ![p] = "writing"]
     /\ files' = [files EXCEPT ![p] = @ + 1]
  \/ /\ recorder[p] = "active"
     /\ recorder' = [recorder EXCEPT ![p] = "off"]
     /\ UNCHANGED files
  \/ /\ recorder[p] # "active"
     /\ UNCHANGED <<recorder, files>>

(* The annotated frame is published and recorded, then the frame state.    *)
Publish(t) ==
  LET p == owner[t] IN
  /\ at[t] = "write"
  /\ WriteFrame(p)
  /\ late' = [late EXCEPT ![p] = IF p \in stopped THEN @ + 1 ELSE @]
  /\ Move(t, "check")
  /\ UNCHANGED <<config, flag, status, built, running, source, loop,
                 stopped, command>>

(* The finally block: _running, store.pipeline_running, the source and     *)
(* the recorder, in this order.                                            *)
FinallyClear(t) ==
  /\ at[t] = "clear"
  /\ Lower(owner[t])
  /\ Move(t, "lower")
  /\ UNCHANGED <<store, loop, history>>

FinallyLower(t) ==
  /\ at[t] = "lower"
  /\ flag' = FALSE
  /\ Move(t, "release")
  /\ UNCHANGED <<config, status, pipes, loop, history>>

FinallyRelease(t) ==
  /\ at[t] = "release"
  /\ Release(owner[t])
  /\ Move(t, "record")
  /\ UNCHANGED <<loop, history>>

FinallyRecord(t) ==
  /\ at[t] = "record"
  /\ StopRecorder(owner[t])
  /\ at' = [at EXCEPT ![t] = "none"] /\ owner' = [owner EXCEPT ![t] = 0]
  /\ UNCHANGED <<loop, history>>

-----------------------------------------------------------------------------
ThreadStep(t) ==
  \/ Check(t) \/ ReadFrame(t) \/ ReadNothing(t) \/ Infer(t) \/ Publish(t)
  \/ FinallyClear(t) \/ FinallyLower(t) \/ FinallyRelease(t) \/ FinallyRecord(t)

HandlerStep ==
  \/ Attach \/ StopLower \/ StopRelease \/ StopRecord
  \/ Launch \/ LaunchFails \/ Cleared

Next ==
  \/ \E r \in Request : \/ Resume(r) \/ Create(r) \/ CreateFails(r)
                         \/ CalibrationStart(r) \/ CalibrationFails(r)
  \/ Stop
  \/ \E s \in Source : SetConfig(s)
  \/ \E raise \in BOOLEAN : SocketCommand(raise)
  \/ HandlerStep
  \/ \E t \in Thread : ThreadStep(t)

(* A handler that has begun runs to its end, and every thread is scheduled.*)
Spec ==
  /\ Init /\ [][Next]_vars
  /\ WF_vars(HandlerStep)
  /\ \A t \in Thread : WF_vars(ThreadStep(t))

-----------------------------------------------------------------------------
(* A source that is open belongs to the pipeline in the slot once no       *)
(* handler is at work: a replaced, refused or failed pipeline never keeps  *)
(* its capture (the create_pipeline and attach_and_start_pipeline errors). *)
NoOrphanSource ==
  handler = "idle" =>
    \A p \in Pipe : source[p] \in {"open", "eof"} => p = slot

(* Two threads never read the source of one pipeline: resuming a pipeline  *)
(* whose loop is in its finally block spawns a second thread, but only     *)
(* after the first has left the loop.                                      *)
OneReader ==
  \A t, u \in Thread :
    /\ t # u /\ owner[t] = owner[u]
    /\ at[t] \in {"read", "frame", "write"}
    => at[u] \notin {"read", "frame", "write"}

(* A recording is opened once: no frame read after the recorder was        *)
(* finalised reopens, and so truncates, the file of its pipeline; and a    *)
(* stopped pipeline publishes at most the frame it was processing.         *)
RecordedOnce == \A p \in Pipe : files[p] <= 1 /\ late[p] <= 1

(* After a stop nothing shows the pipeline as running, whatever its thread *)
(* still does: the slot is empty, the flag is down and the source is not   *)
(* reported as connected.                                                  *)
StopSticks ==
  command = "stop" /\ handler = "idle" =>
    slot = 0 /\ ~flag /\ status # "connected"

(* A pipeline that was stopped comes to rest: its threads end, its source  *)
(* is released and its recording is finalised.                             *)
StoppedEnds ==
  \A p \in Pipe :
    p \in stopped ~> /\ \A t \in Thread : owner[t] # p
                     /\ source[p] = "released" /\ recorder[p] = "off"
=============================================================================
