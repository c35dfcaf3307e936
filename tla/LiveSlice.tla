------------------------------ MODULE LiveSlice ------------------------------
(***************************************************************************)
(* The live multi-view capture of app/multiview/live_ingest: a worker      *)
(* process keeps a ring of segments per camera (LiveIngestSupervisor), the *)
(* server turns a window of them into a case (LiveSliceCoordinator), and   *)
(* the two share only the disk and a SQLite database (SegmentIndex,        *)
(* LiveMultiviewCaseStore).                                                *)
(*                                                                         *)
(* Time is counted in ticks, a fraction of a segment of any size: every    *)
(* time of the configuration is a number of ticks, and a segment may begin *)
(* and end at any of them, so that no two cameras need cut theirs at the   *)
(* same times.  A segment begins its duration before its last write.       *)
(*                                                                         *)
(* A transaction is one step, and so is each statement that commits by     *)
(* itself (the connections are in autocommit mode), each row that          *)
(* release_window writes among them; except that record_segment's row and  *)
(* health are taken together, and so are the queries of the trigger before *)
(* it freezes, and the unlinks of a round: no file they remove has a row,  *)
(* and only rows lead anybody to a file.                                   *)
(*                                                                         *)
(* Each step of the worker's round goes on to the next wait: on to the     *)
(* files of a camera, or to the unlinks.  It takes the files of a camera   *)
(* by age (as they are numbered in a capture's directory; that of several  *)
(* directories, named by UUIDs, is not fixed).  A trigger that is refused  *)
(* changes nothing.                                                        *)
(*                                                                         *)
(* MaxTime bounds the clock, MaxCase the captures and MaxFaults all that   *)
(* goes wrong: a camera that stalls, an FFmpeg that exits or does not      *)
(* start, a segment that fails validation, an unlink, a freeze, a remux, a *)
(* save or a release that fails, a restart of either process.              *)
(***************************************************************************)
EXTENDS Integers, FiniteSets, FiniteSetsExt

CONSTANTS
  NumCameras,   \* the cameras of the configuration
  SegmentTime,  \* segment_seconds
  MaxLength,    \* the longest segment: it is cut at a keyframe only
  Window,       \* buffer_seconds
  MaxGap,       \* 1.5 segments
  MinAge,       \* minimum_age_s
  MaxAge,       \* max_segment_age_seconds
  RestartDelay, \* how long an FFmpeg that has exited is not started again
  RetryDelay,   \* the same for one that could not be started
  MaxRound,     \* bound on the time from the beginning of a round of the
                \* worker to a step of it,
  MaxWait,      \* and to the beginning of the next round
  MaxTime,      \* bound on the clock
  MaxCase,      \* bound on the captures
  MaxFaults     \* bound on the faults

ASSUME SliceAssumption ==
  /\ {MaxGap, MinAge, MaxAge, MaxTime, MaxCase, MaxFaults} \subseteq Nat
  /\ {NumCameras, SegmentTime, MaxLength, Window} \subseteq Nat \ {0}
  /\ {MaxRound, MaxWait} \subseteq Nat
  /\ {RestartDelay, RetryDelay} \subseteq Nat \ {0}
  /\ SegmentTime <= MaxLength /\ 2 * MaxGap = 3 * SegmentTime

Camera == 1 .. NumCameras
Time == 0 .. MaxTime
Segment == {s \in [camera : Camera, start : Time, end : Time] :
              s.start < s.end /\ s.end - s.start <= MaxLength}
Case == 1 .. MaxCase

VARIABLES
  clock,
  files,        \* the segments on disk
  rows,         \* the segments in live_segments
  refs,         \* their ref_count
  leaked,       \* and how much of it captures have left behind
  online,       \* live_camera_health.online
  latestAt,     \* live_camera_health.latest_segment_at_s, 0 for NULL
  ffmpeg,       \* the capture process of each camera: "off", "up", or
                \* "exited" and not yet noticed
  restartAt,    \* _next_restart_at of each camera
  written,      \* how much of its next segment it has written
  seen,         \* the worker's _seen_paths
  worker,       \* where the worker is in its round
  camera,       \* the camera it is at
  now,          \* now_s of the round
  capture,      \* where LiveSliceCoordinator.trigger is
  case,         \* the number of the capture
  end,          \* capture_end_s
  snapshot,     \* the segments it has pinned
  cases,        \* capture_state of each case, "none" without a row
  published,    \* the cases whose directory is in place
  faults        \* how much has gone wrong

health == <<online, latestAt>>
processes == <<ffmpeg, restartAt, written>>
supervisor == <<processes, seen, worker, camera, now>>
coordinator == <<capture, case, end, snapshot, cases, published>>
index == <<rows, refs, leaked>>
vars == <<clock, files, index, health, supervisor, coordinator, faults>>

TypeOK ==
  /\ clock \in Time /\ faults \in 0 .. MaxFaults
  /\ files \subseteq {s \in Segment : s.end <= clock}
  /\ rows \subseteq files /\ seen \subseteq files
  /\ refs \in [rows -> Nat] /\ leaked \in [rows -> Nat]
  /\ online \in [Camera -> BOOLEAN]
  /\ latestAt \in [Camera -> 0 .. clock]
  /\ ffmpeg \in [Camera -> {"off", "up", "exited"}]
  /\ restartAt \in [Camera -> Nat]
  /\ written \in [Camera -> {w \in 0 .. clock : w < MaxLength}]
  /\ worker \in {"down", "idle", "index", "unlink"}
  /\ camera \in 0 .. NumCameras
  /\ now \in 0 .. clock
  /\ capture \in {"idle", "freeze", "copy", "save", "fail", "release"}
  /\ case \in 0 .. MaxCase
  /\ end \in 0 .. clock
  /\ snapshot \subseteq Segment
  /\ cases \in [Case -> {"none", "ready", "failed"}]
  /\ published \subseteq Case

Init ==
  /\ clock = 0 /\ faults = 0
  /\ files = {} /\ rows = {}
  /\ refs = [s \in rows |-> 0] /\ leaked = [s \in rows |-> 0]
  /\ online = [c \in Camera |-> FALSE]
  /\ latestAt = [c \in Camera |-> 0]
  /\ ffmpeg = [c \in Camera |-> "off"]
  /\ restartAt = [c \in Camera |-> 0] /\ written = [c \in Camera |-> 0]
  /\ seen = {} /\ worker = "idle" /\ camera = 0 /\ now = 0
  /\ capture = "idle" /\ case = 0 /\ end = 0
  /\ snapshot = {}
  /\ cases = [i \in Case |-> "none"] /\ published = {}

Fault == faults < MaxFaults /\ faults' = faults + 1

-----------------------------------------------------------------------------
(* The host.                                                               *)

(* The segments that cameras end at a time, so much of them written.       *)
Cut(cameras, length, time) ==
  {[camera |-> c, start |-> time - length[c], end |-> time] : c \in cameras}

(* Time passes and the cameras write on.  FFmpeg ends a segment at the     *)
(* first keyframe after segment_time.                                      *)
Write(cameras) ==
  LET length == [c \in Camera |->
                   IF c \in cameras THEN written[c] + 1 ELSE written[c]]
  IN /\ clock < MaxTime
     /\ worker \in {"index", "unlink"} => clock < now + MaxRound
     /\ worker = "idle" => clock < now + MaxWait
     /\ clock' = clock + 1
     /\ \E done \in SUBSET cameras :
          /\ \A c \in done : length[c] >= SegmentTime
          /\ \A c \in cameras \ done : length[c] < MaxLength
          /\ files' = files \cup Cut(done, length, clock + 1)
          /\ written' = [c \in Camera |-> IF c \in done THEN 0 ELSE length[c]]
     /\ UNCHANGED <<index, health, ffmpeg, restartAt, seen, worker, camera, now,
                    coordinator>>

Running == {c \in Camera : ffmpeg[c] = "up"}

Tick == Write(Running) /\ UNCHANGED faults

(* Nothing of a camera arrives: its segment is the later and, counted back *)
(* from its last write, begins the later.                                  *)
TickStalled(c) == Fault /\ c \in Running /\ Write(Running \ {c})

(* FFmpegs that end leave a segment shorter than the others.               *)
LastSegments(cameras) == Cut({c \in cameras : written[c] > 0}, written, clock)

FfmpegExits(c) ==
  /\ Fault
  /\ ffmpeg[c] = "up"
  /\ ffmpeg' = [ffmpeg EXCEPT ![c] = "exited"]
  /\ files' = files \cup LastSegments({c})
  /\ written' = [written EXCEPT ![c] = 0]
  /\ UNCHANGED <<clock, index, health, restartAt, seen, worker, camera, now,
                 coordinator>>

-----------------------------------------------------------------------------
(* The index.                                                              *)

(* _set_health: a NULL time leaves the last one.                           *)
SetHealth(c, isOnline, at) ==
  /\ online' = [online EXCEPT ![c] = isOnline]
  /\ latestAt' = [latestAt EXCEPT ![c] = IF at = 0 THEN @ ELSE at]

(* A row that stays keeps its ref_count, a new one has none.               *)
Reindex(newRows) ==
  LET Count(f) == [s \in newRows |-> IF s \in rows THEN f[s] ELSE 0]
  IN rows' = newRows /\ refs' = Count(refs) /\ leaked' = Count(leaked)

(* The rows of a camera that _window_segments looks at: those whose file   *)
(* is on disk and that do not begin after e by more than the tolerance; it *)
(* takes them by start and end, the latest first.                          *)
Eligible(c, e) == {s \in rows \cap files : s.camera = c /\ s.start <= e + MaxGap}

Above(segments, s) ==
  {u \in segments : u.start > s.start \/ (u.start = s.start /\ u.end > s.end)}

(* Mutant: holes are not looked for.                                       *)
WindowSegmentsLoose(c, e) ==
  LET eligible == Eligible(c, e)
      picked == {s \in eligible : \A u \in Above(eligible, s) : e - u.start < Window}
  IN IF \E s \in picked : e - s.start >= Window THEN picked ELSE {}

(* _window_segments.  Its cursor is at e, or at the start of a segment     *)
(* further up.  It picks each segment until one leaves a hole below the    *)
(* cursor or a window is covered, and returns nothing if none is covered   *)
(* in the end.                                                             *)
WindowSegments(c, e) ==
  LET eligible == Eligible(c, e)
      Higher(s) == Above(eligible, s)
      Adjoins(s) == \/ s.end >= e - MaxGap
                    \/ \E u \in Higher(s) : s.end >= u.start - MaxGap
      picked == {s \in eligible :
                   /\ Adjoins(s) /\ \A u \in Higher(s) : Adjoins(u)
                   /\ \A u \in Higher(s) : e - u.start < Window}
  IN IF \E s \in picked : e - s.start >= Window THEN picked ELSE {}

(* latest_segment_end, 0 for NULL.                                         *)
LatestEnd(c) == Max({0} \cup {s.end : s \in {r \in rows : r.camera = c}})

SharedEnd == Min({LatestEnd(c) : c \in Camera})

SharedWindowReady(e) == \A c \in Camera : WindowSegments(c, e) # {}

-----------------------------------------------------------------------------
(* The worker: run_forever.                                                *)
(* _ensure_camera_process: it runs, or its delay has not passed; it has    *)
(* exited; it is started; it cannot be.                                    *)
EnsureProcess(c, time) ==
  \/ /\ \/ ffmpeg[c] = "up"
        \/ ffmpeg[c] = "off" /\ time < restartAt[c]
     /\ UNCHANGED <<ffmpeg, restartAt, health, faults>>
  \/ /\ ffmpeg[c] = "exited"
     /\ ffmpeg' = [ffmpeg EXCEPT ![c] = "off"]
     /\ restartAt' = [restartAt EXCEPT ![c] = time + RestartDelay]
     /\ SetHealth(c, FALSE, 0)
     /\ UNCHANGED faults
  \/ /\ ffmpeg[c] = "off" /\ time >= restartAt[c]
     /\ ffmpeg' = [ffmpeg EXCEPT ![c] = "up"]
     /\ UNCHANGED <<restartAt, health, faults>>
  \/ /\ Fault
     /\ ffmpeg[c] = "off" /\ time >= restartAt[c]
     /\ restartAt' = [restartAt EXCEPT ![c] = time + RetryDelay]
     /\ SetHealth(c, FALSE, 0)
     /\ UNCHANGED ffmpeg

Visit(c, time) ==
  /\ worker' = "index" /\ camera' = c
  /\ now' = time
  /\ EnsureProcess(c, time)
  /\ UNCHANGED <<clock, files, index, written, seen, coordinator>>

BeginRound ==
  /\ worker = "idle"
  /\ Visit(1, clock)

(* _reconcile_camera: each file not seen is recorded or rejected, unless   *)
(* it was written to a moment ago.                                         *)
Unseen == {s \in files \ seen : s.camera = camera}

Reconcile(s) ==
  /\ worker = "index"
  /\ s.end <= clock - MinAge
  /\ \A u \in Unseen : s.end <= u.end
  /\ seen' = seen \cup {s}
  /\ UNCHANGED <<clock, files, processes, worker, camera, now, coordinator>>

(* Mutant: the camera is as fresh as the indexing.                         *)
RecordSegmentNow(s) ==
  /\ Reconcile(s)
  /\ Reindex(rows \cup {s})
  /\ SetHealth(s.camera, TRUE, clock)
  /\ UNCHANGED faults

RecordSegment(s) ==
  /\ Reconcile(s)
  /\ Reindex(rows \cup {s})
  /\ SetHealth(s.camera, TRUE, s.end)
  /\ UNCHANGED faults

(* probe_media raises, or validate_h264_media finds another format.        *)
ProbeFails == Fault

RejectSegment(s) ==
  /\ ProbeFails
  /\ Reconcile(s)
  /\ SetHealth(s.camera, FALSE, 0)
  /\ UNCHANGED index

(* The files old enough when the round began have been looked at; one that *)
(* was not, or was completed since, may have been passed over.             *)
CameraDone == worker = "index" /\ \A s \in Unseen : s.end > now - MinAge

NextCamera ==
  /\ camera < NumCameras
  /\ CameraDone
  /\ Visit(camera + 1, now)

(* Mutant: a margin of one segment.                                        *)
RetentionShort == Window + SegmentTime

(* _prune keeps two segments more than a window.                           *)
Retention == Window + 2 * SegmentTime

OlderThan(time) == {s \in Segment : s.end < time - Retention}

(* Mutant: ref_count is not asked for.                                     *)
PrunableAll == rows \cap OlderThan(now)

Prunable == {s \in rows \cap OlderThan(now) : refs[s] = 0}

(* Mutant: files dealt with are left alone.                                *)
StaleUnseen(indexed) == (files \cap OlderThan(now)) \ (indexed \cup seen)

(* The files of the rows just pruned are unlinked, then all the old files  *)
(* without a row (_prune_capture_artifacts), among them any of the first   *)
(* that would not go.                                                      *)
Stale(indexed) == (files \cap OlderThan(now)) \ indexed

(* The round ends here if there is no file to unlink.                      *)
PruneRows ==
  /\ camera = NumCameras
  /\ CameraDone
  /\ Reindex(rows \ Prunable)
  /\ worker' = IF Stale(rows') = {} THEN "idle" ELSE "unlink"
  /\ camera' = 0
  /\ UNCHANGED <<clock, files, health, processes, seen, now, coordinator, faults>>

Unlink(paths) ==
  /\ worker = "unlink"
  /\ files' = files \ paths /\ seen' = seen \ paths
  /\ worker' = "idle"
  /\ UNCHANGED <<clock, index, health, processes, camera, now, coordinator>>

PruneFiles == Unlink(Stale(rows)) /\ UNCHANGED faults

PruneFilesFails(s) == Fault /\ Unlink(Stale(rows) \ {s})

(* The worker stops, its FFmpegs with it, and forgets what it has seen.  (A *)
(* worker killed outright leaves its FFmpegs writing, to directories that   *)
(* the next one reads as it reads its own; that is not modelled.)           *)
WorkerStops ==
  /\ Fault
  /\ worker # "down" /\ worker' = "down"
  /\ ffmpeg' = [c \in Camera |-> "off"]
  /\ files' = files \cup LastSegments(Camera)
  /\ restartAt' = [c \in Camera |-> 0] /\ written' = [c \in Camera |-> 0]
  /\ seen' = {} /\ camera' = 0 /\ now' = 0
  /\ UNCHANGED <<clock, index, health, coordinator>>

WorkerStarts ==
  /\ worker = "down" /\ worker' = "idle"
  /\ now' = clock
  /\ UNCHANGED <<clock, files, index, health, processes, seen, camera,
                 coordinator, faults>>

-----------------------------------------------------------------------------
(* The server: LiveSliceCoordinator.trigger, one at a time.                *)
Server(from, to) ==
  /\ capture = from
  /\ capture' = to
  /\ UNCHANGED <<clock, files, rows, health, supervisor>>

(* _capture_end refuses unless every camera is online and fresh.           *)
Fresh ==
  \A c \in Camera : online[c] /\ LatestEnd(c) > 0 /\ clock - LatestEnd(c) <= MaxAge

Trigger ==
  /\ Server("idle", "freeze")
  /\ case < MaxCase
  /\ Fresh
  /\ case' = case + 1 /\ end' = SharedEnd
  /\ UNCHANGED <<refs, snapshot, leaked, cases, published, faults>>

Freeze ==
  /\ Server("freeze", "copy")
  /\ SharedWindowReady(end)
  /\ snapshot' = UNION {WindowSegments(c, end) : c \in Camera}
  /\ refs' = [s \in rows |-> IF s \in snapshot' THEN refs[s] + 1 ELSE refs[s]]
  /\ UNCHANGED <<case, end, leaked, cases, published, faults>>

(* InsufficientLiveBuffer; or the transaction fails, and is rolled back.   *)
FreezeRefused ==
  /\ Server("freeze", "idle")
  /\ \/ ~SharedWindowReady(end) /\ UNCHANGED faults
     \/ Fault
  /\ end' = 0
  /\ UNCHANGED <<refs, case, snapshot, leaked, cases, published>>

(* _create_case: every camera is copied and remuxed into a directory aside *)
(* that is then moved into place, or nothing is left of it.                *)
Publish ==
  /\ Server("copy", "save")
  /\ published' = published \cup {case}
  /\ UNCHANGED <<refs, case, end, snapshot, leaked, cases, faults>>

(* Mutant: the error is lost.                                              *)
CreateFailsUnseen ==
  /\ Fault
  /\ Server("copy", "save")
  /\ UNCHANGED <<refs, case, end, snapshot, leaked, cases, published>>

CreateFails ==
  /\ Fault
  /\ Server("copy", "fail")
  /\ UNCHANGED <<refs, case, end, snapshot, leaked, cases, published>>

(* A capture that could not be saved is saved as failed; if that fails too *)
(* its windows are released all the same.                                  *)
SaveCase(from, state) ==
  /\ Server(from, "release")
  /\ cases' = [cases EXCEPT ![case] = state]
  /\ UNCHANGED <<refs, case, end, snapshot, leaked, published, faults>>

Save == SaveCase("save", "ready") \/ SaveCase("fail", "failed")

SaveFails ==
  /\ Fault
  /\ Server("save", "fail") \/ Server("fail", "release")
  /\ UNCHANGED <<refs, case, end, snapshot, leaked, cases, published>>

(* release_window gives back one pin after another, in the order of the    *)
(* cameras and the times.                                                  *)
ReleaseNext(s) ==
  /\ \A u \in snapshot : \/ s.camera < u.camera
                         \/ s.camera = u.camera /\ s.start <= u.start
  /\ snapshot' = snapshot \ {s}
  /\ Server("release", IF snapshot = {s} THEN "idle" ELSE "release")
  /\ end' = IF snapshot = {s} THEN 0 ELSE end
  /\ UNCHANGED <<case, leaked, cases, published, faults>>

(* Mutant: only a capture that is ready releases.                          *)
ReleaseReady(s) ==
  /\ ReleaseNext(s)
  /\ refs' = [refs EXCEPT ![s] = IF cases[case] = "ready" THEN @ - 1 ELSE @]

Release(s) ==
  /\ ReleaseNext(s)
  /\ refs' = [refs EXCEPT ![s] = IF @ > 0 THEN @ - 1 ELSE 0]

(* The pins that are left stay in the database.                            *)
Abandon ==
  /\ Fault
  /\ Server(capture, "idle")
  /\ leaked' = [s \in rows |-> IF s \in snapshot THEN leaked[s] + 1 ELSE leaked[s]]
  /\ snapshot' = {} /\ end' = 0
  /\ UNCHANGED <<refs, case, cases, published>>

(* The database is busy or the disk fails: release_window raises, in the   *)
(* trigger's finally, and nobody calls it again.                           *)
ReleaseFails == capture = "release" /\ Abandon

ServerCrash == capture # "idle" /\ Abandon

-----------------------------------------------------------------------------
Host == Tick \/ \E c \in Camera : TickStalled(c) \/ FfmpegExits(c)

Round ==
  \/ WorkerStarts \/ BeginRound \/ NextCamera \/ PruneRows \/ PruneFiles
  \/ \E s \in Unseen : RecordSegment(s)

RoundFails ==
  \/ WorkerStops
  \/ \E s \in Unseen : RejectSegment(s)
  \/ \E s \in Stale(rows) : PruneFilesFails(s)

Capture ==
  \/ Freeze \/ FreezeRefused \/ Publish \/ Save
  \/ \E s \in snapshot : Release(s)

CaptureFails == CreateFails \/ SaveFails \/ ReleaseFails \/ ServerCrash

Next == Host \/ Round \/ RoundFails \/ Trigger \/ Capture \/ CaptureFails

(* The worker's loop goes on; nobody need trigger a capture.               *)
Spec == Init /\ [][Next]_vars /\ WF_vars(Round)

-----------------------------------------------------------------------------
(* A frozen window stays whole: as long as a capture reads its segments    *)
(* the worker has removed none of them (freeze_window, prune).             *)
FrozenKept == capture = "copy" => snapshot \subseteq rows \cap files

(* ref_count is exact: every pin on a segment is one that the capture      *)
(* under way has yet to give back, or one left behind by a capture that    *)
(* died with the server or whose release failed half-way.  A remux or a    *)
(* save that fails keeps no segment for ever, and no failure lets a pinned *)
(* one go (release_window, trigger's finally).                             *)
PinsAccounted ==
  \A s \in rows : refs[s] = leaked[s] + (IF s \in snapshot THEN 1 ELSE 0)

(* A case is offered as ready only once its directory is in place, however *)
(* the capture before it ended (trigger's "never publish a partial case"). *)
ReadyComplete == \A i \in Case : cases[i] = "ready" => i \in published

(* The segments of a capture cover the same window for every camera: one   *)
(* begins a window before the shared end or earlier, no stretch of the     *)
(* window longer than the tolerance is without a segment, and little is    *)
(* taken beyond it (_window_segments).                                     *)
Covers(segments, e) ==
  /\ \E s \in segments : e - s.start >= Window
  /\ \A x \in (e - Window) .. (e - MaxGap - 1) :
       \E s \in segments : s.start <= x + MaxGap /\ s.end > x
  /\ \A s \in segments : s.start <= e + MaxGap /\ s.end > e - Window - MaxGap

SharedWindow ==
  capture = "copy" => \A c \in Camera : Covers({s \in snapshot : s.camera = c}, end)

(* status() and trigger() judge freshness by different columns, the health *)
(* and the rows: a review page is not told trigger_ready when the trigger  *)
(* would be refused at that moment (LiveMultiviewService.status).  The     *)
(* windows are the same, so what remains is that _capture_end accepts.     *)
StatusReady ==
  /\ \A c \in Camera :
       /\ online[c] /\ latestAt[c] > 0 /\ clock - latestAt[c] <= MaxAge
       /\ LatestEnd(c) > 0
  /\ SharedWindowReady(SharedEnd)

StatusPromise == ~Fresh => ~StatusReady

(* Pruning takes no segment of a window that could be triggered now and is *)
(* not too old.  Two segments are kept beyond a window: what its longest   *)
(* hole, at most of the tolerance, leaves of them is how long ago it may   *)
(* have ended (_prune, _window_segments).                                  *)
HolesWithin(c, e, h) ==
  \A s \in WindowSegments(c, e) :
    \/ s.end >= e - h
    \/ \E u \in WindowSegments(c, e) : u.start > s.start /\ s.end >= u.start - h

PruneKeepsReady ==
  [][(rows' # rows /\ rows' \subseteq rows) =>
       \A c \in Camera, h \in 0 .. MaxGap :
         (HolesWithin(c, SharedEnd, h) /\ SharedEnd >= now - (2 * SegmentTime - h)) =>
           WindowSegments(c, SharedEnd) \subseteq rows']_vars

(* The ring is bounded: a segment past its retention leaves the disk, even *)
(* after a failed unlink, a rejected or a lost segment or a restart of the *)
(* worker, unless a capture has it pinned (_prune).                        *)
ExpiredGone == []<>(\A s \in files \cap OlderThan(clock) : s \in rows /\ refs[s] > 0)
=============================================================================
