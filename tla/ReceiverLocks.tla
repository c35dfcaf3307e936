---------------------------- MODULE ReceiverLocks ----------------------------
(***************************************************************************)
(* The locks of the ingest service: the lock of each epoch's receiver      *)
(* (SRTReceiver._lock, with its PTS condition), the condition of each      *)
(* epoch's frame queue, the service lock (FieldIngestService._lock) and    *)
(* the lock of the session store.  What is modelled is the order in which  *)
(* each piece of code takes and gives back these locks; everything else a  *)
(* step does, and which calls can follow which, is in the other modules.   *)
(*                                                                         *)
(* A program is the sequence of lock operations of one call; sections of   *)
(* one lock that follow each other are written once.  Waits with a timeout *)
(* (the PTS wait, the queue's get, the joins of stop) give up by           *)
(* themselves and appear only as the release and re-acquisition they make. *)
(* Calls says which calls of the event loop a run considers.               *)
(***************************************************************************)
EXTENDS Naturals, Sequences, Functions

CONSTANTS
  Loop,         \* the event loop: HTTP and WebSocket handlers
  Pipelines,    \* inference threads; one that was stopped may linger
  Epoch,        \* live epochs, each with a receiver and a queue of its own
  None,         \* no thread, no epoch
  Calls         \* a subset of {"status", "telemetry", "release", "metrics"}

(* The readers of an epoch's receiver: _read_output and _read_frames.      *)
Stderr(e) == <<"stderr", e>>
Stdout(e) == <<"stdout", e>>
Reader == {"stderr", "stdout"} \X Epoch

Thread == {Loop} \cup Pipelines \cup Reader

Service == <<"service", None>>
Store == <<"store", None>>
Receiver(e) == <<"receiver", e>>
Queue(e) == <<"queue", e>>
Lock == {Service, Store} \cup ({"receiver", "queue"} \X Epoch)

ASSUME LocksAssumption ==
  /\ Calls \subseteq {"status", "telemetry", "release", "metrics"}
  /\ Loop \notin Pipelines \cup Reader /\ Pipelines \cap Reader = {}
  /\ None \notin Thread \cup Epoch

Take(l) == <<"take", l>>
Give(l) == <<"give", l>>
Spawn(l) == <<"spawn", l>>
Within(l, program) == <<Take(l)>> \o program \o <<Give(l)>>
Section(l) == Within(l, <<>>)

-----------------------------------------------------------------------------
(* allocate_live: receiver.start() under the service lock; the reader      *)
(* threads begin inside it.                                                *)
AllocateLocks(e) ==
  Section(Store) \o
    Within(Service, Section(Store)
                      \o Within(Receiver(e), <<Spawn(Receiver(e))>>))

(* The same when start() raises: the runtime is closed, the row released.  *)
AllocateFailsLocks(e) ==
  Section(Store) \o
    Within(Service, Section(Store) \o Section(Receiver(e))
                      \o Section(Queue(e)) \o Section(Store))

(* open_frame_source.                                                      *)
OpenSourceLocks == Within(Service, Section(Store))

(* put and close of the queue happen under the service lock.               *)
EnqueueLocks(e) == Within(Service, Section(Queue(e)))

(* A showinfo line: on_frame is called with the receiver's lock held.      *)
DecodedPtsLocks(e) == Within(Receiver(e), Section(Service))

(* The end of _read_output: the metrics, then on_end.                      *)
OutputEndsLocks(e) == Section(Receiver(e)) \o EnqueueLocks(e)

(* _wait_for_pts (its wait gives the lock back), the metrics, then         *)
(* on_decoded_frame with no lock held.                                     *)
DecodedFrameLocks(e) ==
  Section(Receiver(e)) \o Section(Receiver(e)) \o EnqueueLocks(e)

(* status(): receiver.snapshot() and the queue's counters under the        *)
(* service lock.                                                           *)
StatusLocks(e) ==
  Section(Store)
    \o Within(Service, Section(Receiver(e)) \o Section(Queue(e)))
    \o Section(Store)

TelemetryLocks(e) == EnqueueLocks(e)

(* Mutant: receiver.stop() inside the critical section.                    *)
ReleaseLocksHolding(e) ==
  Within(Service, Section(Receiver(e)) \o Section(Queue(e)) \o Section(Store))

(* release_live: the runtime, receiver.stop() outside the service lock     *)
(* (the state before and after), then the flush, the close and the row.    *)
ReleaseLocks(e) ==
  Section(Service) \o Section(Receiver(e)) \o Section(Receiver(e))
    \o Within(Service, Section(Queue(e)) \o Section(Store))

(* frame_stream_status, from _emit_metrics and from GET /api/pipeline.     *)
MetricsLocks(e) == Within(Service, Section(Queue(e)))

(* FieldIngestSource.read_packet and is_opened.                            *)
ReadPacketLocks(e) == Section(Queue(e)) \o Section(Queue(e))

-----------------------------------------------------------------------------
VARIABLES
  todo,         \* the lock operations each thread still has to make
  owner,        \* the thread that holds each lock
  started       \* the epochs whose readers run

lockVars == <<todo, owner, started>>

LocksInit ==
  /\ todo = [t \in Thread |-> <<>>]
  /\ owner = [l \in Lock |-> None]
  /\ started = {}

If(call, programs) == IF call \in Calls THEN programs ELSE {}

Handlers ==
  {Section(Store), OpenSourceLocks}
    \cup {AllocateLocks(e) : e \in Epoch \ started}
    \cup {AllocateFailsLocks(e) : e \in Epoch \ started}
    \cup If("status", {StatusLocks(e) : e \in started})
    \cup If("telemetry", {TelemetryLocks(e) : e \in started})
    \cup If("release", {ReleaseLocks(e) : e \in started})
    \cup If("metrics", {MetricsLocks(e) : e \in started})

(* What another thread may be called to do about an epoch: a line of       *)
(* FFmpeg's output or its end, a decoded frame, a turn of the inference    *)
(* loop or its end.                                                        *)
Callbacks(t, e) ==
  CASE t = Stderr(e) -> {DecodedPtsLocks(e), Section(Receiver(e)), OutputEndsLocks(e)}
    [] t = Stdout(e) -> {DecodedFrameLocks(e)}
    [] t \in Pipelines -> {ReadPacketLocks(e), MetricsLocks(e), ReleaseLocks(e)}
    [] OTHER -> {}

Programs(t) ==
  IF t = Loop THEN Handlers ELSE UNION {Callbacks(t, e) : e \in started}

(* A thread that has nothing to do starts a call.                          *)
Begin(t) ==
  /\ todo[t] = <<>>
  /\ \E program \in Programs(t) : todo' = [todo EXCEPT ![t] = program]
  /\ UNCHANGED <<owner, started>>

Does(t, operation) == todo[t] # <<>> /\ Head(todo[t])[1] = operation
Wanted(t) == Head(todo[t])[2]
Advance(t) == todo' = [todo EXCEPT ![t] = Tail(@)]

TakeLock(t) ==
  /\ Does(t, "take")
  /\ owner[Wanted(t)] = None
  /\ owner' = [owner EXCEPT ![Wanted(t)] = t]
  /\ Advance(t)
  /\ UNCHANGED started

GiveLock(t) ==
  /\ Does(t, "give")
  /\ owner' = [owner EXCEPT ![Wanted(t)] = None]
  /\ Advance(t)
  /\ UNCHANGED started

(* receiver.start() starts the readers; a pipeline may then be bound.      *)
SpawnReaders(t) ==
  /\ Does(t, "spawn")
  /\ started' = started \cup {Wanted(t)[2]}
  /\ Advance(t)
  /\ UNCHANGED owner

LocksNext ==
  \E t \in Thread : Begin(t) \/ TakeLock(t) \/ GiveLock(t) \/ SpawnReaders(t)

LocksSpec == LocksInit /\ [][LocksNext]_lockVars

-----------------------------------------------------------------------------
Held(t) == {l \in Lock : owner[l] = t}

(* Besides the types: a thread that holds a lock still has it to give back.*)
LocksTypeOK ==
  /\ owner \in [Lock -> Thread \cup {None}]
  /\ started \subseteq Epoch
  /\ todo \in [Thread -> Seq({"take", "give", "spawn"} \X Lock)]
  /\ \A t \in Thread : \A l \in Held(t) : Give(l) \in Range(todo[t])

(* Who waits for whom.                                                     *)
WaitsFor(t) ==
  IF Does(t, "take") /\ owner[Wanted(t)] # None THEN {owner[Wanted(t)]} ELSE {}

(* "Reader threads call back into this service. Joining them while the     *)
(* service lock is held deadlocks teardown" (service.py): no set of        *)
(* threads may wait for one another, nor a thread for itself.  Without the *)
(* status call no interleaving of allocation, telemetry, decoding, metrics *)
(* and release closes a cycle.                                             *)
NoWaitCycle ==
  \A group \in (SUBSET Thread) \ {{}} :
    \E t \in group : WaitsFor(t) \cap group = {}
=============================================================================
