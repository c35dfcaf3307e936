----------------------------- MODULE FieldEpoch -----------------------------
(***************************************************************************)
(* The life of a live epoch in app/field_ingest: the rows SQLite keeps     *)
(* (FieldSessionStore), the runtimes the service keeps in memory           *)
(* (FieldIngestService._epochs), the FFmpeg process of each receiver, and  *)
(* the inference pipeline bound to an epoch (app/server/main.py).          *)
(*                                                                         *)
(* Processes.  Loop is the asyncio event loop: every HTTP handler is an    *)
(* "async def" that calls blocking code, so handlers never overlap, and    *)
(* Loop is one sequential process.  A Thread is a pipeline thread running  *)
(* InferencePipeline._run_loop.  Loop and the threads both end up in       *)
(* release_live, which takes the service lock twice and runs               *)
(* receiver.stop() between the two: those are three separate steps.  The   *)
(* receiver's stderr thread reports the end of FFmpeg (ReceiverEnd).       *)
(*                                                                         *)
(* The service lock is held across steps only inside allocate_live         *)
(* (pc[Loop] = "creating"); everywhere else one step is one critical       *)
(* section.  MaxEpoch bounds the epochs of a session and Thread the        *)
(* pipeline threads alive at once; Faults switches on the faults a run     *)
(* considers.                                                              *)
(***************************************************************************)
EXTENDS Naturals

CONSTANTS
  Session,      \* session ids a device may register
  MaxEpoch,     \* bound on the epochs of one session
  Thread,       \* pipeline threads
  Loop,         \* the event loop
  NoKey,        \* no epoch
  Faults        \* a subset of {"crash", "disk", "frame", "kill"}

ASSUME ConstantsAssumption ==
  /\ MaxEpoch \in Nat
  /\ Loop \notin Thread
  /\ NoKey \notin Session \X (1 .. MaxEpoch)
  /\ Faults \subseteq {"crash", "disk", "frame", "kill"}

Epoch == 1 .. MaxEpoch
Key == Session \X Epoch
Proc == Thread \cup {Loop}

VARIABLES
  session,      \* sessions.status of each session, "none" when not registered
  row,          \* live_epochs.status of each key, "none" when there is no row
  runtimes,     \* the keys of FieldIngestService._epochs
  attached,     \* the runtimes whose consumer_attached is set
  closed,       \* the keys whose frame queue is closed
  ffmpeg,       \* the receiver process of each key
  released,     \* the keys whose FieldIngestSource._released is set
  running,      \* the keys whose pipeline's _running is set
  slot,         \* the key of the pipeline in main._pipeline
  pc,           \* where each process is
  target,       \* the key each process is working on
  op,           \* the handler Loop resumes when a release returns
  next          \* the key of the pipeline that handler is building

db == <<session, row>>
service == <<runtimes, attached, closed>>
pipeline == <<released, running, slot>>
control == <<pc, target, op, next>>
vars == <<db, service, ffmpeg, pipeline, control>>

Phase == {"idle", "creating", "built", "starting", "run",
          "check", "set", "read", "stop", "finish", "return"}
Op == {"none", "delete", "fail", "attach", "unstart", "stop"}

TypeOK ==
  /\ session \in [Session -> {"none", "registered", "live", "complete"}]
  /\ row \in [Key -> {"none", "active", "released"}]
  /\ runtimes \subseteq Key
  /\ attached \subseteq runtimes
  /\ closed \subseteq Key
  /\ ffmpeg \in [Key -> {"none", "running", "exited", "stuck", "orphan"}]
  /\ released \subseteq Key
  /\ running \subseteq Key
  /\ slot \in Key \cup {NoKey}
  /\ pc \in [Proc -> Phase]
  /\ target \in [Proc -> Key \cup {NoKey}]
  /\ op \in Op
  /\ next \in Key \cup {NoKey}

Init ==
  /\ session = [s \in Session |-> "none"]
  /\ row = [k \in Key |-> "none"]
  /\ runtimes = {} /\ attached = {} /\ closed = {}
  /\ ffmpeg = [k \in Key |-> "none"]
  /\ released = {} /\ running = {} /\ slot = NoKey
  /\ pc = [p \in Proc |-> "idle"]
  /\ target = [p \in Proc |-> NoKey]
  /\ op = "none"
  /\ next = NoKey

Goto(p, phase) == pc' = [pc EXCEPT ![p] = phase]

Call(p, phase, k) ==
  /\ Goto(p, phase)
  /\ target' = [target EXCEPT ![p] = k]

(* Nobody is inside allocate_live, the one long critical section.          *)
LockFree == pc[Loop] # "creating"

-----------------------------------------------------------------------------
(* The store: has_active_epoch, next_epoch (MAX + 1), release_epoch,       *)
(* create_epoch.                                                           *)

(* Mutant: the service asks its memory, not the store.                     *)
HasRuntime == runtimes # {}

HasActiveEpoch == \E k \in Key : row[k] = "active"

(* Mutant: MAX over the active rows only.                                  *)
IsNextActiveEpoch(s, e) ==
  /\ \A d \in Epoch : d >= e => row[<<s, d>>] # "active"
  /\ e > 1 => row[<<s, e - 1>>] = "active"

IsNextEpoch(s, e) ==
  /\ \A d \in Epoch : d >= e => row[<<s, d>>] = "none"
  /\ e > 1 => row[<<s, e - 1>>] # "none"

(* Mutant: the session row is forgotten.                                   *)
ReleaseRow(k) ==
  /\ row' = [row EXCEPT ![k] = IF @ = "active" THEN "released" ELSE @]
  /\ UNCHANGED session

(* The row only leaves "active"; the session is set to "registered"        *)
(* whatever it and the row were (an UPDATE of an unknown session is void). *)
ReleaseEpoch(k) ==
  /\ row' = [row EXCEPT ![k] = IF @ = "active" THEN "released" ELSE @]
  /\ session' = [session EXCEPT
                   ![k[1]] = IF @ = "none" THEN @ ELSE "registered"]

CreateEpoch(s, e) ==
  /\ row' = [row EXCEPT ![<<s, e>>] = "active"]
  /\ session' = [session EXCEPT ![s] = "live"]

-----------------------------------------------------------------------------
(* Handlers of the event loop.                                             *)

Register(s) ==
  /\ pc[Loop] = "idle"
  /\ session[s] = "none"
  /\ session' = [session EXCEPT ![s] = "registered"]
  /\ UNCHANGED <<row, service, ffmpeg, pipeline, control>>

Complete(s) ==
  /\ pc[Loop] = "idle"
  /\ session[s] # "none"
  /\ session' = [session EXCEPT ![s] = "complete"]
  /\ UNCHANGED <<row, service, ffmpeg, pipeline, control>>

(* allocate_live up to the commit of create_epoch.  The lock stays held.   *)
AllocateBegin(s, e) ==
  /\ pc[Loop] = "idle"
  /\ session[s] # "none"
  /\ ~HasActiveEpoch
  /\ IsNextEpoch(s, e)
  /\ CreateEpoch(s, e)
  /\ Call(Loop, "creating", <<s, e>>)
  /\ UNCHANGED <<service, ffmpeg, pipeline, op, next>>

(* The receiver starts: the runtime is in _epochs and FFmpeg listens.      *)
AllocateStart ==
  LET k == target[Loop]
  IN /\ pc[Loop] = "creating"
     /\ runtimes' = runtimes \cup {k}
     /\ ffmpeg' = [ffmpeg EXCEPT ![k] = "running"]
     /\ Call(Loop, "idle", NoKey)
     /\ UNCHANGED <<db, attached, closed, pipeline, op, next>>

(* Mutant: the failed start pops the runtime and keeps the row.            *)
AllocateStartLeaks ==
  /\ pc[Loop] = "creating"
  /\ Call(Loop, "idle", NoKey)
  /\ UNCHANGED <<db, service, ffmpeg, pipeline, op, next>>

(* receiver.start() raises: the runtime is popped and the row released.    *)
AllocateStartFails ==
  LET k == target[Loop]
  IN /\ pc[Loop] = "creating"
     /\ ReleaseEpoch(k)
     /\ Call(Loop, "idle", NoKey)
     /\ UNCHANGED <<service, ffmpeg, pipeline, op, next>>

(* mkdir or open raises after create_epoch committed: no cleanup covers it.*)
AllocateDiskFails ==
  /\ "disk" \in Faults
  /\ pc[Loop] = "creating"
  /\ Call(Loop, "idle", NoKey)
  /\ UNCHANGED <<db, service, ffmpeg, pipeline, op, next>>

(* DELETE .../live/{epoch}: any pair, whether it has a row or not.         *)
Delete(k) ==
  /\ pc[Loop] = "idle"
  /\ Call(Loop, "read", k)
  /\ op' = "delete"
  /\ UNCHANGED <<db, service, ffmpeg, pipeline, next>>

(* Mutant: consumer_attached is not looked at.                             *)
OpenFrameSourceShared(k) ==
  /\ pc[Loop] = "idle"
  /\ k \in runtimes
  /\ attached' = attached \cup {k}
  /\ Goto(Loop, "built")
  /\ next' = k
  /\ UNCHANGED <<db, runtimes, closed, ffmpeg, pipeline, target, op>>

(* create_pipeline up to open_frame_source, which claims the consumer.     *)
OpenFrameSource(k) ==
  /\ pc[Loop] = "idle"
  /\ k \in runtimes \ attached
  /\ attached' = attached \cup {k}
  /\ Goto(Loop, "built")
  /\ next' = k
  /\ UNCHANGED <<db, runtimes, closed, ffmpeg, pipeline, target, op>>

(* InferencePipeline() raises: create_pipeline releases the source.        *)
ConstructFails ==
  /\ pc[Loop] = "built"
  /\ Call(Loop, "check", next)
  /\ op' = "fail"
  /\ UNCHANGED <<db, service, ffmpeg, pipeline, next>>

(* attach_and_start_pipeline stops the pipeline in the slot first.         *)
AttachReplaces ==
  /\ pc[Loop] = "built"
  /\ slot # NoKey
  /\ running' = running \ {slot}
  /\ Call(Loop, "check", slot)
  /\ op' = "attach"
  /\ UNCHANGED <<db, service, ffmpeg, released, slot, next>>

AttachFirst ==
  /\ pc[Loop] = "built"
  /\ slot = NoKey
  /\ slot' = next
  /\ Goto(Loop, "starting")
  /\ UNCHANGED <<db, service, ffmpeg, released, running, target, op, next>>

(* InferencePipeline.start: _running and a new thread over the source.     *)
Spawn(t, k) ==
  /\ pc[t] = "idle"
  /\ running' = running \cup {k}

StartPipeline(t) ==
  /\ pc[Loop] = "starting"
  /\ Spawn(t, next)
  /\ pc' = [pc EXCEPT ![t] = "run", ![Loop] = "idle"]
  /\ target' = [target EXCEPT ![t] = next]
  /\ next' = NoKey
  /\ UNCHANGED <<db, service, ffmpeg, released, slot, op>>

(* start() raises: the handler stops the pipeline, then clears the slot.   *)
StartFails ==
  /\ pc[Loop] = "starting"
  /\ running' = running \ {next}
  /\ Call(Loop, "check", next)
  /\ op' = "unstart"
  /\ UNCHANGED <<db, service, ffmpeg, released, slot, next>>

(* POST /api/pipeline/start without a source: start() the one in the slot. *)
Resume(t) ==
  /\ pc[Loop] = "idle"
  /\ slot # NoKey
  /\ slot \notin running
  /\ Spawn(t, slot)
  /\ Call(t, "run", slot)
  /\ UNCHANGED <<db, service, ffmpeg, released, slot, op, next>>

(* POST /api/pipeline/stop, server shutdown, or a local-file pipeline that *)
(* takes the slot.                                                         *)
StopPipeline ==
  /\ pc[Loop] = "idle"
  /\ slot # NoKey
  /\ running' = running \ {slot}
  /\ Call(Loop, "check", slot)
  /\ op' = "stop"
  /\ UNCHANGED <<db, service, ffmpeg, released, slot, next>>

(* What the handler does once the release it called has returned.          *)
HandlerReturns ==
  /\ pc[Loop] = "return"
  /\ slot' = CASE op = "attach" -> next
               [] op \in {"unstart", "stop"} -> NoKey
               [] OTHER -> slot
  /\ Call(Loop, IF op = "attach" THEN "starting" ELSE "idle", NoKey)
  /\ next' = IF op = "attach" THEN next ELSE NoKey
  /\ op' = "none"
  /\ UNCHANGED <<db, service, ffmpeg, released, running>>

-----------------------------------------------------------------------------
(* A pipeline thread leaves its loop when it was stopped, or when its      *)
(* source is released or at end of stream, and then releases the source.   *)

LeaveLoop(t) ==
  /\ t # Loop
  /\ pc[t] = "run"
  /\ running' = running \ {target[t]}
  /\ Goto(t, "check")
  /\ UNCHANGED <<db, service, ffmpeg, released, slot, target, op, next>>

LoopEnds(t) ==
  /\ \/ target[t] \notin running
     \/ target[t] \in released \cup closed
  /\ LeaveLoop(t)

(* A frame that cannot be read or processed ends the loop of a live epoch  *)
(* with an exception; its finally clause is the same.                      *)
LoopFails(t) == "frame" \in Faults /\ LeaveLoop(t)

ThreadReturns(t) ==
  /\ t # Loop
  /\ pc[t] = "return"
  /\ Call(t, "idle", NoKey)
  /\ UNCHANGED <<db, service, ffmpeg, pipeline, op, next>>

(* FieldIngestSource.release: the flag is read, then set, with no lock.    *)
ReleaseCheck(p) ==
  /\ pc[p] = "check"
  /\ Goto(p, IF target[p] \in released THEN "return" ELSE "set")
  /\ UNCHANGED <<db, service, ffmpeg, pipeline, target, op, next>>

ReleaseSet(p) ==
  /\ pc[p] = "set"
  /\ released' = released \cup {target[p]}
  /\ Goto(p, "read")
  /\ UNCHANGED <<db, service, ffmpeg, running, slot, target, op, next>>

(* release_live, first critical section: is there a receiver to stop?      *)
ReleaseRead(p) ==
  /\ pc[p] = "read"
  /\ LockFree
  /\ Goto(p, IF target[p] \in runtimes THEN "stop" ELSE "finish")
  /\ UNCHANGED <<db, service, ffmpeg, pipeline, target, op, next>>

(* receiver.stop(), outside the lock: SIGTERM, then SIGKILL.               *)
ReleaseStop(p) ==
  /\ pc[p] = "stop"
  /\ ffmpeg' = [ffmpeg EXCEPT ![target[p]] =
                  IF @ = "running" THEN "exited" ELSE @]
  /\ Goto(p, "finish")
  /\ UNCHANGED <<db, service, pipeline, target, op, next>>

(* The process outlives SIGKILL by 3 s and stop() raises; the finally      *)
(* clause of release_live runs all the same.                               *)
ReleaseStopFails(p) ==
  /\ "kill" \in Faults
  /\ pc[p] = "stop"
  /\ ffmpeg[target[p]] = "running"
  /\ ffmpeg' = [ffmpeg EXCEPT ![target[p]] = "stuck"]
  /\ Goto(p, "finish")
  /\ UNCHANGED <<db, service, pipeline, target, op, next>>

(* Mutant: the runtime of every epoch of the session goes.                 *)
DropSession(k) ==
  /\ runtimes' = {r \in runtimes : r[1] # k[1]}
  /\ attached' = {r \in attached : r[1] # k[1]}
  /\ closed' = closed \cup {r \in runtimes : r[1] = k[1]}

(* The runtime leaves _epochs behind the flush and the close of its queue. *)
DropRuntime(k) ==
  /\ runtimes' = runtimes \ {k}
  /\ attached' = attached \ {k}
  /\ closed' = closed \cup (runtimes \cap {k})

(* release_live, second critical section: drop the runtime and the row.    *)
ReleaseFinish(p) ==
  /\ pc[p] = "finish"
  /\ LockFree
  /\ DropRuntime(target[p])
  /\ ReleaseEpoch(target[p])
  /\ Goto(p, "return")
  /\ UNCHANGED <<ffmpeg, pipeline, target, op, next>>

-----------------------------------------------------------------------------
(* The receiver and the host.                                              *)

(* FFmpeg ends by itself: the phone stopped, the network failed.           *)
ReceiverExits(k) ==
  /\ ffmpeg[k] = "running"
  /\ ffmpeg' = [ffmpeg EXCEPT ![k] = "exited"]
  /\ UNCHANGED <<db, service, pipeline, control>>

(* Mutant: the queue of an attached consumer is left open.                 *)
ReceiverEndUnattached(k) ==
  /\ ffmpeg[k] \in {"exited", "stuck"}
  /\ k \in runtimes \ (closed \cup attached)
  /\ LockFree
  /\ closed' = closed \cup {k}
  /\ UNCHANGED <<db, runtimes, attached, ffmpeg, pipeline, control>>

(* _read_output ends and calls on_end, which closes the queue.             *)
ReceiverEnd(k) ==
  /\ ffmpeg[k] \in {"exited", "stuck"}
  /\ k \in runtimes \ closed
  /\ LockFree
  /\ closed' = closed \cup {k}
  /\ UNCHANGED <<db, runtimes, attached, ffmpeg, pipeline, control>>

(* The server dies and starts again on the same database.  FFmpeg is in    *)
(* a session of its own (start_new_session) and goes on without an owner.  *)
Crash ==
  /\ "crash" \in Faults
  /\ runtimes' = {} /\ attached' = {} /\ closed' = {}
  /\ ffmpeg' = [k \in Key |->
                  IF ffmpeg[k] = "running" THEN "orphan" ELSE ffmpeg[k]]
  /\ released' = {} /\ running' = {} /\ slot' = NoKey
  /\ pc' = [p \in Proc |-> "idle"]
  /\ target' = [p \in Proc |-> NoKey]
  /\ op' = "none"
  /\ next' = NoKey
  /\ UNCHANGED db

-----------------------------------------------------------------------------
Release(p) ==
  \/ ReleaseCheck(p)
  \/ ReleaseSet(p)
  \/ ReleaseRead(p)
  \/ ReleaseStop(p)
  \/ ReleaseStopFails(p)
  \/ ReleaseFinish(p)

Request ==
  \/ \E s \in Session : Register(s) \/ Complete(s)
  \/ \E s \in Session, e \in Epoch : AllocateBegin(s, e)
  \/ \E k \in Key : Delete(k) \/ OpenFrameSource(k)
  \/ \E t \in Thread : Resume(t)
  \/ StopPipeline

Handler ==
  \/ AllocateStart \/ AllocateStartFails \/ AllocateDiskFails
  \/ ConstructFails \/ AttachReplaces \/ AttachFirst
  \/ \E t \in Thread : StartPipeline(t)
  \/ StartFails
  \/ HandlerReturns

PipelineThread(t) == LoopEnds(t) \/ ThreadReturns(t)

Receiver(k) == ReceiverExits(k) \/ ReceiverEnd(k)

Next ==
  \/ Request
  \/ Handler
  \/ \E t \in Thread : PipelineThread(t) \/ LoopFails(t)
  \/ \E p \in Proc : Release(p)
  \/ \E k \in Key : Receiver(k)
  \/ Crash

(* A handler or a thread that has begun runs on, and the stderr reader     *)
(* sees the end of its process; requests, exits and faults need not occur. *)
Fairness ==
  /\ WF_vars(Handler)
  /\ \A t \in Thread : WF_vars(PipelineThread(t))
  /\ \A p \in Proc : WF_vars(Release(p))
  /\ \A k \in Key : WF_vars(ReceiverEnd(k))

Spec == Init /\ [][Next]_vars
FairSpec == Spec /\ Fairness

-----------------------------------------------------------------------------
(* At most one epoch of the whole server is active, whatever sequence of   *)
(* allocations, releases, failures and restarts led here                   *)
(* (has_active_epoch guards create_epoch).                                 *)
SingleActiveEpoch ==
  \A j, k \in Key : row[j] = "active" /\ row[k] = "active" => j = k

(* A receiver process the server owns always has its runtime and its       *)
(* active row: no release, however it races with another one, gives the    *)
(* slot away while FFmpeg still listens on the SRT port.                   *)
ReceiverBacked ==
  \A k \in Key :
    ffmpeg[k] = "running" => k \in runtimes /\ row[k] = "active"

(* The status a client reads: a session is "live" only while one of its    *)
(* epochs is active.                                                       *)
LiveHasActiveEpoch ==
  \A s \in Session :
    session[s] = "live" => \E e \in Epoch : row[<<s, e>>] = "active"

(* The single inference consumer: two pipeline threads never read the same *)
(* live epoch, and no pipeline is built over an epoch that a thread of an  *)
(* earlier pipeline still reads, even while one pipeline replaces another. *)
SingleConsumer ==
  \A t \in Thread :
    pc[t] = "run" /\ target[t] \in runtimes =>
      /\ target[t] # next
      /\ \A u \in Thread \ {t} : pc[u] = "run" => target[u] # target[t]

(* With no crash and no disk fault an active row is always backed by a     *)
(* runtime that release_live can drop: the slot is never held by nobody.   *)
ActiveHasRuntime ==
  Faults \cap {"crash", "disk"} = {} =>
    \A k \in Key :
      row[k] = "active" => k \in runtimes \/ pc[Loop] = "creating"

(* An epoch number is allocated once: a row that exists never goes back to *)
(* absent, a released row never becomes active again, and a new epoch is   *)
(* above every earlier one of its session.                                 *)
EpochNeverReused ==
  [][\A s \in Session, e \in Epoch :
       /\ row[<<s, e>>] = "released" => row'[<<s, e>>] = "released"
       /\ row[<<s, e>>] # "none" => row'[<<s, e>>] # "none"
       /\ row[<<s, e>>] = "none" /\ row'[<<s, e>>] # "none" =>
            \A d \in Epoch : d > e => row[<<s, d>>] = "none"]_vars

(* A release touches only its own epoch: however late a stale release      *)
(* runs, the epoch that is live by then keeps its runtime, its receiver,   *)
(* its consumer and its row.                                               *)
StaleReleaseHarmless ==
  [][\A p \in Proc :
       pc[p] \in {"stop", "finish"} /\ pc'[p] # pc[p] /\ pc'[p] # "idle" =>
         \A k \in Key \ {target[p]} :
           /\ row'[k] = row[k]
           /\ ffmpeg'[k] = ffmpeg[k]
           /\ k \in runtimes <=> k \in runtimes'
           /\ k \in attached <=> k \in attached']_vars

(* A live epoch bound to a pipeline whose receiver has ended is released   *)
(* without any request, so the slot frees itself for the next device.      *)
EndedEpochReleased ==
  \A k \in Key :
    /\ ffmpeg[k] = "exited"
    /\ \E t \in Thread : pc[t] = "run" /\ target[t] = k
    ~> row[k] = "released"

(* The slot as a lease.                                                    *)
LeaseHolder ==
  IF HasActiveEpoch THEN CHOOSE k \in Key : row[k] = "active" ELSE NoKey

Lease == INSTANCE LiveLease WITH
  holder <- LeaseHolder,
  granted <- {k \in Key : row[k] # "none"},
  serving <- {k \in Key : ffmpeg[k] = "running"}

(* Every behaviour of the service is a behaviour of the lease: one holder, *)
(* no key granted twice, and no receiver running without the slot.         *)
ImplementsLease == Lease!Spec
=============================================================================
