----------------------------- MODULE LiveBridge -----------------------------
(***************************************************************************)
(* One live epoch from the decoded frames to the inference loop: the       *)
(* joiner, the LatestFrameQueue behind it (FieldIngestService              *)
(* ._enqueue_captured puts whatever a joiner call returns), the end of the *)
(* receiver, which flushes the joiner and then closes the queue            *)
(* (_record_receiver_end), FieldIngestSource and the reading half of       *)
(* InferencePipeline._run_loop.                                            *)
(*                                                                         *)
(* A joiner call and the puts of what it returns are one critical section  *)
(* of the service lock: no other call comes between them, but the consumer *)
(* does, since it takes only the queue's condition, in get and in closed.  *)
(***************************************************************************)
EXTENDS FrameJoiner, FrameQueue

VARIABLES
  putting,      \* frames a joiner call returned that are not yet put
  closing,      \* the receiver has ended: close follows the puts
  queue,        \* the LatestFrameQueue of the epoch
  refused,      \* frames put after the close
  released,     \* FieldIngestSource._released
  consumer,     \* where _run_loop is
  seen          \* the frames it took, in the order it took them

delivery == <<putting, closing, queue, refused>>
reading == <<released, consumer, seen>>
bridgeVars == <<vars, delivery, reading>>

NewSource == released = FALSE /\ consumer = "read" /\ seen = <<>>

BridgeInit ==
  /\ Init
  /\ putting = <<>> /\ closing = FALSE
  /\ queue = EmptyQueue /\ refused = 0
  /\ NewSource

-----------------------------------------------------------------------------
(* The producers, under the service lock.                                  *)

(* The lock is free, and this call leaves to be put what it returns.       *)
EnqueueCaptured ==
  /\ putting = <<>> /\ (closing => queue.closed)
  /\ putting' = SubSeq(emitted', Len(emitted) + 1, Len(emitted'))
  /\ UNCHANGED <<queue, refused, reading>>

RecordTelemetry ==
  /\ \/ \E m \in Frame : IngestFrame(m)
     \/ IngestOther
  /\ EnqueueCaptured
  /\ UNCHANGED closing

RecordDecodedFrame ==
  /\ \E n \in Frame : \E pts \in {n, NoPts} : IngestDecoded(n, pts)
  /\ EnqueueCaptured
  /\ UNCHANGED closing

(* The end of FFmpeg, or the release of the epoch.                         *)
RecordReceiverEnd ==
  /\ Flush
  /\ EnqueueCaptured
  /\ closing' = TRUE

PutFrame ==
  /\ putting # <<>>
  /\ putting' = Tail(putting)
  /\ queue' = Put(queue, Head(putting))
  /\ refused' = IF queue.closed THEN refused + 1 ELSE refused
  /\ UNCHANGED <<vars, closing, reading>>

CloseQueue ==
  /\ closing /\ putting = <<>> /\ ~queue.closed
  /\ queue' = Close(queue)
  /\ UNCHANGED <<vars, putting, closing, refused, reading>>

Elapse == Tick /\ UNCHANGED <<delivery, reading>>

-----------------------------------------------------------------------------
(* The consumer: read_packet, is_opened, _process_frame.                   *)

(* FieldIngestSource.release, on the event loop: the flag comes first, the *)
(* epoch is released afterwards (RecordReceiverEnd).                       *)
ReleaseSource ==
  /\ ~released
  /\ released' = TRUE
  /\ UNCHANGED <<vars, delivery, consumer, seen>>

Consumer(from, to) ==
  /\ consumer = from /\ consumer' = to
  /\ UNCHANGED <<vars, delivery, released, seen>>

ReadPacket == Consumer("read", IF released THEN "empty" ELSE "get")

(* get takes the newest frame, before or after its one wait.               *)
TakeFrame ==
  /\ consumer \in {"get", "wait"}
  /\ queue.items # <<>>
  /\ seen' = Append(seen, Newest(queue).frame)
  /\ queue' = Taken(queue)
  /\ consumer' = "process"
  /\ UNCHANGED <<vars, putting, closing, refused, released>>

GetWaits ==
  /\ queue.items = <<>> /\ ~queue.closed
  /\ Consumer("get", "wait")

(* The wait timed out, or the queue was closed: get returns None.          *)
GetNothing ==
  /\ queue.items = <<>>
  /\ Consumer("wait", "empty") \/ (queue.closed /\ Consumer("get", "empty"))

(* Mutant: is_opened looks at the flag only.                               *)
AskReleased == Consumer("empty", IF released THEN "ended" ELSE "read")

(* _run_loop asks is_opened and either leaves or reads again.              *)
AskOpened ==
  Consumer("empty", IF released \/ queue.closed THEN "ended" ELSE "read")

ProcessFrame == Consumer("process", "read")

Consume ==
  \/ ReadPacket \/ TakeFrame \/ GetWaits \/ GetNothing \/ AskOpened
  \/ ProcessFrame

Putting == PutFrame \/ CloseQueue

BridgeNext ==
  \/ RecordTelemetry \/ RecordDecodedFrame \/ RecordReceiverEnd \/ Putting
  \/ Elapse \/ ReleaseSource \/ Consume

(* The consumer thread runs, and a critical section that has begun runs    *)
(* on; frames, ends of stream and releases need not come.                  *)
BridgeSpec ==
  /\ BridgeInit /\ [][BridgeNext]_bridgeVars
  /\ WF_bridgeVars(Consume) /\ WF_bridgeVars(Putting)

-----------------------------------------------------------------------------
(* End to end, the counters a client reads add up: every decoded frame is  *)
(* waiting in the joiner, about to be put, queued, taken, dropped by the   *)
(* queue, or refused because the stream had ended.  None is inferred twice *)
(* or queued after it was taken.                                           *)
BridgeConserved ==
  LET queued == [i \in DOMAIN queue.items |-> queue.items[i].frame]
  IN /\ IsInjective(seen \o queued)
     /\ Cardinality(decoded) =
          Len(pending) + Len(putting) + Len(queue.items) + Len(seen)
            + queue.dropped + refused

(* What the joiner has emitted, by frame, and how much of it was put       *)
(* before the queue was closed.                                            *)
Sent == [i \in DOMAIN emitted |-> emitted[i].frame]
Accepted == (Len(emitted) - Len(putting)) - refused

Mailbox == INSTANCE FrameMailbox
           WITH sent <- Sent, accepted <- Accepted, taken <- seen, closed <- queue.closed

(* "A bounded queue for live inference which always favors the newest      *)
(* frame" (LatestFrameQueue): whatever was waiting, dropped or refused in  *)
(* between, the loop takes the frame that was put last, never one it has   *)
(* taken before and never one that was put before one it has taken.  What  *)
(* it takes after the close is the last frame put before it; that it does  *)
(* take that one is not implied, and the code does not see to it.          *)
ImplementsMailbox == Mailbox!Spec

(* The loop comes to an end once the queue is closed or the source is      *)
(* released: the thread of a finished epoch does not linger.               *)
ConsumerEnds == (queue.closed \/ released) ~> consumer = "ended"

=============================================================================
