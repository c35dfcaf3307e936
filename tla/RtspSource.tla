----------------------------- MODULE RtspSource -----------------------------
(***************************************************************************)
(* RTSPSource of app/pipeline/source.py between the pipeline thread, which *)
(* calls read() and is_opened(), and a handler of the event loop, which    *)
(* calls release() from InferencePipeline.stop.                            *)
(*                                                                         *)
(* _lock is a threading.Lock: it is not reentrant.  A method is the step   *)
(* that takes it followed by the steps it takes while holding it.          *)
(***************************************************************************)
EXTENDS Naturals

CONSTANT MaxAttempts    \* MAX_RECONNECT_ATTEMPTS

VARIABLES
  lock,         \* who holds _lock: "free", "reader" or "handler"
  capture,      \* "none", "open" or "failed" (a capture that is not opened)
  reader,       \* where the pipeline thread is
  handler,      \* the handler of stop: "idle", "stopping" or "stopped"
  attempts,     \* _reconnect_attempts
  status        \* store.source_status

vars == <<lock, capture, reader, handler, attempts, status>>

TypeOK ==
  /\ lock \in {"free", "reader", "handler"}
  /\ capture \in {"none", "open", "failed"}
  /\ reader \in {"check", "read", "opening", "reconnecting", "ask", "ended"}
  /\ handler \in {"idle", "stopping", "stopped"}
  /\ attempts \in 0 .. MaxAttempts
  /\ status \in {"disconnected", "connected", "reconnecting", "error"}

(* The constructor opens nothing.                                          *)
Init ==
  /\ lock = "free" /\ capture = "none" /\ reader = "check"
  /\ handler = "idle" /\ attempts = 0 /\ status = "disconnected"

Take(who) == lock = "free" /\ lock' = who

(* read() takes the lock; without a capture it calls _open_capture.        *)
Read ==
  /\ reader = "check" /\ handler = "idle"
  /\ Take("reader")
  /\ reader' = IF capture = "none" THEN "opening" ELSE "read"
  /\ UNCHANGED <<capture, handler, attempts, status>>

(* _open_capture, called by read() and by _attempt_reconnect with the lock *)
(* held, takes the lock itself.                                            *)
OpenCapture ==
  /\ reader = "opening"
  /\ Take("reader")
  /\ capture' \in {"open", "failed"}
  /\ reader' = IF status = "reconnecting" THEN "ask" ELSE "read"
  /\ UNCHANGED <<handler, attempts, status>>

(* A frame, with the status and the attempts reset.                        *)
ReadFrame ==
  /\ reader = "read" /\ capture = "open"
  /\ status' = "connected" /\ attempts' = 0
  /\ lock' = "free" /\ reader' = "check"
  /\ UNCHANGED <<capture, handler>>

ReadFails ==
  /\ reader = "read"
  /\ status' = IF capture = "open" THEN "disconnected" ELSE status
  /\ reader' = "reconnecting"
  /\ UNCHANGED <<lock, capture, handler, attempts>>

(* _attempt_reconnect: after MaxAttempts the source gives up.              *)
Reconnect ==
  /\ reader = "reconnecting"
  /\ IF attempts = MaxAttempts
       THEN /\ status' = "error" /\ lock' = "free" /\ reader' = "ask"
            /\ UNCHANGED attempts
       ELSE /\ status' = "reconnecting" /\ attempts' = attempts + 1
            /\ reader' = "opening"
            /\ UNCHANGED lock
  /\ UNCHANGED <<capture, handler>>

(* After a read that failed the loop asks is_opened(), and ends on "no".   *)
AskOpened ==
  /\ reader = "ask" /\ lock = "free"
  /\ reader' = IF capture = "open" THEN "check" ELSE "ended"
  /\ UNCHANGED <<lock, capture, handler, attempts, status>>

(* The loop leaves when stop() has cleared _running.                       *)
Leave ==
  /\ reader = "check" /\ handler # "idle"
  /\ reader' = "ended"
  /\ UNCHANGED <<lock, capture, handler, attempts, status>>

Stop ==
  /\ handler = "idle"
  /\ handler' = "stopping"
  /\ UNCHANGED <<lock, capture, reader, attempts, status>>

ReleaseCapture ==
  /\ handler = "stopping" /\ lock = "free"
  /\ capture' = "none"
  /\ status' = "disconnected"
  /\ handler' = "stopped"
  /\ UNCHANGED <<lock, reader, attempts>>

ReaderStep ==
  \/ Read \/ OpenCapture \/ ReadFrame \/ ReadFails \/ Reconnect \/ AskOpened
  \/ Leave

Next == ReaderStep \/ Stop \/ ReleaseCapture

Spec ==
  /\ Init /\ [][Next]_vars
  /\ WF_vars(ReaderStep) /\ WF_vars(ReleaseCapture)

(* The first read() opens the capture, as the constructor's comment says   *)
(* ("the first read() will trigger it"), unless the loop ends first.       *)
FirstReadOpens == reader = "opening" ~> capture # "none" \/ reader = "ended"
=============================================================================
