---------------------------- MODULE TelemetryAck ----------------------------
(***************************************************************************)
(* The telemetry WebSocket of one session: telemetry_socket in             *)
(* app/field_ingest/api.py and ingest_batch, with its sequence, gap and    *)
(* duplicate accounting.                                                   *)
(*                                                                         *)
(* The phone numbers its batches and may send one again.  A socket keeps   *)
(* order; when it breaks, the batches the server has not read yet may be   *)
(* lost from some point on, the phone goes on over a new socket, and the   *)
(* server handles what is left of the old one, and its disconnect, at any  *)
(* later time.  Every handler runs on the event loop, so one batch is one  *)
(* step.  epoch is fixed: 1 is a live epoch, whose runtime allocate_live   *)
(* opened and release_live drops; 0 is telemetry without video, whose      *)
(* runtime the first batch opens and any disconnect drops.                 *)
(* MaxSequence bounds the numbers, MaxFlight the unread batches, MaxResent *)
(* the batches sent again or without a number.                             *)
(***************************************************************************)
EXTENDS Integers, Sequences, FiniteSets, FiniteSetsExt

CONSTANTS
  MaxSequence,  \* bound on the phone's sequence numbers
  MaxFlight,    \* bound on the unread batches of a socket
  MaxResent,    \* bound on the batches that carry no new number
  Capacity,     \* missing_sequences kept for one acknowledgement (128)
  Socket        \* the sockets the phone opens, one after the other

ASSUME TelemetryAssumption == {MaxSequence, MaxFlight, MaxResent, Capacity} \subseteq Nat

Sequence == 1 .. MaxSequence
NoSequence == 0        \* a legacy message without a sequence

VARIABLES
  epoch,        \* the epoch the batches name
  sent,         \* the highest sequence the phone has used
  resent,       \* the batches without a new number so far
  socket,       \* "none", "open", "broken" or "gone", for each socket
  flight,       \* the batches of each socket the server has not read
  runtime,      \* whether _epochs has the epoch
  lastSeq,      \* last_client_sequence
  gapCount,     \* gap_count
  duplicates,   \* duplicate_count
  ack,          \* client_sequence of the last acknowledgement
  received,     \* the sequences this runtime has ingested
  advanced,     \* those that moved lastSeq
  reported      \* the sequences acknowledgements have reported missing

counters == <<lastSeq, gapCount, duplicates, received, advanced, reported>>
vars == <<epoch, sent, resent, socket, flight, runtime, counters, ack>>

TypeOK ==
  /\ epoch \in {0, 1}
  /\ sent \in 0 .. MaxSequence
  /\ socket \in [Socket -> {"none", "open", "broken", "gone"}]
  /\ flight \in [Socket -> Seq(Sequence \cup {NoSequence})]
  /\ runtime \in BOOLEAN
  /\ lastSeq \in 0 .. MaxSequence
  /\ gapCount \in 0 .. MaxSequence
  /\ duplicates \in Nat /\ resent \in 0 .. MaxResent
  /\ ack \in 0 .. MaxSequence
  /\ advanced \subseteq received /\ received \subseteq Sequence
  /\ reported \subseteq Sequence

Init ==
  /\ epoch \in {0, 1}
  /\ sent = 0 /\ resent = 0
  /\ socket = [w \in Socket |-> "none"]
  /\ flight = [w \in Socket |-> <<>>]
  /\ runtime = (epoch = 1)
  /\ lastSeq = 0 /\ gapCount = 0 /\ duplicates = 0
  /\ ack = 0
  /\ received = {} /\ advanced = {} /\ reported = {}

-----------------------------------------------------------------------------
(* The phone.                                                              *)

Connect(w) ==
  /\ \A v \in Socket : socket[v] # "open"
  /\ socket[w] = "none"
  /\ socket' = [socket EXCEPT ![w] = "open"]
  /\ UNCHANGED <<epoch, sent, resent, flight, runtime, counters, ack>>

(* The next batch, an earlier one again, or one that carries no number.    *)
Send(w, n) ==
  /\ socket[w] = "open"
  /\ Len(flight[w]) < MaxFlight
  /\ n <= sent + 1
  /\ n <= sent => resent < MaxResent
  /\ sent' = IF n > sent THEN n ELSE sent
  /\ resent' = IF n > sent THEN resent ELSE resent + 1
  /\ flight' = [flight EXCEPT ![w] = Append(@, n)]
  /\ UNCHANGED <<epoch, socket, runtime, counters, ack>>

(* The connection breaks; the first kept batches have reached the server.  *)
Break(w, kept) ==
  /\ socket[w] = "open"
  /\ kept <= Len(flight[w])
  /\ socket' = [socket EXCEPT ![w] = "broken"]
  /\ flight' = [flight EXCEPT ![w] = SubSeq(@, 1, kept)]
  /\ UNCHANGED <<epoch, sent, resent, runtime, counters, ack>>

-----------------------------------------------------------------------------
(* The server.                                                             *)

(* Mutant: the received number counted as missing.                         *)
GapInclusive(n) ==
  IF lastSeq # 0 /\ n > lastSeq + 1 THEN (lastSeq + 1) .. n ELSE {}

Gap(n) ==
  IF lastSeq # 0 /\ n > lastSeq + 1 THEN (lastSeq + 1) .. (n - 1) ELSE {}

(* What missing_sequences has room for, lowest numbers first: the list is  *)
(* empty here, since every acknowledgement carries and clears it.          *)
Noted(n) == {m \in Gap(n) : m - lastSeq <= Capacity}

(* Mutant: the last batch is acknowledged, whatever its number.            *)
AccountLast(n) ==
  /\ lastSeq' = IF n # NoSequence THEN n ELSE lastSeq
  /\ gapCount' = gapCount + Cardinality(Gap(n))
  /\ duplicates' = duplicates
  /\ reported' = reported \cup Noted(n)
  /\ received' = received \cup ({n} \ {NoSequence})
  /\ advanced' = advanced \cup ({n} \ {NoSequence})
  /\ ack' = lastSeq'

(* ingest_batch: account, ingest, acknowledge, clear the report.           *)
Account(n) ==
  /\ lastSeq' = IF n > lastSeq THEN n ELSE lastSeq
  /\ gapCount' = gapCount + Cardinality(Gap(n))
  /\ duplicates' = IF n # NoSequence /\ n <= lastSeq
                   THEN duplicates + 1 ELSE duplicates
  /\ reported' = reported \cup Noted(n)
  /\ received' = received \cup ({n} \ {NoSequence})
  /\ advanced' = IF n > lastSeq THEN advanced \cup {n} ELSE advanced
  /\ ack' = lastSeq'

(* A batch for an unknown live epoch is answered with an error.            *)
Receive(w) ==
  /\ socket[w] \in {"open", "broken"}
  /\ flight[w] # <<>>
  /\ flight' = [flight EXCEPT ![w] = Tail(@)]
  /\ IF runtime \/ epoch = 0
     THEN Account(Head(flight[w])) /\ runtime' = TRUE
     ELSE UNCHANGED <<counters, ack, runtime>>
  /\ UNCHANGED <<epoch, sent, resent, socket>>

(* The runtime is popped: whoever opens it again starts from nothing.      *)
DropRuntime ==
  /\ runtime' = FALSE
  /\ lastSeq' = 0 /\ gapCount' = 0 /\ duplicates' = 0
  /\ received' = {} /\ advanced' = {} /\ reported' = {}

(* WebSocketDisconnect: release_telemetry(session_id, 0).                  *)
Disconnect(w) ==
  /\ socket[w] = "broken"
  /\ flight[w] = <<>>
  /\ socket' = [socket EXCEPT ![w] = "gone"]
  /\ IF epoch = 0
     THEN DropRuntime
     ELSE UNCHANGED <<runtime, counters>>
  /\ UNCHANGED <<epoch, sent, resent, flight, ack>>

(* DELETE of the epoch, or the end of the pipeline bound to it.            *)
ReleaseLive ==
  /\ runtime
  /\ DropRuntime
  /\ UNCHANGED <<epoch, sent, resent, socket, flight, ack>>

Next ==
  \/ \E w \in Socket :
       \/ Connect(w)
       \/ \E n \in Sequence \cup {NoSequence} : Send(w, n)
       \/ \E kept \in 0 .. MaxFlight : Break(w, kept)
       \/ Receive(w)
       \/ Disconnect(w)
  \/ ReleaseLive

Spec == Init /\ [][Next]_vars

-----------------------------------------------------------------------------
(* The sequences between the first and the last one that never came in     *)
(* their turn.                                                             *)
Skipped ==
  {n \in Sequence : n <= lastSeq /\ \E a \in advanced : a < n} \ advanced

(* gap_count is exactly the number of sequences that were jumped over, and *)
(* every one of them is reported missing, save those beyond the capacity   *)
(* of one report: nothing else ever is, however batches are repeated, lost *)
(* and split over sockets.                                                 *)
GapsReported ==
  /\ gapCount = Cardinality(Skipped)
  /\ reported = {n \in Skipped : n - Max({a \in advanced : a < n}) <= Capacity}

(* In a live epoch the acknowledged sequence never goes back: the phone    *)
(* may forget what is acknowledged, even when an old socket is read late.  *)
AckMonotone == [][epoch = 1 => ack' >= ack]_vars

=============================================================================
