----------------------------- MODULE FrameJoiner -----------------------------
(***************************************************************************)
(* FrameJoiner of app/field_ingest/frames.py: decoded video frames meet    *)
(* the frame metadata the phone sends on another transport.                *)
(*                                                                         *)
(* Every call is made under the service lock, so a call is one step.       *)
(* Frames are numbered by capture; a PTS is counted in frame intervals, so *)
(* that frame n has PTS n, unless FFmpeg's showinfo line for it was not    *)
(* seen in time (NoPts).  A frame lost on the SRT link is never decoded.   *)
(* Metadata of frame n arrives at most Copies times (the phone retries a   *)
(* batch it saw no acknowledgement for), in any order, or never.  A        *)
(* pending frame carries the ticks it has left until its deadline.         *)
(* MaxFrame bounds the stream; the camera motion samples, which never      *)
(* influence which metadata a frame gets, are left out.                    *)
(***************************************************************************)
EXTENDS Integers, Sequences, FiniteSets, FiniteSetsExt, Functions

CONSTANTS
  MaxFrame,     \* bound on the frames of the stream
  Copies,       \* bound on the arrivals of one frame's metadata
  MaxSamples,   \* max_samples: metadata and tombstones kept
  MaxPending,   \* max_pending: frames that wait for metadata
  MaxWait,      \* max_wait_ms, in ticks
  MaxDelta,     \* max_pts_delta90k, in frame intervals
  NoPts,        \* a frame whose PTS is unknown
  NoSource      \* a frame emitted without metadata

ASSUME JoinerAssumption ==
  /\ {MaxFrame, Copies, MaxDelta} \subseteq Nat
  /\ {MaxSamples, MaxPending, MaxWait} \subseteq Nat \ {0}
  /\ NoPts \notin Int /\ NoSource \notin Int

Frame == 1 .. MaxFrame
Pending == [frame : Frame, pts : Frame \cup {NoPts}, left : 0 .. MaxWait]
Captured == [frame : Frame, pts : Frame \cup {NoPts},
             source : Frame \cup {NoSource}]

VARIABLES
  stored,       \* _frame_by_pts: the metadata that waits for its frame
  order,        \* _frame_order
  expired,      \* _expired_pts: the tombstones
  expiredOrder, \* _expired_pts_order
  pending,      \* _pending, with the ticks left
  emitted,      \* every CapturedFrame returned so far
  arrivals,     \* how often the metadata of each frame has arrived
  decoded,      \* the frames decoded so far
  early,        \* the decoded frames whose metadata had arrived before, once,
                \* and was among the last max_samples that had
  ended         \* the receiver has ended and the joiner was flushed

joiner == <<stored, order, expired, expiredOrder, pending, emitted>>
vars == <<joiner, arrivals, decoded, early, ended>>

TypeOK ==
  /\ stored \subseteq Frame
  /\ order \in Seq(Frame) /\ Len(order) <= MaxSamples
  /\ stored \subseteq Range(order)
  /\ expired \subseteq Range(expiredOrder)
  /\ expiredOrder \in Seq(Frame) /\ Len(expiredOrder) <= MaxSamples
  /\ pending \in Seq(Pending) /\ Len(pending) <= MaxPending
  /\ emitted \in Seq(Captured)
  /\ arrivals \in [Frame -> 0 .. Copies]
  /\ decoded \subseteq Frame
  /\ early \subseteq decoded
  /\ ended \in BOOLEAN

Init ==
  /\ stored = {} /\ order = <<>>
  /\ expired = {} /\ expiredOrder = <<>>
  /\ pending = <<>> /\ emitted = <<>>
  /\ arrivals = [n \in Frame |-> 0]
  /\ decoded = {} /\ early = {} /\ ended = FALSE

-----------------------------------------------------------------------------
(* _take_metadata: the exact PTS, else the newest earlier PTS in reach.    *)
Candidates(avail, pts) ==
  {c \in avail : pts # NoPts /\ c <= pts /\ pts - c <= MaxDelta}

(* Mutant: the first candidate in reach, the exact PTS not preferred.      *)
MatchFirst(avail, pts) ==
  IF Candidates(avail, pts) = {} THEN NoSource ELSE Min(Candidates(avail, pts))

Match(avail, pts) ==
  IF Candidates(avail, pts) = {}
  THEN NoSource
  ELSE IF pts \in avail THEN pts ELSE Max(Candidates(avail, pts))

Build(d, source) == [frame |-> d.frame, pts |-> d.pts, source |-> source]

Unmatched(frames) == [i \in DOMAIN frames |-> Build(frames[i], NoSource)]

(* _flush_expired: the head of pending whose deadline has passed.          *)
Due ==
  Cardinality({i \in DOMAIN pending : \A j \in 1 .. i : pending[j].left = 0})

DueFrames == SubSeq(pending, 1, Due)
Waiting == SubSeq(pending, Due + 1, Len(pending))

(* Mutant: nothing is remembered.                                          *)
RememberNothing(tombs, d) == tombs

(* _remember_expired for a sequence of frames.                             *)
Remember(tombs, d) ==
  IF d.pts = NoPts
  THEN tombs
  ELSE LET grown == Append(tombs.order, d.pts)
           over == Len(grown) > MaxSamples
       IN [set |-> (tombs.set \cup {d.pts})
                     \ (IF over THEN {Head(grown)} ELSE {}),
           order |-> IF over THEN Tail(grown) ELSE grown]

Tombstones(frames) ==
  LET tombs[i \in 0 .. Len(frames)] ==
        IF i = 0 THEN [set |-> expired, order |-> expiredOrder]
                 ELSE Remember(tombs[i - 1], frames[i])
  IN tombs[Len(frames)]

(* What ingest_item does with metadata once it is stored: every waiting    *)
(* frame, oldest first, takes what it can.                                 *)
MatchOne(acc, d) ==
  LET source == Match(acc.avail, d.pts)
  IN IF source = NoSource
     THEN [acc EXCEPT !.remaining = Append(@, d)]
     ELSE [acc EXCEPT !.avail = @ \ {source},
                      !.ready = Append(@, Build(d, source))]

MatchAll(avail, frames) ==
  LET acc[i \in 0 .. Len(frames)] ==
        IF i = 0 THEN [avail |-> avail, ready |-> <<>>, remaining |-> <<>>]
                 ELSE MatchOne(acc[i - 1], frames[i])
  IN acc[Len(frames)]

(* Mutant: one frame more than _pending has room for.                      *)
Overfull == Len(Waiting) > MaxPending

Full == Len(Waiting) = MaxPending

-----------------------------------------------------------------------------
(* ingest_item for the metadata of frame m.                                *)
IngestFrame(m) ==
  LET tombs == Tombstones(DueFrames)
      grown == Append(order, m)
      over == Len(grown) > MaxSamples
      kept == (stored \cup {m}) \ (IF over THEN {Head(grown)} ELSE {})
      matched == MatchAll(kept, Waiting)
  IN /\ arrivals[m] < Copies
     /\ arrivals' = [arrivals EXCEPT ![m] = @ + 1]
     /\ expiredOrder' = tombs.order
     /\ IF m \in tombs.set
        THEN /\ expired' = tombs.set \ {m}
             /\ pending' = Waiting
             /\ emitted' = emitted \o Unmatched(DueFrames)
             /\ UNCHANGED <<stored, order>>
        ELSE /\ expired' = tombs.set
             /\ order' = IF over THEN Tail(grown) ELSE grown
             /\ stored' = matched.avail
             /\ pending' = matched.remaining
             /\ emitted' = emitted \o Unmatched(DueFrames) \o matched.ready
     /\ UNCHANGED <<decoded, early, ended>>

(* ingest_item for a motion or dock item: only the deadlines are looked at.*)
IngestOther ==
  /\ DueFrames # <<>>
  /\ expired' = Tombstones(DueFrames).set
  /\ expiredOrder' = Tombstones(DueFrames).order
  /\ pending' = Waiting
  /\ emitted' = emitted \o Unmatched(DueFrames)
  /\ UNCHANGED <<stored, order, arrivals, decoded, early, ended>>

(* ingest_decoded for frame n, the next one FFmpeg decoded.                *)
IngestDecoded(n, pts) ==
  LET d == [frame |-> n, pts |-> pts]
      source == Match(stored, pts)
      gone == DueFrames \o (IF source = NoSource /\ Full
                            THEN <<Head(Waiting)>> ELSE <<>>)
      tombs == Tombstones(gone)
  IN /\ \A m \in decoded : m < n
     /\ decoded' = decoded \cup {n}
     /\ early' = IF arrivals[n] = 1 /\ n \in Range(order)
                 THEN early \cup {n} ELSE early
     /\ expired' = tombs.set
     /\ expiredOrder' = tombs.order
     /\ stored' = stored \ {source}
     /\ emitted' = emitted \o Unmatched(gone)
                     \o (IF source = NoSource THEN <<>>
                         ELSE <<Build(d, source)>>)
     /\ pending' = IF source # NoSource
                   THEN Waiting
                   ELSE Append(IF Full THEN Tail(Waiting) ELSE Waiting,
                               [frame |-> n, pts |-> pts, left |-> MaxWait])
     /\ UNCHANGED <<order, arrivals, ended>>

(* flush, at the end of the receiver.                                      *)
Flush ==
  /\ ~ended
  /\ ended' = TRUE
  /\ expired' = Tombstones(pending).set
  /\ expiredOrder' = Tombstones(pending).order
  /\ emitted' = emitted \o Unmatched(pending)
  /\ pending' = <<>>
  /\ UNCHANGED <<stored, order, arrivals, decoded, early>>

(* Time passes; nothing happens in the joiner until its next call.         *)
Tick ==
  /\ \E i \in DOMAIN pending : pending[i].left > 0
  /\ pending' = [i \in DOMAIN pending |->
                   [pending[i] EXCEPT !.left = IF @ > 0 THEN @ - 1 ELSE 0]]
  /\ UNCHANGED <<stored, order, expired, expiredOrder, emitted, arrivals,
                 decoded, early, ended>>

Next ==
  \/ \E m \in Frame : IngestFrame(m)
  \/ IngestOther
  \/ \E n \in Frame : \E pts \in {n, NoPts} : IngestDecoded(n, pts)
  \/ Flush
  \/ Tick

Spec == Init /\ [][Next]_vars

-----------------------------------------------------------------------------
(* When telemetry leads the video, by no more than the joiner can hold,   *)
(* the join is exact: a frame whose metadata was there before it was       *)
(* decoded is emitted with it, however many frames were lost or waited in  *)
(* between (_take_metadata).                                               *)
EarlyMetadataJoined ==
  \A i \in DOMAIN emitted :
    emitted[i].frame \in early /\ emitted[i].pts # NoPts =>
      emitted[i].source = emitted[i].frame

(* "Metadata that arrives after the 50 ms join deadline must not be        *)
(* reused" (frames.py), and one metadata item identifies one frame: what   *)
(* belongs to a frame that was emitted without it is never given to any    *)
(* other, not even when its tombstone has been pushed out, and nothing is  *)
(* given twice, unless its batch was sent again.                           *)
MetadataUsedOnce ==
  \A i, j \in DOMAIN emitted :
    /\ emitted[i].source = NoSource /\ emitted[i].pts # NoPts =>
         \/ emitted[j].source # emitted[i].frame
         \/ arrivals[emitted[i].frame] > 1
    /\ emitted[i].source = emitted[j].source /\ emitted[i].source # NoSource /\ i # j =>
         arrivals[emitted[i].source] > 1

(* A frame may overtake frames that still wait for their metadata, but     *)
(* never more of them than the joiner can hold.                            *)
BoundedReordering ==
  \A i \in DOMAIN emitted :
    Cardinality({j \in DOMAIN emitted :
                   j > i /\ emitted[j].frame < emitted[i].frame}) <= MaxPending

=============================================================================
