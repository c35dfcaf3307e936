----------------------------- MODULE FrameQueue -----------------------------
(***************************************************************************)
(* LatestFrameQueue of app/field_ingest/frames.py as operators on a record *)
(* [items, closed, dropped].  Every method runs under the queue's          *)
(* condition, so each is one step of whoever calls it.                     *)
(***************************************************************************)
EXTENDS Naturals, Sequences

CONSTANT MaxSize

ASSUME MaxSizeAssumption == MaxSize \in Nat \ {0}

EmptyQueue == [items |-> <<>>, closed |-> FALSE, dropped |-> 0]

Queues(Frame) ==
  [items : Seq(Frame), closed : BOOLEAN, dropped : Nat]

(* put: a closed queue refuses the frame, a full one drops its oldest.     *)
Put(q, frame) ==
  LET full == Len(q.items) >= MaxSize
      kept == IF full THEN Tail(q.items) ELSE q.items
  IN IF q.closed
     THEN q
     ELSE [q EXCEPT !.items = Append(kept, frame),
                    !.dropped = IF full THEN @ + 1 ELSE @]

Close(q) == [q EXCEPT !.closed = TRUE]

(* Mutant: get takes from the other end.                                   *)
Oldest(q) == q.items[1]

(* get, once it has items: the newest frame, all the others dropped.       *)
Newest(q) == q.items[Len(q.items)]

(* Mutant: the frames dropped by get are not counted.                      *)
TakenUncounted(q) == [q EXCEPT !.items = <<>>]

Taken(q) == [q EXCEPT !.items = <<>>,
                      !.dropped = @ + (Len(q.items) - 1)]
=============================================================================
