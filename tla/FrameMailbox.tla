---------------------------- MODULE FrameMailbox ----------------------------
(***************************************************************************)
(* What the bridge of a live epoch promises the inference loop: a mailbox  *)
(* that holds nothing but the newest frame put into it.  Frames may be     *)
(* lost on the way, for a newer one or because the stream has ended; none  *)
(* comes twice, none comes after a newer one, and a frame that is taken,   *)
(* before the close or after it, is the last one that was put.  That a     *)
(* frame is taken at all is not promised.                                  *)
(***************************************************************************)
EXTENDS Naturals, Sequences, Functions

VARIABLES
  sent,         \* the frames sent, each one once
  accepted,     \* how many of them were put before the close
  taken,        \* the frames taken, in the order they were taken
  closed        \* nothing more is accepted

mailbox == <<sent, accepted, taken, closed>>

Init == sent = <<>> /\ accepted = 0 /\ taken = <<>> /\ closed = FALSE

Send ==
  /\ sent = SubSeq(sent', 1, Len(sent))
  /\ IsInjective(sent')
  /\ UNCHANGED <<accepted, taken, closed>>

Accept ==
  /\ ~closed /\ accepted < Len(sent)
  /\ accepted' = accepted + 1
  /\ UNCHANGED <<sent, taken, closed>>

Close ==
  /\ closed' = TRUE
  /\ UNCHANGED <<sent, accepted, taken>>

Take ==
  /\ accepted > 0 /\ sent[accepted] \notin Range(taken)
  /\ taken' = Append(taken, sent[accepted])
  /\ UNCHANGED <<sent, accepted, closed>>

Next == Send \/ Accept \/ Close \/ Take

Spec == Init /\ [][Next]_mailbox
=============================================================================
