---------------------------- MODULE MCFieldEpoch ----------------------------
(* FieldEpoch for TLC: small sets and the symmetry of sessions and threads. *)
EXTENDS FieldEpoch, TLC

Symmetry == Permutations(Session) \cup Permutations(Thread)
=============================================================================
