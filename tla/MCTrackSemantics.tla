-------------------------- MODULE MCTrackSemantics --------------------------
(* TrackSemantics for TLC: the tracker ids are interchangeable.            *)
EXTENDS TrackSemantics, TLC

Symmetry == Permutations(Tracker)
=============================================================================
