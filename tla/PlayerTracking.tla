--------------------------- MODULE PlayerTracking ---------------------------
(***************************************************************************)
(* What happens to tracker ids between two processed frames: logical       *)
(* entities (app/vision/entities.py), the life-cycle log and the counters  *)
(* of VisionCore.process (app/vision/core.py) and the overlay kept across  *)
(* short gaps (app/vision/display.py).                                     *)
(*                                                                         *)
(* ByteTrack is external: a frame brings any set of tracker ids.  Boxes    *)
(* and descriptors are abstracted to the candidate _best_candidate returns *)
(* for a new tracker id: any one that is eligible, or none.  A frame index *)
(* grows by one with every frame, so frame_index - last_frame is the       *)
(* number of frames an entity has been missing.                            *)
(***************************************************************************)
EXTENDS Integers, Sequences, FiniteSets

CONSTANTS
  Tracker,      \* tracker ids
  MaxEntity,    \* bound on the entities created
  Gap,          \* max_prediction_gap_frames
  Window,       \* reactivation_window_frames
  LostBuffer    \* track_lost_buffer

ASSUME GapAssumption ==
  /\ IsFiniteSet(Tracker)
  /\ MaxEntity \in Nat /\ Gap \in Nat /\ Window \in Nat /\ LostBuffer \in Nat \ {0}
  /\ Gap <= Window

Entity == 1 .. MaxEntity
Never == -1
NoTracker == "none"

VARIABLES
  entityOf,     \* TrackEntityManager._tracker_to_entity, 0 when absent
  tracker,      \* the tracker id of each entity in _states
  absent,       \* its missing_frames, Never when it is not in _states
  created,      \* _next_entity_id - 1
  missing,      \* VisionCore._track_missing_frames, Never when absent
  last,         \* _track_last_lifecycle_state
  log,          \* the life-cycle events of this frame, by tracker id
  unsettled,    \* track_id_interruptions less the recovered and forgotten
  shown         \* TrackDisplaySmoother._tracks: missing_frames, Never when absent

entities == <<entityOf, tracker, absent, created>>
vars == <<entities, missing, last, log, unsettled, shown>>

Lifecycle == {"detected", "occluded", "predicted", "lost", "reactivated", "id_switch"}

TypeOK ==
  /\ entityOf \in [Tracker -> 0 .. MaxEntity]
  /\ tracker \in [Entity -> Tracker \cup {NoTracker}]
  /\ absent \in [Entity -> Never .. Window]
  /\ created \in 0 .. MaxEntity
  /\ missing \in [Tracker -> Int]
  /\ last \in [Tracker -> Lifecycle \cup {"none"}]
  /\ \A t \in Tracker : log[t] \in Seq(Lifecycle)
  /\ unsettled \in Int
  /\ shown \in [Entity -> Never .. Gap]

(* TrackEntityManager as VisionCore builds it.                             *)
NoEntities ==
  /\ entityOf = [t \in Tracker |-> 0]
  /\ tracker = [e \in Entity |-> NoTracker]
  /\ absent = [e \in Entity |-> Never]
  /\ created = 0

Init ==
  /\ NoEntities
  /\ missing = [t \in Tracker |-> Never]
  /\ last = [t \in Tracker |-> "none"] /\ log = [t \in Tracker |-> <<>>]
  /\ unsettled = 0
  /\ shown = [e \in Entity |-> Never]

(* The tracker ids of one frame: what the detector and ByteTrack return is *)
(* any set of them.                                                        *)
Detections == SUBSET Tracker

-----------------------------------------------------------------------------
(* TrackEntityManager.update.                                              *)

Kept(e) == absent[e] # Never

(* The entities _best_candidate may return: missing before this frame and  *)
(* within the window.                                                      *)
Candidates == {e \in Entity : Kept(e) /\ absent[e] > 0 /\ absent[e] + 1 <= Window}

Unresolved(current) == {t \in current : entityOf[t] = 0}

(* The outcomes of the second loop: every new tracker id is given an       *)
(* eligible entity nobody else has, or a new one.                          *)
Matchings(current) ==
  {m \in [Unresolved(current) -> Candidates \cup {0}] :
     /\ \A t \in DOMAIN m : m[t] \notin {entityOf[u] : u \in current} \ {0}
     /\ \A t, u \in DOMAIN m : t # u /\ m[t] = m[u] => m[t] = 0}

(* Mutant: the tracker id an entity is taken from keeps its entry.         *)
StaleEntry(t, current, given) ==
  IF t \in current THEN given[t]
  ELSE IF entityOf[t] # 0 /\ absent[entityOf[t]] + 1 > Window THEN 0
  ELSE entityOf[t]

(* The entry of a tracker id after the frame: an id whose entity was given *)
(* to another id, or was purged, has none.                                 *)
Entry(t, current, given) ==
  IF t \in current THEN given[t]
  ELSE IF \/ entityOf[t] = 0
          \/ \E u \in current : given[u] = entityOf[t]
          \/ absent[entityOf[t]] + 1 > Window
       THEN 0
  ELSE entityOf[t]

UpdateEntities(current, given, new) ==
  LET held(e) == {t \in current : given[t] = e} IN
  /\ entityOf' = [t \in Tracker |-> Entry(t, current, given)]
  /\ tracker' = [e \in Entity |->
       IF held(e) # {} THEN CHOOSE t \in held(e) : TRUE
       ELSE IF absent[e] + 1 > Window THEN NoTracker ELSE tracker[e]]
  /\ absent' = [e \in Entity |->
       IF held(e) # {} THEN 0
       ELSE IF ~Kept(e) \/ absent[e] + 1 > Window THEN Never ELSE absent[e] + 1]
  /\ created' = created + Cardinality(new)

-----------------------------------------------------------------------------
(* The life-cycle part of VisionCore.process.                              *)

Known(t) == missing[t] # Never

(* _record_lifecycle: a state is recorded once, except forced ones.        *)
Record(previous, state) == IF previous = state THEN <<>> ELSE <<state>>

SeenEvents(t, rebound) ==
  IF t \in rebound THEN <<"id_switch", "reactivated">>
  ELSE Record(last[t], IF missing[t] > 0 THEN "reactivated" ELSE "detected")

MissingState(t) == IF missing[t] + 1 <= Gap THEN "predicted" ELSE "lost"

(* Mutant: a track that is lost at once is not occluded first.             *)
SilentMissingEvents(t) == Record(last[t], MissingState(t))

MissingEvents(t) ==
  IF missing[t] = 0 /\ Gap > 0
  THEN Append(Record(last[t], "occluded"), MissingState(t))
  ELSE Record(last[t], MissingState(t))

Events(t, current, rebound) ==
  IF t \in current THEN SeenEvents(t, rebound)
  ELSE IF Known(t) THEN MissingEvents(t) ELSE <<>>

Larger(a, b) == IF a > b THEN a ELSE b

Forgotten(current) ==
  {t \in Tracker \ current : Known(t) /\ missing[t] + 1 > Larger(LostBuffer, Gap)}

(* Mutant: every missing track is counted as newly missing.                *)
AnyMissing(current) == {t \in Tracker \ current : Known(t)}

NewlyMissing(current) == {t \in Tracker \ current : missing[t] = 0}

Recovered(current) == {t \in current : missing[t] > 0}

UpdateLifecycle(current, rebound) ==
  /\ log' = [t \in Tracker |-> Events(t, current, rebound)]
  /\ last' = [t \in Tracker |->
       LET events == Events(t, current, rebound) IN
       IF events = <<>> THEN last[t] ELSE events[Len(events)]]
  /\ missing' = [t \in Tracker |->
       IF t \in current THEN 0
       ELSE IF ~Known(t) \/ t \in Forgotten(current) THEN Never ELSE missing[t] + 1]
  /\ unsettled' = unsettled + Cardinality(NewlyMissing(current))
                  - Cardinality(Recovered(current)) - Cardinality(Forgotten(current))

-----------------------------------------------------------------------------
(* TrackDisplaySmoother.update, keyed by entity.                           *)

(* Mutant: an overlay is dropped one frame late.                           *)
LateOverlay(e, seen) ==
  IF e \in seen THEN 0
  ELSE IF shown[e] = Never \/ shown[e] > Gap THEN Never ELSE shown[e] + 1

Overlay(e, seen) ==
  IF e \in seen THEN 0
  ELSE IF shown[e] = Never \/ shown[e] + 1 > Gap THEN Never ELSE shown[e] + 1

(* One frame: its tracker ids, and the entities its new ids are given.     *)
Process(current) ==
  \E m \in Matchings(current) :
    LET new == {t \in DOMAIN m : m[t] = 0}
        rebound == DOMAIN m \ new
    IN /\ created + Cardinality(new) <= MaxEntity
       /\ \E id \in [new -> created + 1 .. created + Cardinality(new)] :
            LET given == [t \in current |-> IF t \in new THEN id[t]
                                            ELSE IF t \in rebound THEN m[t]
                                            ELSE entityOf[t]]
            IN /\ \A t, u \in new : t # u => id[t] # id[u]
               /\ UpdateEntities(current, given, new)
               /\ UpdateLifecycle(current, rebound)
               /\ shown' = [e \in Entity |-> Overlay(e, {given[t] : t \in current})]

Next == \E current \in Detections : Process(current)

Spec == Init /\ [][Next]_vars

-----------------------------------------------------------------------------
(* Tracker ids and entities stay paired: an id leads to an entity that     *)
(* leads back to it, and every entity kept is reached, so that no player   *)
(* is shown under two entities and no entity is taken by two ids, whatever *)
(* was purged or rebound before.                                           *)
Paired ==
  /\ \A t \in Tracker : entityOf[t] # 0 => Kept(entityOf[t]) /\ tracker[entityOf[t]] = t
  /\ \A e \in Entity : Kept(e) => entityOf[tracker[e]] = e

(* The overlay shows exactly the entities that are detected or still       *)
(* within the prediction gap: the smoother and the entity manager, which   *)
(* count independently, never disagree about an entity.                    *)
OverlayMatches ==
  \A e \in Entity :
    shown[e] = IF Kept(e) /\ absent[e] <= Gap THEN absent[e] ELSE Never

(* Every interruption counted is recovered, forgotten, or a track that is  *)
(* missing now: none is counted twice or lost.                             *)
InterruptionsSettled ==
  unsettled = Cardinality({t \in Tracker : missing[t] > 0})

(* The log of a track is a path: it is occluded before it is predicted or  *)
(* lost, and is reactivated (after an id switch, if it is a new id) before *)
(* it is detected again, unless it had been forgotten.                     *)
LegalStep(from, to, forgotten) ==
  \/ from = "none" /\ to \in {"detected", "id_switch"}
  \/ from = "detected" /\ to \in {"occluded"} \cup (IF Gap = 0 THEN {"lost"} ELSE {})
  \/ from = "reactivated" /\ to \in {"detected", "occluded"}
                                    \cup (IF Gap = 0 THEN {"lost"} ELSE {})
  \/ from = "occluded" /\ to = "predicted"
  \/ from = "predicted" /\ to \in {"lost", "reactivated", "id_switch"}
  \/ from = "lost" /\ to \in {"reactivated", "id_switch"}
  \/ from = "lost" /\ to = "detected" /\ forgotten
  \/ from = "id_switch" /\ to = "reactivated"

LegalLifecycle ==
  [][\A t \in Tracker : \A i \in 1 .. Len(log'[t]) :
       LegalStep(IF i = 1 THEN last[t] ELSE log'[t][i - 1], log'[t][i], ~Known(t))]_vars
=============================================================================
