--------------------------- MODULE TrackingProofs ---------------------------
(***************************************************************************)
(* For any tracker ids and thresholds: tracker ids and entities stay       *)
(* paired, the overlay agrees with the entities, interruptions balance,    *)
(* the life-cycle log of a track is a path, and the evidence window of a   *)
(* player is under the tracker id the player has.                          *)
(***************************************************************************)
EXTENDS TrackSemantics, FiniteSetTheorems, TLAPS

Types ==
  /\ entityOf \in [Tracker -> 0 .. MaxEntity]
  /\ tracker \in [Entity -> Tracker \cup {NoTracker}]
  /\ absent \in [Entity -> Never .. Window]
  /\ created \in 0 .. MaxEntity
  /\ missing \in [Tracker -> Int] /\ \A t \in Tracker : missing[t] >= Never
  /\ last \in [Tracker -> Lifecycle \cup {"none"}]
  /\ unsettled \in Int
  /\ shown \in [Entity -> Never .. Gap]

(* Entities are numbered as they are created, and an entity that is kept   *)
(* has a tracker id.                                                       *)
Numbered ==
  \A e \in Entity : Kept(e) => e <= created /\ tracker[e] \in Tracker

(* A track seen in the last frame has an entity.                           *)
SeenHasEntity == \A t \in Tracker : missing[t] = 0 => entityOf[t] # 0

(* The last state recorded of a track says how long it has been missing.   *)
Settled(t) ==
  /\ missing[t] = Never => last[t] \in {"none", "lost"}
  /\ missing[t] = 0 => last[t] \in {"detected", "reactivated"}
  /\ missing[t] > 0 => last[t] = IF missing[t] <= Gap THEN "predicted" ELSE "lost"

Pairing == Types /\ Numbered /\ Paired
Inv == /\ Pairing /\ OverlayMatches /\ InterruptionsSettled
       /\ SeenHasEntity /\ \A t \in Tracker : Settled(t)

-----------------------------------------------------------------------------
(* The entities a frame's tracker ids are given.                           *)

GivenOf(current, m, id) ==
  [t \in current |-> IF t \in {u \in DOMAIN m : m[u] = 0} THEN id[t]
                     ELSE IF t \in DOMAIN m \ {u \in DOMAIN m : m[u] = 0} THEN m[t]
                     ELSE entityOf[t]]

(* What a frame does: new ids get distinct new entities, rebound ids       *)
(* distinct eligible ones, and the others keep theirs.                     *)
Frame(current, m, id) ==
  LET new == {t \in DOMAIN m : m[t] = 0}
      given == GivenOf(current, m, id)
  IN /\ m \in Matchings(current)
     /\ created + Cardinality(new) <= MaxEntity
     /\ id \in [new -> created + 1 .. created + Cardinality(new)]
     /\ \A t, u \in new : t # u => id[t] # id[u]
     /\ UpdateEntities(current, given, new)
     /\ UpdateLifecycle(current, DOMAIN m \ new)
     /\ shown' = [e \in Entity |-> Overlay(e, {given[t] : t \in current})]

LEMMA FrameExists ==
  ASSUME NEW current, Process(current)
  PROVE  \E m, id : Frame(current, m, id)
<1>1. PICK m \in Matchings(current) :
        LET new == {t \in DOMAIN m : m[t] = 0}
        IN /\ created + Cardinality(new) <= MaxEntity
           /\ \E id \in [new -> created + 1 .. created + Cardinality(new)] :
                LET given == GivenOf(current, m, id)
                IN /\ \A t, u \in new : t # u => id[t] # id[u]
                   /\ UpdateEntities(current, given, new)
                   /\ UpdateLifecycle(current, DOMAIN m \ new)
                   /\ shown' = [e \in Entity |-> Overlay(e, {given[t] : t \in current})]
  BY Zenon DEF Process, GivenOf
<1> DEFINE new == {t \in DOMAIN m : m[t] = 0}
<1>2. PICK id \in [new -> created + 1 .. created + Cardinality(new)] :
        LET given == GivenOf(current, m, id)
        IN /\ \A t, u \in new : t # u => id[t] # id[u]
           /\ UpdateEntities(current, given, new)
           /\ UpdateLifecycle(current, DOMAIN m \ new)
           /\ shown' = [e \in Entity |-> Overlay(e, {given[t] : t \in current})]
  BY <1>1
<1>3. Frame(current, m, id)
  BY <1>1, <1>2 DEF Frame
<1> QED BY <1>3

(* An abstract of the frame for what follows: given is an injection that   *)
(* extends entityOf.                                                       *)
Assignment(current, given, new) ==
  /\ Cardinality(new) \in Nat /\ created + Cardinality(new) <= MaxEntity
  /\ \A t \in current : given[t] \in Entity /\ given[t] <= created + Cardinality(new)
  /\ \A t \in current : entityOf[t] # 0 => given[t] = entityOf[t]
  /\ \A t, u \in current : given[t] = given[u] => t = u

(* No two ids of a frame are given one entity.                             *)
LEMMA GivenDistinct ==
  ASSUME Pairing, NEW current \in SUBSET Tracker, NEW m, NEW id,
         Frame(current, m, id)
  PROVE  Assignment(current, GivenOf(current, m, id), {t \in DOMAIN m : m[t] = 0})
<1> DEFINE new == {t \in DOMAIN m : m[t] = 0}
           given == GivenOf(current, m, id)
<1>1. /\ m \in [Unresolved(current) -> Candidates \cup {0}]
      /\ \A t \in DOMAIN m : m[t] \notin {entityOf[u] : u \in current} \ {0}
      /\ \A t, u \in DOMAIN m : t # u /\ m[t] = m[u] => m[t] = 0
  BY DEF Frame, Matchings
<1>2. /\ DOMAIN m = Unresolved(current) /\ new \subseteq Unresolved(current)
      /\ Unresolved(current) \subseteq current
  BY <1>1 DEF Unresolved
<1>3. Cardinality(new) \in Nat
  <2>1. IsFiniteSet(new)
    BY <1>2, FS_Subset, GapAssumption
  <2> QED BY <2>1, FS_CardinalityType
<1>4. /\ created \in Nat /\ MaxEntity \in Nat
      /\ created + Cardinality(new) <= MaxEntity
  BY GapAssumption DEF Pairing, Types, Frame
<1>5. ASSUME NEW t \in new
      PROVE  given[t] = id[t] /\ given[t] > created
             /\ given[t] <= created + Cardinality(new) /\ given[t] \in Entity
  <2>1. given[t] = id[t]
    BY <1>2, <1>5 DEF GivenOf
  <2>2. id[t] \in created + 1 .. created + Cardinality(new)
    BY <1>5 DEF Frame
  <2> QED BY <1>3, <1>4, <2>1, <2>2 DEF Entity
<1>6. ASSUME NEW t \in DOMAIN m \ new
      PROVE  given[t] = m[t] /\ m[t] \in Candidates
  BY <1>1, <1>2 DEF GivenOf
<1>7. ASSUME NEW t \in current \ DOMAIN m
      PROVE  given[t] = entityOf[t] /\ entityOf[t] # 0
  BY <1>2 DEF GivenOf, Unresolved
<1>8. ASSUME NEW e \in Candidates
      PROVE  e \in Entity /\ e <= created
  BY DEF Candidates, Pairing, Numbered
<1>9. ASSUME NEW t \in Tracker, entityOf[t] # 0
      PROVE  /\ entityOf[t] \in Entity /\ entityOf[t] <= created
             /\ tracker[entityOf[t]] = t
  <2>1. entityOf[t] \in Entity
    BY <1>9, GapAssumption DEF Pairing, Types, Entity
  <2> QED BY <1>9, <2>1 DEF Pairing, Paired, Numbered
<1>10. \A t \in current : given[t] \in Entity
  BY <1>5, <1>6, <1>7, <1>8, <1>9
<1>11. \A t \in current : given[t] <= created + Cardinality(new)
  <2> SUFFICES ASSUME NEW t \in current
               PROVE  given[t] <= created + Cardinality(new)
    OBVIOUS
  <2>1. given[t] \in Nat
    BY <1>10, GapAssumption DEF Entity
  <2>2. t \in new \/ given[t] <= created
    BY <1>6, <1>7, <1>8, <1>9
  <2> QED BY <1>3, <1>4, <1>5, <2>1, <2>2
<1>12. \A t \in current : entityOf[t] # 0 => given[t] = entityOf[t]
  BY <1>2, <1>7 DEF Unresolved
<1>13. ASSUME NEW t \in current, NEW u \in current, given[t] = given[u]
       PROVE  t = u
  <2>1. CASE t \in new /\ u \in new
    BY <1>5, <1>13, <2>1 DEF Frame
  <2>2. CASE t \in new /\ u \notin new
    BY <1>4, <1>5, <1>6, <1>7, <1>8, <1>9, <1>10, <1>13, <2>2 DEF Entity
  <2>3. CASE t \notin new /\ u \in new
    BY <1>4, <1>5, <1>6, <1>7, <1>8, <1>9, <1>10, <1>13, <2>3 DEF Entity
  <2>4. CASE t \notin new /\ u \notin new
    <3>1. CASE t \in DOMAIN m /\ u \in DOMAIN m
      BY <1>1, <1>6, <1>13, <2>4, <3>1
    <3>2. CASE t \in DOMAIN m /\ u \notin DOMAIN m
      BY <1>1, <1>6, <1>7, <1>13, <2>4, <3>2
    <3>3. CASE t \notin DOMAIN m /\ u \in DOMAIN m
      BY <1>1, <1>6, <1>7, <1>13, <2>4, <3>3
    <3>4. CASE t \notin DOMAIN m /\ u \notin DOMAIN m
      BY <1>7, <1>9, <1>13, <3>4
    <3> QED BY <3>1, <3>2, <3>3, <3>4
  <2> QED BY <2>1, <2>2, <2>3, <2>4
<1> HIDE DEF new, given
<1> QED BY <1>3, <1>4, <1>10, <1>11, <1>12, <1>13 DEF Assignment, new, given
-----------------------------------------------------------------------------
(* Entities.                                                               *)

LEMMA EntitiesKeep ==
  ASSUME Pairing, NEW current \in SUBSET Tracker, NEW given, NEW new,
         Assignment(current, given, new), UpdateEntities(current, given, new)
  PROVE  /\ entityOf' \in [Tracker -> 0 .. MaxEntity]
         /\ tracker' \in [Entity -> Tracker \cup {NoTracker}]
         /\ absent' \in [Entity -> Never .. Window]
         /\ created' \in 0 .. MaxEntity
         /\ Numbered' /\ Paired'
         /\ \A t \in current : entityOf'[t] # 0
<1> DEFINE held(e) == {t \in current : given[t] = e}
<1>a. /\ Gap \in Nat /\ Window \in Nat /\ MaxEntity \in Nat /\ created \in Nat
      /\ created <= MaxEntity
  BY GapAssumption DEF Pairing, Types
<1>b. \A t \in Tracker : entityOf[t] # 0 =>
        /\ entityOf[t] \in Entity /\ Kept(entityOf[t]) /\ tracker[entityOf[t]] = t
  BY <1>a DEF Pairing, Types, Paired, Entity
<1>c. \A e \in Entity : Kept(e) =>
        /\ absent[e] \in Nat /\ e <= created
        /\ tracker[e] \in Tracker /\ entityOf[tracker[e]] = e
  BY <1>a DEF Pairing, Types, Paired, Numbered, Kept, Never
<1>d. 0 \notin Entity
  BY DEF Entity
<1>1. \A t \in Tracker : entityOf'[t] = Entry(t, current, given)
  BY DEF UpdateEntities
<1>2. \A t \in Tracker : Entry(t, current, given) \in 0 .. MaxEntity
  BY <1>a, <1>b DEF Entry, Assignment, Entity
<1>3. entityOf' \in [Tracker -> 0 .. MaxEntity]
  BY <1>2 DEF UpdateEntities
<1>4. ASSUME NEW e \in Entity
      PROVE  tracker'[e] = IF held(e) # {} THEN CHOOSE t \in held(e) : TRUE
                           ELSE IF absent[e] + 1 > Window THEN NoTracker ELSE tracker[e]
  BY DEF UpdateEntities
<1>5. ASSUME NEW e \in Entity, NEW t \in held(e)
      PROVE  tracker'[e] = t
  <2>1. held(e) = {t}
    BY <1>5 DEF Assignment
  <2> QED BY <1>4, <2>1
<1>6. tracker' \in [Entity -> Tracker \cup {NoTracker}]
  <2>1. \A e \in Entity : tracker'[e] \in Tracker \cup {NoTracker}
    BY <1>4, <1>5 DEF Pairing, Types
  <2>2. tracker' = [e \in Entity |-> tracker'[e]]
    BY DEF UpdateEntities
  <2> QED BY <2>1, <2>2
<1>7. ASSUME NEW e \in Entity
      PROVE  absent'[e] = IF \E t \in current : given[t] = e THEN 0
                          ELSE IF ~Kept(e) \/ absent[e] + 1 > Window THEN Never
                          ELSE absent[e] + 1
  BY DEF UpdateEntities
<1>8. absent' \in [Entity -> Never .. Window]
  <2>1. \A e \in Entity : absent'[e] \in Never .. Window
    BY <1>7, <1>a, <1>c DEF Never
  <2>2. absent' = [e \in Entity |-> absent'[e]]
    BY DEF UpdateEntities
  <2> QED BY <2>1, <2>2
<1>9. created' = created + Cardinality(new) /\ created' \in 0 .. MaxEntity
  BY <1>a DEF UpdateEntities, Assignment
<1>10. ASSUME NEW e \in Entity, Kept(e)'
       PROVE  /\ e <= created' /\ tracker'[e] \in Tracker
              /\ entityOf'[tracker'[e]] = e
  <2>1. CASE held(e) # {}
    <3>1. PICK t \in current : given[t] = e
      BY <2>1
    <3>2. tracker'[e] = t /\ t \in Tracker
      BY <1>5, <3>1
    <3>3. entityOf'[t] = e
      BY <1>1, <3>1, <3>2 DEF Entry
    <3> QED BY <1>9, <3>1, <3>2, <3>3 DEF Assignment
  <2>2. CASE held(e) = {}
    <3>1. Kept(e) /\ ~(absent[e] + 1 > Window)
      BY <1>7, <1>10, <2>2 DEF Kept
    <3>2. tracker'[e] = tracker[e] /\ tracker[e] \in Tracker
          /\ entityOf[tracker[e]] = e /\ e <= created
      BY <1>4, <1>c, <2>2, <3>1
    <3>3. tracker[e] \notin current
      BY <1>d, <2>2, <3>2 DEF Assignment
    <3>4. entityOf'[tracker[e]] = e
      BY <1>1, <1>d, <2>2, <3>1, <3>2, <3>3 DEF Entry
    <3>5. e <= created'
      BY <1>9, <1>a, <3>2 DEF Assignment, Entity
    <3> QED BY <3>2, <3>4, <3>5
  <2> QED BY <2>1, <2>2
<1>11. ASSUME NEW t \in Tracker, entityOf'[t] # 0
       PROVE  Kept(entityOf[t])' /\ tracker'[entityOf'[t]] = t
  <2>1. CASE t \in current
    <3>1. entityOf'[t] = given[t] /\ given[t] \in Entity
      BY <1>1, <2>1 DEF Entry, Assignment
    <3>2. tracker'[given[t]] = t
      BY <1>5, <2>1, <3>1
    <3>3. absent'[given[t]] = 0
      BY <1>7, <2>1, <3>1
    <3> QED BY <3>1, <3>2, <3>3 DEF Kept, Never
  <2>2. CASE t \notin current
    <3>1. /\ entityOf'[t] = entityOf[t] /\ entityOf[t] # 0
          /\ held(entityOf[t]) = {} /\ ~(absent[entityOf[t]] + 1 > Window)
      BY <1>1, <1>11, <2>2 DEF Entry
    <3>2. entityOf[t] \in Entity /\ Kept(entityOf[t]) /\ tracker[entityOf[t]] = t
      BY <1>b, <3>1
    <3>3. tracker'[entityOf[t]] = t
      BY <1>4, <3>1, <3>2
    <3>4. absent'[entityOf[t]] = absent[entityOf[t]] + 1
      BY <1>7, <3>1, <3>2
    <3>5. absent[entityOf[t]] \in Nat
      BY <1>c, <3>2
    <3> QED BY <3>1, <3>3, <3>4, <3>5 DEF Kept, Never
  <2> QED BY <2>1, <2>2
<1>12. Numbered'
  BY <1>10 DEF Numbered
<1>13. Paired'
  BY <1>10, <1>11 DEF Paired
<1>14. \A t \in current : entityOf'[t] # 0
  BY <1>1, <1>d DEF Entry, Assignment
<1> QED BY <1>3, <1>6, <1>8, <1>9, <1>12, <1>13, <1>14

(* The overlay counts as the entities do.                                  *)
LEMMA OverlayKeeps ==
  ASSUME Pairing, OverlayMatches, NEW current \in SUBSET Tracker, NEW given, NEW new,
         Assignment(current, given, new), UpdateEntities(current, given, new),
         shown' = [e \in Entity |-> Overlay(e, {given[t] : t \in current})]
  PROVE  shown' \in [Entity -> Never .. Gap] /\ OverlayMatches'
<1>a. Gap \in Nat /\ Window \in Nat /\ Gap <= Window
  BY GapAssumption
<1>b. \A e \in Entity : shown[e] \in Never .. Gap /\ absent[e] \in Never .. Window
  BY DEF Pairing, Types
<1>c. \A e \in Entity :
        absent'[e] = IF \E t \in current : given[t] = e THEN 0
                     ELSE IF ~Kept(e) \/ absent[e] + 1 > Window THEN Never
                     ELSE absent[e] + 1
  BY DEF UpdateEntities
<1>1. ASSUME NEW e \in Entity
      PROVE  /\ shown'[e] \in Never .. Gap
             /\ shown'[e] = IF absent'[e] # Never /\ absent'[e] <= Gap
                            THEN absent'[e] ELSE Never
  <2> DEFINE seen == \E t \in current : given[t] = e
  <2>1. absent'[e] = IF seen THEN 0
                     ELSE IF ~Kept(e) \/ absent[e] + 1 > Window THEN Never
                     ELSE absent[e] + 1
    BY <1>c
  <2>2. shown'[e] = IF seen THEN 0
                    ELSE IF shown[e] = Never \/ shown[e] + 1 > Gap THEN Never
                    ELSE shown[e] + 1
    BY DEF Overlay
  <2>3. shown[e] = IF Kept(e) /\ absent[e] <= Gap THEN absent[e] ELSE Never
    BY DEF OverlayMatches
  <2> HIDE DEF seen
  <2> QED BY <1>a, <1>b, <2>1, <2>2, <2>3 DEF Kept, Never
<1>2. shown' \in [Entity -> Never .. Gap]
  <2>1. shown' = [e \in Entity |-> shown'[e]]
    OBVIOUS
  <2> QED BY <1>1, <2>1
<1> QED BY <1>1, <1>2 DEF OverlayMatches, Kept

-----------------------------------------------------------------------------
(* Life cycles: what is recorded of a track in one frame.                  *)

LEMMA EventsOf ==
  ASSUME NEW t \in Tracker, Settled(t), missing[t] \in Int, missing[t] >= Never,
         NEW current \in SUBSET Tracker, NEW rebound \in SUBSET current
  PROVE  LET e == Events(t, current, rebound) IN
         /\ t \in rebound =>
              Len(e) = 2 /\ e[1] = "id_switch" /\ e[2] = "reactivated"
         /\ t \in current \ rebound /\ missing[t] > 0 =>
              Len(e) = 1 /\ e[1] = "reactivated"
         /\ t \in current \ rebound /\ missing[t] <= 0 =>
              \/ e = <<>> /\ last[t] = "detected"
              \/ Len(e) = 1 /\ e[1] = "detected" /\ last[t] # "detected"
         /\ t \notin current /\ missing[t] = 0 /\ Gap > 0 =>
              Len(e) = 2 /\ e[1] = "occluded" /\ e[2] = MissingState(t)
         /\ t \notin current /\ missing[t] >= 0 /\ ~(missing[t] = 0 /\ Gap > 0) =>
              \/ e = <<>> /\ last[t] = MissingState(t)
              \/ Len(e) = 1 /\ e[1] = MissingState(t) /\ e[1] # last[t]
         /\ t \notin current /\ missing[t] = Never => e = <<>>
<1> DEFINE e == Events(t, current, rebound)
<1>a. Gap \in Nat
  BY GapAssumption
<1>b. \A p, s : p # s => Len(Record(p, s)) = 1 /\ Record(p, s)[1] = s
  BY DEF Record
<1>c. \A p, s : p = s => Record(p, s) = <<>>
  BY DEF Record
<1>1. ASSUME t \in rebound
      PROVE  Len(e) = 2 /\ e[1] = "id_switch" /\ e[2] = "reactivated"
  BY <1>1 DEF Events, SeenEvents
<1>2. ASSUME t \in current \ rebound, missing[t] > 0
      PROVE  Len(e) = 1 /\ e[1] = "reactivated"
  <2>1. e = Record(last[t], "reactivated")
    BY <1>2 DEF Events, SeenEvents
  <2>2. last[t] # "reactivated"
    BY <1>2 DEF Settled
  <2> QED BY <1>b, <2>1, <2>2
<1>3. ASSUME t \in current \ rebound, missing[t] <= 0
      PROVE  \/ e = <<>> /\ last[t] = "detected"
             \/ Len(e) = 1 /\ e[1] = "detected" /\ last[t] # "detected"
  <2>1. e = Record(last[t], "detected")
    BY <1>3 DEF Events, SeenEvents
  <2> QED BY <1>b, <1>c, <2>1
<1>4. ASSUME t \notin current, missing[t] = 0, Gap > 0
      PROVE  Len(e) = 2 /\ e[1] = "occluded" /\ e[2] = MissingState(t)
  <2>1. e = Append(<<"occluded">>, MissingState(t))
    BY <1>4 DEF Events, Known, Never, MissingEvents, Record, Settled
  <2> QED BY <2>1
<1>5. ASSUME t \notin current, missing[t] >= 0, ~(missing[t] = 0 /\ Gap > 0)
      PROVE  \/ e = <<>> /\ last[t] = MissingState(t)
             \/ Len(e) = 1 /\ e[1] = MissingState(t) /\ e[1] # last[t]
  <2>1. e = Record(last[t], MissingState(t))
    BY <1>5 DEF Events, Known, Never, MissingEvents
  <2> QED BY <1>b, <1>c, <2>1
<1>6. ASSUME t \notin current, missing[t] = Never PROVE e = <<>>
  BY <1>6 DEF Events, Known
<1> QED BY <1>1, <1>2, <1>3, <1>4, <1>5, <1>6

(* The last recorded state follows the frames a track has been missing,    *)
(* and every event is a step of the path.                                  *)
LEMMA LifecycleKeeps ==
  ASSUME Types, \A t \in Tracker : Settled(t),
         NEW current \in SUBSET Tracker, NEW rebound \in SUBSET current,
         \A t \in rebound : missing[t] # 0,
         UpdateLifecycle(current, rebound), NEW t \in Tracker
  PROVE  /\ missing'[t] \in Int /\ missing'[t] >= Never
         /\ last'[t] \in Lifecycle \cup {"none"}
         /\ Settled(t)'
         /\ \A i \in 1 .. Len(log'[t]) :
              LegalStep(IF i = 1 THEN last[t] ELSE log'[t][i - 1], log'[t][i], ~Known(t))
<1> DEFINE e == Events(t, current, rebound)
<1>a. Gap \in Nat /\ LostBuffer \in Nat \ {0}
  BY GapAssumption
<1>b. missing[t] \in Int /\ missing[t] >= Never /\ last[t] \in Lifecycle \cup {"none"}
      /\ Settled(t)
  BY DEF Types
<1>c. /\ log'[t] = e
      /\ last'[t] = IF e = <<>> THEN last[t] ELSE e[Len(e)]
      /\ missing'[t] = IF t \in current THEN 0
                       ELSE IF ~Known(t) \/ t \in Forgotten(current) THEN Never
                       ELSE missing[t] + 1
  BY DEF UpdateLifecycle
<1>d. /\ t \in rebound =>
           Len(e) = 2 /\ e[1] = "id_switch" /\ e[2] = "reactivated"
      /\ t \in current \ rebound /\ missing[t] > 0 =>
           Len(e) = 1 /\ e[1] = "reactivated"
      /\ t \in current \ rebound /\ missing[t] <= 0 =>
           \/ e = <<>> /\ last[t] = "detected"
           \/ Len(e) = 1 /\ e[1] = "detected" /\ last[t] # "detected"
      /\ t \notin current /\ missing[t] = 0 /\ Gap > 0 =>
           Len(e) = 2 /\ e[1] = "occluded" /\ e[2] = MissingState(t)
      /\ t \notin current /\ missing[t] >= 0 /\ ~(missing[t] = 0 /\ Gap > 0) =>
           \/ e = <<>> /\ last[t] = MissingState(t)
           \/ Len(e) = 1 /\ e[1] = MissingState(t) /\ e[1] # last[t]
      /\ t \notin current /\ missing[t] = Never => e = <<>>
  BY <1>b, EventsOf
<1>e. Len(<<>>) = 0
  OBVIOUS
<1>f. MissingState(t) = IF missing[t] + 1 <= Gap THEN "predicted" ELSE "lost"
  BY DEF MissingState
<1> DEFINE Legal == \A i \in 1 .. Len(e) :
              LegalStep(IF i = 1 THEN last[t] ELSE e[i - 1], e[i], ~Known(t))
<1> HIDE DEF e
<1>1. CASE t \in rebound
  <2>1. Len(e) = 2 /\ e[1] = "id_switch" /\ e[2] = "reactivated" /\ e # <<>>
    BY <1>1, <1>d, <1>e
  <2>2. last'[t] = "reactivated" /\ missing'[t] = 0
    BY <1>1, <1>c, <2>1
  <2>3. last[t] \in {"none", "predicted", "lost"}
    BY <1>1, <1>b DEF Settled, Never
  <2>4. Legal
    BY <2>1, <2>3 DEF LegalStep
  <2> QED BY <1>c, <2>2, <2>4 DEF Settled, Never, Lifecycle
<1>2. CASE t \in current \ rebound /\ missing[t] > 0
  <2>1. Len(e) = 1 /\ e[1] = "reactivated" /\ e # <<>>
    BY <1>2, <1>d, <1>e
  <2>2. last'[t] = "reactivated" /\ missing'[t] = 0
    BY <1>2, <1>c, <2>1
  <2>3. last[t] \in {"predicted", "lost"}
    BY <1>2, <1>b DEF Settled
  <2>4. Legal
    BY <2>1, <2>3 DEF LegalStep
  <2> QED BY <1>c, <2>2, <2>4 DEF Settled, Never, Lifecycle
<1>3. CASE t \in current \ rebound /\ missing[t] <= 0
  <2>1. \/ e = <<>> /\ last[t] = "detected"
        \/ Len(e) = 1 /\ e[1] = "detected" /\ last[t] # "detected" /\ e # <<>>
    BY <1>3, <1>d, <1>e
  <2>2. last'[t] = "detected" /\ missing'[t] = 0
    BY <1>3, <1>c, <2>1
  <2>3. /\ last[t] \in {"none", "lost", "detected", "reactivated"}
        /\ last[t] = "lost" => ~Known(t)
    BY <1>3, <1>b DEF Settled, Never, Known
  <2>4. Legal
    BY <2>1, <2>3, <1>e DEF LegalStep
  <2> QED BY <1>c, <2>2, <2>4 DEF Settled, Never, Lifecycle
<1>4. CASE t \notin current /\ missing[t] = Never
  <2>1. e = <<>> /\ last'[t] = last[t] /\ missing'[t] = Never
    BY <1>4, <1>c, <1>d DEF Known
  <2>2. Legal
    BY <2>1, <1>e
  <2> QED BY <1>4, <1>b, <1>c, <2>1, <2>2 DEF Settled, Never
<1>5. CASE t \notin current /\ missing[t] >= 0
  <2>1. missing'[t] \in {Never, missing[t] + 1}
        /\ (missing'[t] = Never => missing[t] + 1 > LostBuffer /\ missing[t] + 1 > Gap)
    BY <1>5, <1>a, <1>b, <1>c DEF Known, Never, Forgotten, Larger
  <2>2. last'[t] = MissingState(t) /\ Legal
    <3>1. CASE missing[t] = 0 /\ Gap > 0
      <4>1. Len(e) = 2 /\ e[1] = "occluded" /\ e[2] = "predicted" /\ e # <<>>
            /\ MissingState(t) = "predicted"
        BY <1>5, <1>a, <1>d, <1>e, <1>f, <3>1
      <4>2. last[t] \in {"detected", "reactivated"}
        BY <1>b, <3>1 DEF Settled
      <4>3. Legal
        BY <4>1, <4>2 DEF LegalStep
      <4> QED BY <1>c, <4>1, <4>3
    <3>2. CASE ~(missing[t] = 0 /\ Gap > 0)
      <4>1. \/ e = <<>> /\ last[t] = MissingState(t)
            \/ Len(e) = 1 /\ e[1] = MissingState(t) /\ e[1] # last[t] /\ e # <<>>
        BY <1>5, <1>d, <1>e, <3>2
      <4>2. CASE e = <<>>
        BY <1>c, <1>e, <4>1, <4>2
      <4>3. CASE e # <<>>
        <5>1. Len(e) = 1 /\ e[1] = MissingState(t) /\ e[1] # last[t]
          BY <4>1, <4>3
        <5>2. LegalStep(last[t], MissingState(t), ~Known(t))
          BY <1>5, <1>a, <1>b, <1>f, <3>2, <5>1 DEF Settled, LegalStep
        <5> QED BY <1>c, <4>3, <5>1, <5>2
      <4> QED BY <4>2, <4>3
    <3> QED BY <3>1, <3>2
  <2>3. Settled(t)'
    BY <1>5, <1>a, <1>b, <1>f, <2>1, <2>2 DEF Settled, Never
  <2> QED BY <1>5, <1>b, <1>c, <1>f, <2>1, <2>2, <2>3 DEF Never, Lifecycle
<1> QED BY <1>1, <1>2, <1>3, <1>4, <1>5, <1>b DEF Never

(* Every interruption is open, recovered or forgotten.                     *)
LEMMA InterruptionsKeep ==
  ASSUME Types, InterruptionsSettled,
         NEW current \in SUBSET Tracker, NEW rebound,
         UpdateLifecycle(current, rebound)
  PROVE  unsettled' \in Int /\ InterruptionsSettled'
<1> DEFINE S == {t \in Tracker : missing[t] > 0}
           N == NewlyMissing(current)
           R == Recovered(current)
           F == Forgotten(current)
           T == {t \in Tracker : missing'[t] > 0}
<1>a. Gap \in Nat /\ LostBuffer \in Nat \ {0} /\ IsFiniteSet(Tracker)
  BY GapAssumption
<1>b. \A t \in Tracker : missing[t] \in Int /\ missing[t] >= Never
  BY DEF Types
<1>c. \A t \in Tracker :
        missing'[t] = IF t \in current THEN 0
                      ELSE IF ~Known(t) \/ t \in F THEN Never ELSE missing[t] + 1
  BY DEF UpdateLifecycle
<1>1. F \subseteq S
  BY <1>a, <1>b DEF Forgotten, Larger, Known, Never
<1>2. R \subseteq S /\ R \cap F = {} /\ S \cap N = {} /\ N \subseteq Tracker
  BY <1>b DEF Recovered, Forgotten, NewlyMissing
<1>3. T = ((S \cup N) \ R) \ F
  <2>1. \A t \in Tracker : t \in T <=> t \in ((S \cup N) \ R) \ F
    BY <1>1, <1>b, <1>c DEF NewlyMissing, Recovered, Known, Never
  <2>2. T \subseteq Tracker /\ ((S \cup N) \ R) \ F \subseteq Tracker
    BY <1>2
  <2> QED BY <2>1, <2>2
<1> HIDE DEF T, S, N, R, F
<1>4. IsFiniteSet(S) /\ IsFiniteSet(N) /\ IsFiniteSet(R) /\ IsFiniteSet(F)
  BY <1>a, <1>1, <1>2, FS_Subset DEF S
<1>5. /\ Cardinality(S) \in Nat /\ Cardinality(N) \in Nat
      /\ Cardinality(R) \in Nat /\ Cardinality(F) \in Nat
  BY <1>4, FS_CardinalityType
<1>6. IsFiniteSet(S \cup N) /\ Cardinality(S \cup N) = Cardinality(S) + Cardinality(N)
  <2>1. IsFiniteSet(S \cup N)
        /\ Cardinality(S \cup N)
             = Cardinality(S) + Cardinality(N) - Cardinality(S \cap N)
    BY <1>4, FS_Union
  <2>2. Cardinality(S \cap N) = 0
    BY <1>2, FS_EmptySet
  <2> QED BY <1>5, <2>1, <2>2
<1>7. /\ IsFiniteSet((S \cup N) \ R)
      /\ Cardinality((S \cup N) \ R) = Cardinality(S \cup N) - Cardinality(R)
  <2>1. (S \cup N) \cap R = R
    BY <1>2
  <2>2. /\ IsFiniteSet((S \cup N) \ R)
        /\ Cardinality((S \cup N) \ R)
             = Cardinality(S \cup N) - Cardinality((S \cup N) \cap R)
    BY <1>6, FS_Difference, Zenon
  <2> QED BY <2>1, <2>2
<1>8. Cardinality(((S \cup N) \ R) \ F)
        = Cardinality((S \cup N) \ R) - Cardinality(F)
  <2>1. ((S \cup N) \ R) \cap F = F
    BY <1>1, <1>2
  <2>2. Cardinality(((S \cup N) \ R) \ F)
          = Cardinality((S \cup N) \ R) - Cardinality(((S \cup N) \ R) \cap F)
    BY <1>7, FS_Difference, Zenon
  <2> QED BY <2>1, <2>2
<1>9. Cardinality(T) = Cardinality(S) + Cardinality(N) - Cardinality(R) - Cardinality(F)
  BY <1>3, <1>5, <1>6, <1>7, <1>8
<1>10. unsettled' = unsettled + Cardinality(N) - Cardinality(R) - Cardinality(F)
       /\ unsettled = Cardinality(S) /\ unsettled \in Int
  BY DEF UpdateLifecycle, InterruptionsSettled, Types, N, R, F, S
<1> QED BY <1>5, <1>9, <1>10 DEF InterruptionsSettled, T

-----------------------------------------------------------------------------
(* A frame, as the lemmas above see it.                                    *)
LEMMA FrameParts ==
  ASSUME Inv, NEW current \in SUBSET Tracker, Process(current)
  PROVE  \E given, new, rebound :
           /\ Assignment(current, given, new)
           /\ UpdateEntities(current, given, new)
           /\ rebound \in SUBSET current /\ \A t \in rebound : missing[t] # 0
           /\ UpdateLifecycle(current, rebound)
           /\ shown' = [e \in Entity |-> Overlay(e, {given[t] : t \in current})]
<1>1. PICK m, id : Frame(current, m, id)
  BY FrameExists
<1> DEFINE new == {t \in DOMAIN m : m[t] = 0}
           given == GivenOf(current, m, id)
<1>2. /\ created + Cardinality(new) <= MaxEntity
      /\ UpdateEntities(current, given, new)
      /\ UpdateLifecycle(current, DOMAIN m \ new)
      /\ shown' = [e \in Entity |-> Overlay(e, {given[t] : t \in current})]
      /\ DOMAIN m = Unresolved(current)
  BY <1>1 DEF Frame, Matchings
<1>3. Assignment(current, given, new)
  <2>1. Pairing
    BY DEF Inv
  <2> QED BY <1>1, <2>1, GivenDistinct, Zenon
<1>4. DOMAIN m \ new \in SUBSET current /\ \A t \in DOMAIN m \ new : missing[t] # 0
  BY <1>2 DEF Unresolved, Inv, SeenHasEntity
<1> QED BY <1>2, <1>3, <1>4

LEMMA StepInv ==
  ASSUME Inv, NEW current \in SUBSET Tracker, Process(current)
  PROVE  Inv'
<1>1. PICK given, new, rebound :
        /\ Assignment(current, given, new)
        /\ UpdateEntities(current, given, new)
        /\ rebound \in SUBSET current /\ \A t \in rebound : missing[t] # 0
        /\ UpdateLifecycle(current, rebound)
        /\ shown' = [e \in Entity |-> Overlay(e, {given[t] : t \in current})]
  BY FrameParts
<1>2. Pairing /\ OverlayMatches /\ Types /\ InterruptionsSettled
      /\ \A t \in Tracker : Settled(t)
  BY DEF Inv, Pairing
<1>3. /\ entityOf' \in [Tracker -> 0 .. MaxEntity]
      /\ tracker' \in [Entity -> Tracker \cup {NoTracker}]
      /\ absent' \in [Entity -> Never .. Window]
      /\ created' \in 0 .. MaxEntity
      /\ Numbered' /\ Paired'
      /\ \A t \in current : entityOf'[t] # 0
  BY <1>1, <1>2, EntitiesKeep
<1>4. shown' \in [Entity -> Never .. Gap] /\ OverlayMatches'
  BY <1>1, <1>2, OverlayKeeps
<1>5. \A t \in Tracker : /\ missing'[t] \in Int /\ missing'[t] >= Never
                         /\ last'[t] \in Lifecycle \cup {"none"}
                         /\ Settled(t)'
  BY <1>1, <1>2, LifecycleKeeps
<1>6. unsettled' \in Int /\ InterruptionsSettled'
  BY <1>1, <1>2, InterruptionsKeep
<1>7. /\ missing' = [t \in Tracker |-> missing'[t]]
      /\ last' = [t \in Tracker |-> last'[t]]
      /\ \A t \in Tracker : missing'[t] = 0 => t \in current
  <2>1. /\ missing' = [t \in Tracker |->
                         IF t \in current THEN 0
                         ELSE IF ~Known(t) \/ t \in Forgotten(current) THEN Never
                         ELSE missing[t] + 1]
        /\ last' = [t \in Tracker |->
                      LET events == Events(t, current, rebound) IN
                      IF events = <<>> THEN last[t] ELSE events[Len(events)]]
    BY <1>1 DEF UpdateLifecycle
  <2> QED BY <1>2, <2>1 DEF Types, Known, Never
<1>8. SeenHasEntity'
  BY <1>3, <1>7 DEF SeenHasEntity
<1>9. Types'
  BY <1>3, <1>4, <1>5, <1>6, <1>7 DEF Types
<1> QED BY <1>3, <1>4, <1>5, <1>6, <1>8, <1>9 DEF Inv, Pairing

LEMMA InitInv == Init => Inv
<1> SUFFICES ASSUME Init PROVE Inv
  OBVIOUS
<1>a. Gap \in Nat /\ Window \in Nat /\ MaxEntity \in Nat
  BY GapAssumption
<1>1. Types
  <2>1. Never \in Never .. Window /\ Never \in Never .. Gap /\ 0 \in 0 .. MaxEntity
    BY <1>a DEF Never
  <2> QED BY <1>a, <2>1 DEF Init, NoEntities, Types, Never
<1>2. Numbered /\ Paired /\ OverlayMatches /\ SeenHasEntity
  BY DEF Init, NoEntities, Numbered, Paired, OverlayMatches, SeenHasEntity, Kept, Never
<1>3. \A t \in Tracker : Settled(t)
  BY DEF Init, NoEntities, Settled, Never
<1>4. InterruptionsSettled
  <2>1. {t \in Tracker : missing[t] > 0} = {}
    BY DEF Init, NoEntities, Never
  <2> QED BY <2>1, FS_EmptySet DEF Init, InterruptionsSettled
<1> QED BY <1>1, <1>2, <1>3, <1>4 DEF Inv, Pairing

-----------------------------------------------------------------------------
(* The inductive invariant of tracking.                                    *)
THEOREM Invariance == Spec => []Inv
<1>1. Inv /\ [Next]_vars => Inv'
  <2>1. Inv /\ UNCHANGED vars => Inv'
    BY DEF vars, entities, Inv, Pairing, Types, Numbered, Paired, OverlayMatches,
           InterruptionsSettled, SeenHasEntity, Settled, Kept
  <2> QED BY <2>1, StepInv DEF Next, Detections
<1> QED BY <1>1, InitInv, PTL DEF Spec

(* One player is one entity, for any tracker ids a frame may bring.        *)
THEOREM EntitiesPaired == Spec => []Paired
  BY Invariance, PTL DEF Inv, Pairing

(* The overlay never shows an entity that was purged, nor hides one that   *)
(* is within the prediction gap, for any thresholds.                       *)
THEOREM OverlayAgrees == Spec => []OverlayMatches
  BY Invariance, PTL DEF Inv

(* The counters the benchmark reads balance.                               *)
THEOREM InterruptionsBalance == Spec => []InterruptionsSettled
  BY Invariance, PTL DEF Inv

(* The life-cycle log of every track is a path, for any gap and buffer.    *)
THEOREM LifecycleLegal == Spec => LegalLifecycle
<1>1. Inv /\ [Next]_vars =>
        [\A t \in Tracker : \A i \in 1 .. Len(log'[t]) :
           LegalStep(IF i = 1 THEN last[t] ELSE log'[t][i - 1], log'[t][i],
                     ~Known(t))]_vars
  <2> SUFFICES ASSUME Inv, NEW current \in SUBSET Tracker, Process(current),
                      NEW t \in Tracker
               PROVE  \A i \in 1 .. Len(log'[t]) :
                        LegalStep(IF i = 1 THEN last[t] ELSE log'[t][i - 1],
                                  log'[t][i], ~Known(t))
    BY DEF Next, Detections
  <2>1. PICK given, new, rebound :
          /\ Assignment(current, given, new)
          /\ rebound \in SUBSET current /\ \A u \in rebound : missing[u] # 0
          /\ UpdateLifecycle(current, rebound)
    BY FrameParts
  <2> QED BY <2>1, LifecycleKeeps DEF Inv, Pairing
<1> QED BY <1>1, Invariance, PTL DEF Spec, LegalLifecycle

-----------------------------------------------------------------------------
(* The semantic windows.                                                   *)

Windows ==
  /\ age \in [Tracker -> Ages] /\ known \subseteq Tracker
  /\ heard \in [Entity -> Ages]
  /\ \A e \in Entity : ~Kept(e) => heard[e] = Never

SemanticsInv == Inv /\ Windows /\ HistoryFollows

-----------------------------------------------------------------------------
(* What a frame does to an entity it keeps: an id of the frame has it,     *)
(* which had no other before, or nobody of the frame does.                 *)
Seen(e, current) ==
  \E t \in current :
    /\ tracker'[e] = t /\ entityOf'[t] = e /\ absent'[e] = 0
    /\ entityOf[t] \in {0, e}
    /\ \A u \in current : entityOf'[u] = e => u = t

Unseen(e, current) ==
  /\ Kept(e) /\ tracker'[e] = tracker[e] /\ tracker[e] \notin current
  /\ absent'[e] # 0
  /\ \A u \in current : entityOf'[u] # e

LEMMA FrameOf ==
  ASSUME Inv, NEW current \in SUBSET Tracker, Process(current)
  PROVE  /\ \A e \in Entity : absent'[e] # Never => Seen(e, current) \/ Unseen(e, current)
         /\ \A t \in current : entityOf'[t] \in Entity
         /\ \A t, u \in current : entityOf'[t] = entityOf'[u] => t = u
<1>1. PICK given, new, rebound :
        /\ Assignment(current, given, new)
        /\ UpdateEntities(current, given, new)
  BY FrameParts
<1>2. /\ \A t \in current : given[t] \in Entity
      /\ \A t \in current : entityOf[t] # 0 => given[t] = entityOf[t]
      /\ \A t, u \in current : given[t] = given[u] => t = u
  BY <1>1 DEF Assignment
<1>3. \A t \in current : entityOf'[t] = given[t]
  BY <1>1 DEF UpdateEntities, Entry
<1>4. ASSUME NEW e \in Entity, absent'[e] # Never
      PROVE  Seen(e, current) \/ Unseen(e, current)
  <2> DEFINE held == {t \in current : given[t] = e}
  <2>1. /\ tracker'[e] = IF held # {} THEN CHOOSE t \in held : TRUE
                         ELSE IF absent[e] + 1 > Window THEN NoTracker ELSE tracker[e]
        /\ absent'[e] = IF held # {} THEN 0
                        ELSE IF ~Kept(e) \/ absent[e] + 1 > Window THEN Never
                        ELSE absent[e] + 1
    BY <1>1 DEF UpdateEntities
  <2>2. CASE held # {}
    <3>1. PICK t \in held : tracker'[e] = t
      BY <2>1, <2>2
    <3>2. Seen(e, current)
      BY <1>2, <1>3, <2>1, <2>2, <3>1 DEF Seen
    <3> QED BY <3>2
  <2>3. CASE held = {}
    <3>1. /\ Kept(e) /\ tracker'[e] = tracker[e] /\ absent'[e] = absent[e] + 1
          /\ ~(absent[e] + 1 > Window)
      BY <1>4, <2>1, <2>3
    <3>2. absent'[e] # 0
      BY <3>1 DEF Kept, Never, Inv, Pairing, Types
    <3>3. \A u \in current : entityOf'[u] # e
      BY <1>3, <2>3
    <3>4. tracker[e] \notin current
      <4>1. entityOf[tracker[e]] = e /\ e # 0
        BY <3>1 DEF Inv, Pairing, Paired, Entity
      <4> QED BY <1>2, <2>3, <4>1
    <3> QED BY <3>1, <3>2, <3>3, <3>4 DEF Unseen
  <2> QED BY <2>2, <2>3
<1> QED BY <1>2, <1>3, <1>4

-----------------------------------------------------------------------------
(* The ids a window leaves and the ids it comes to.                        *)
LEMMA MovedOf ==
  ASSUME SemanticsInv, NEW current \in SUBSET Tracker, Process(current),
         NEW t \in Moved(current)
  PROVE  /\ t \in current /\ entityOf[t] = 0 /\ entityOf'[t] \in Entity
         /\ Kept(entityOf'[t]) /\ OldId(t) = tracker[entityOf'[t]]
         /\ OldId(t) \in Tracker /\ entityOf[OldId(t)] = entityOf'[t]
         /\ age[OldId(t)] = heard[entityOf'[t]]
         /\ age[OldId(t)] # Never /\ t \notin known
<1>1. /\ t \in current /\ entityOf[t] = 0 /\ Kept(entityOf'[t])
      /\ age[OldId(t)] # Never /\ t \notin known
  BY DEF Moved, Rebindings
<1>2. entityOf'[t] \in Entity
  BY <1>1, FrameOf DEF SemanticsInv
<1> DEFINE e == entityOf'[t]
<1>3. \A f \in Entity : Kept(f) => /\ tracker[f] \in Tracker
                                   /\ entityOf[tracker[f]] = f
                                   /\ age[tracker[f]] = heard[f]
  BY DEF SemanticsInv, Inv, Pairing, Numbered, Paired, HistoryFollows
<1> QED BY <1>1, <1>2, <1>3 DEF OldId

(* The window a player brings into a frame is under the id it leaves with. *)
LEMMA InheritedKept ==
  ASSUME SemanticsInv, NEW current \in SUBSET Tracker, Process(current),
         NEW e \in Entity, absent'[e] # Never
  PROVE  ReboundAge(tracker'[e], current) = Inherited(e, current)
<1> DEFINE newcomers == {t \in current : entityOf'[t] = e /\ entityOf[t] # e}
<1>1. \A f \in Entity : Kept(f) => /\ tracker[f] \in Tracker
                                   /\ entityOf[tracker[f]] = f
                                   /\ age[tracker[f]] = heard[f]
  BY DEF SemanticsInv, Inv, Pairing, Numbered, Paired, HistoryFollows
<1>2. ~Kept(e) => heard[e] = Never
  BY DEF SemanticsInv, Windows
<1>3. 0 \notin Entity
  BY DEF Entity
<1>4. CASE Seen(e, current)
  <2>1. PICK t \in current : /\ tracker'[e] = t /\ entityOf'[t] = e
                             /\ entityOf[t] \in {0, e}
                             /\ \A u \in current : entityOf'[u] = e => u = t
    BY <1>4 DEF Seen
  <2>2. CASE entityOf[t] = e
    <3>1. newcomers = {}
      BY <2>1, <2>2
    <3>2. Inherited(e, current) = heard[e]
      BY <3>1, Zenon DEF Inherited
    <3>3. Kept(e) /\ tracker[e] = t
      BY <1>3, <2>2 DEF SemanticsInv, Inv, Pairing, Paired
    <3>4. t \notin Moved(current) /\ t \notin Left(current)
      <4>1. t \notin Moved(current)
        BY <1>3, <2>2, MovedOf
      <4>2. ASSUME NEW u \in Moved(current), t = OldId(u) PROVE FALSE
        BY <1>3, <2>1, <2>2, <4>2, MovedOf
      <4> QED BY <4>1, <4>2 DEF Left
    <3> QED BY <1>1, <2>1, <3>2, <3>3, <3>4 DEF ReboundAge
  <2>3. CASE entityOf[t] = 0
    <3>1. newcomers = {t}
      BY <1>3, <2>1, <2>3
    <3>2. t \notin Left(current)
      BY <1>3, <2>3, MovedOf DEF Left
    <3>3. Inherited(e, current) =
            IF heard[e] # Never /\ t \notin known THEN heard[e] ELSE age[t]
      <4>1. (CHOOSE u \in {t} : TRUE) = t
        OBVIOUS
      <4>2. newcomers # {} /\ (newcomers \cap known = {} <=> t \notin known)
        BY <3>1
      <4> QED BY <3>1, <4>1, <4>2 DEF Inherited
    <3>4. t \in Moved(current) <=> heard[e] # Never /\ t \notin known
      <4>1. t \in Rebindings(current) <=> Kept(e)
        BY <2>1, <2>3 DEF Rebindings
      <4>2. Kept(e) => age[OldId(t)] = heard[e]
        BY <1>1, <2>1 DEF OldId
      <4> QED BY <1>2, <4>1, <4>2 DEF Moved
    <3>5. t \in Moved(current) => age[OldId(t)] = heard[e]
      BY <2>1, MovedOf
    <3> QED BY <2>1, <3>2, <3>3, <3>4, <3>5 DEF ReboundAge
  <2> QED BY <2>1, <2>2, <2>3
<1>5. CASE Unseen(e, current)
  <2> DEFINE t == tracker[e]
  <2>1. /\ Kept(e) /\ tracker'[e] = t /\ t \notin current
        /\ \A u \in current : entityOf'[u] # e
    BY <1>5 DEF Unseen
  <2>2. Inherited(e, current) = heard[e]
    <3>1. newcomers = {}
      BY <2>1
    <3> QED BY <3>1, Zenon DEF Inherited
  <2>3. t \notin Moved(current)
    BY <2>1, MovedOf
  <2>4. ASSUME NEW u \in Moved(current), t = OldId(u) PROVE FALSE
    BY <1>1, <2>1, <2>4, MovedOf
  <2> QED BY <1>1, <2>1, <2>2, <2>3, <2>4 DEF ReboundAge, Left
<1> QED BY <1>4, <1>5, FrameOf DEF SemanticsInv

-----------------------------------------------------------------------------
LEMMA AgesOf ==
  /\ MaxMissing \in Nat /\ Never \in Ages /\ 0 \in Ages /\ MaxMissing \in Ages
  /\ \A n \in Ages : Older(n) \in Ages /\ Pruned(n) \in Ages
  BY IntervalAssumption DEF Ages, Never, Older, Pruned

LEMMA Inheritances ==
  ASSUME SemanticsInv, NEW current \in SUBSET Tracker, Process(current)
  PROVE  /\ \A e \in Entity : Inherited(e, current) \in Ages
         /\ \A t \in Tracker : ReboundAge(t, current) \in Ages
<1>1. age \in [Tracker -> Ages] /\ heard \in [Entity -> Ages]
  BY DEF SemanticsInv, Windows
<1>2. ASSUME NEW e \in Entity PROVE Inherited(e, current) \in Ages
  <2> DEFINE newcomers == {t \in current : entityOf'[t] = e /\ entityOf[t] # e}
  <2>1. newcomers # {} => (CHOOSE t \in newcomers : TRUE) \in Tracker
    OBVIOUS
  <2> HIDE DEF newcomers
  <2>2. Inherited(e, current) = heard[e]
        \/ (newcomers # {} /\ Inherited(e, current) = age[CHOOSE t \in newcomers : TRUE])
    BY DEF Inherited, newcomers
  <2> QED BY <1>1, <2>1, <2>2
<1>3. ASSUME NEW t \in Tracker PROVE ReboundAge(t, current) \in Ages
  BY <1>1, AgesOf, MovedOf DEF ReboundAge
<1> QED BY <1>2, <1>3

LEMMA SemanticsStep ==
  ASSUME SemanticsInv, NEW current \in SUBSET Tracker, ProcessFrame(current)
  PROVE  SemanticsInv'
<1>1. Process(current) /\ (Refresh(current) \/ KeepLabels(current))
  BY DEF ProcessFrame
<1>2. Inv'
  BY <1>1, StepInv DEF SemanticsInv
<1>3. /\ \A e \in Entity : absent'[e] # Never =>
           ReboundAge(tracker'[e], current) = Inherited(e, current)
      /\ \A e \in Entity : Inherited(e, current) \in Ages
      /\ \A t \in Tracker : ReboundAge(t, current) \in Ages
      /\ \A e \in Entity : absent'[e] # Never => Seen(e, current) \/ Unseen(e, current)
  BY <1>1, InheritedKept, Inheritances, FrameOf DEF SemanticsInv
<1>4. \A e \in Entity : absent'[e] # Never => tracker'[e] \in Tracker
  BY <1>2 DEF Inv, Pairing, Numbered, Kept
<1>5. CASE Refresh(current)
  <2>1. /\ age' = [t \in Tracker |-> IF t \in current THEN 0
                                     ELSE Pruned(ReboundAge(t, current))]
        /\ heard' = [e \in Entity |->
             IF absent'[e] = Never THEN Never
             ELSE IF absent'[e] = 0 THEN 0 ELSE Pruned(Inherited(e, current))]
    <3>1. heard' = [e \in Entity |->
                      Heard(e, current, [n \in Ages |-> Pruned(n)], TRUE)]
      BY <1>5 DEF Refresh
    <3> QED BY <1>3, <1>5, <3>1 DEF Refresh, Heard
  <2>2. known' \subseteq Tracker
    <3>1. PICK labelled \in Labelled(current) :
            known' = labelled \cup {t \in ReboundKnown(current) \ current : age'[t] # Never}
      BY <1>5 DEF Refresh
    <3>2. labelled \subseteq Tracker
      BY DEF Labelled, Resolved, Evidence
    <3> QED BY <3>1, <3>2 DEF ReboundKnown
  <2>3. Windows'
    BY <1>3, <2>1, <2>2, AgesOf DEF Windows, Kept
  <2>4. ASSUME NEW e \in Entity, absent'[e] # Never
        PROVE  age'[tracker'[e]] = heard'[e]
    <3>1. CASE Seen(e, current)
      BY <2>1, <2>4, <3>1 DEF Seen
    <3>2. CASE Unseen(e, current)
      BY <1>3, <1>4, <2>1, <2>4, <3>2 DEF Unseen
    <3> QED BY <1>3, <2>4, <3>1, <3>2
  <2> QED BY <1>2, <2>3, <2>4 DEF SemanticsInv, HistoryFollows, Kept
<1>6. CASE KeepLabels(current)
  <2>1. /\ age' = [t \in Tracker |-> Older(ReboundAge(t, current))]
        /\ heard' = [e \in Entity |-> IF absent'[e] = Never THEN Never
                                      ELSE Older(Inherited(e, current))]
        /\ known' = ReboundKnown(current)
    <3>1. heard' = [e \in Entity |->
                      Heard(e, current, [n \in Ages |-> Older(n)], FALSE)]
      BY <1>6 DEF KeepLabels
    <3> QED BY <1>3, <1>6, <3>1 DEF KeepLabels, Heard
  <2>2. Windows'
    BY <1>3, <2>1, AgesOf DEF Windows, Kept, ReboundKnown
  <2>3. \A e \in Entity : absent'[e] # Never => age'[tracker'[e]] = heard'[e]
    BY <1>3, <1>4, <2>1
  <2> QED BY <1>2, <2>2, <2>3 DEF SemanticsInv, HistoryFollows, Kept
<1> QED BY <1>1, <1>5, <1>6

LEMMA SemanticsInitInv == SemanticsInit => SemanticsInv
<1> SUFFICES ASSUME SemanticsInit PROVE SemanticsInv
  OBVIOUS
<1>1. Inv
  BY InitInv DEF SemanticsInit
<1>2. Windows
  BY AgesOf DEF SemanticsInit, Windows
<1>3. HistoryFollows
  BY DEF SemanticsInit, Init, NoEntities, HistoryFollows, Kept
<1> QED BY <1>1, <1>2, <1>3 DEF SemanticsInv

-----------------------------------------------------------------------------
(* The evidence window follows the player through every rebinding, in a    *)
(* frame that refreshes the labels or between two.                         *)
THEOREM EvidenceFollows == SemanticsSpec => []HistoryFollows
<1>1. SemanticsInv /\ [SemanticsNext]_<<vars, semantics>> => SemanticsInv'
  <2>1. ASSUME SemanticsInv, UNCHANGED <<vars, semantics>> PROVE SemanticsInv'
    BY <2>1 DEF vars, entities, semantics, SemanticsInv, Windows, HistoryFollows, Inv,
           Pairing, Types, Numbered, Paired, OverlayMatches, InterruptionsSettled,
           SeenHasEntity, Settled, Kept
  <2> QED BY <2>1, SemanticsStep DEF SemanticsNext, Detections
<1>2. SemanticsInv => HistoryFollows
  BY DEF SemanticsInv
<1> QED BY <1>1, <1>2, SemanticsInitInv, PTL DEF SemanticsSpec

(* The semantics only follow the tracker: what holds of tracking alone     *)
(* holds of it with the windows and labels (VisionCore.process).           *)
LEMMA SemanticsIsTracking == SemanticsSpec => Spec
<1>1. SemanticsInit => Init
  BY DEF SemanticsInit
<1>2. [SemanticsNext]_<<vars, semantics>> => [Next]_vars
  BY DEF SemanticsNext, ProcessFrame, Next
<1> QED BY <1>1, <1>2, PTL DEF SemanticsSpec, Spec
=============================================================================
