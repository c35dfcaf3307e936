--------------------------- MODULE TrackSemantics ---------------------------
(***************************************************************************)
(* The role and team labels of the tracked players (app/vision/semantics.py,*)
(* driven by InferencePipeline._update_semantics), composed with           *)
(* PlayerTracking: the frame that gives a player a new tracker id also     *)
(* moves its evidence window to that id, and the labels are refreshed only *)
(* every few frames.                                                       *)
(*                                                                         *)
(* Role and team windows are one window here, and the weighted vote over   *)
(* new evidence may have any outcome: only whether a track has a window    *)
(* and whether it has a known label decide what happens to it.             *)
(***************************************************************************)
EXTENDS PlayerTracking

CONSTANTS
  MaxMissing,   \* max_missing_frames of the trajectory manager
  Interval      \* _semantic_interval

ASSUME IntervalAssumption == MaxMissing \in Nat /\ Interval \in Nat \ {0}

VARIABLES
  age,          \* frames since last_seen_frame by tracker id, Never when not in _states
  known,        \* the tracker ids whose role or team is not unknown
  results,      \* the tracker ids in _semantic_results
  since,        \* frames since _semantic_last_frame, Interval before the first update
  heard         \* history: frames since each player's window was last fed

semantics == <<age, known, results, since, heard>>

SemanticsInit ==
  /\ Init
  /\ age = [t \in Tracker |-> Never] /\ known = {}
  /\ results = {} /\ since = Interval
  /\ heard = [e \in Entity |-> Never]

-----------------------------------------------------------------------------
Due == since + 1 >= Interval

(* VisionFrame.rebindings, read off the step of the entities: an id that   *)
(* had no entity and is given one that was missing.                        *)
Rebindings(current) == {t \in current : entityOf[t] = 0 /\ Kept(entityOf'[t])}

OldId(t) == tracker[entityOf'[t]]

(* Mutant: rebindings are only applied when the labels are refreshed.      *)
MovedWhenDue(current) ==
  {t \in Rebindings(current) : Due /\ age[OldId(t)] # Never /\ t \notin known}

(* rebind_track: the window moves to the new id unless there is none, or   *)
(* the new id already has a known label.                                   *)
Moved(current) == {t \in Rebindings(current) : age[OldId(t)] # Never /\ t \notin known}

Left(current) == {OldId(t) : t \in Moved(current)}

(* The windows and labels once every rebinding is applied.                 *)
ReboundAge(t, current) ==
  IF t \in Moved(current) THEN age[OldId(t)]
  ELSE IF t \in Left(current) THEN Never ELSE age[t]

ReboundKnown(current) ==
  {t \in Tracker : IF t \in Moved(current) THEN OldId(t) \in known
                   ELSE t \in known \ Left(current)}

Older(n) == IF n = Never \/ n = MaxMissing THEN n ELSE n + 1

(* remove_stale: windows last fed more than MaxMissing frames ago go.      *)
Pruned(n) == IF n = MaxMissing THEN Never ELSE Older(n)

(* The age of the window a player brings into this frame: the one fed last,*)
(* unless the player had none or has a new id that is labelled already.    *)
Inherited(e, current) ==
  LET newcomers == {t \in current : entityOf'[t] = e /\ entityOf[t] # e} IN
  IF newcomers = {} \/ (heard[e] # Never /\ newcomers \cap known = {})
  THEN heard[e]
  ELSE age[CHOOSE t \in newcomers : TRUE]

Heard(e, current, next, fed) ==
  IF absent'[e] = Never THEN Never
  ELSE IF fed /\ absent'[e] = 0 THEN 0 ELSE next[Inherited(e, current)]

-----------------------------------------------------------------------------
Ages == Never .. MaxMissing

(* The ids whose predictions can add an observation: any of the frame, or  *)
(* none without a predictor or when it raises.                             *)
Evidence(current) == SUBSET current

(* _resolve: a new observation may swing the vote to any label; without one*)
(* every weight decays alike and the label stays what it was.              *)
Resolved(current, observed) ==
  {(ReboundKnown(current) \cap (current \ observed)) \cup labelled :
     labelled \in SUBSET observed}

Labelled(current) == UNION {Resolved(current, seen) : seen \in Evidence(current)}

(* TrackSemanticManager.update: every id of the frame has a window and a   *)
(* result, and the ids not in it may be stale.                             *)
Refresh(current) ==
  /\ Due
  /\ age' = [t \in Tracker |-> IF t \in current THEN 0 ELSE Pruned(ReboundAge(t, current))]
  /\ \E labelled \in Labelled(current) :
       known' = labelled \cup {t \in ReboundKnown(current) \ current : age'[t] # Never}
  /\ results' = current /\ since' = 0
  /\ heard' = [e \in Entity |->
       Heard(e, current, [n \in Ages |-> Pruned(n)], TRUE)]

(* Between updates, and when the update raises: the last results stand.    *)
KeepLabels(current) ==
  /\ age' = [t \in Tracker |-> Older(ReboundAge(t, current))]
  /\ known' = ReboundKnown(current)
  /\ since' = IF Due THEN since ELSE since + 1
  /\ heard' = [e \in Entity |->
       Heard(e, current, [n \in Ages |-> Older(n)], FALSE)]
  /\ UNCHANGED results

ProcessFrame(current) == Process(current) /\ (Refresh(current) \/ KeepLabels(current))

SemanticsNext == \E current \in Detections : ProcessFrame(current)

SemanticsSpec == SemanticsInit /\ [][SemanticsNext]_<<vars, semantics>>

-----------------------------------------------------------------------------
(* The evidence window follows the player: however often a player goes     *)
(* missing, comes back under another tracker id, in a frame that refreshes *)
(* labels or between two of them, the id the player has now holds the      *)
(* window the player last fed, until that is stale (rebind_track,          *)
(* remove_stale).                                                          *)
HistoryFollows == \A e \in Entity : Kept(e) => age[tracker[e]] = heard[e]
=============================================================================
