------------------------------ MODULE FoulRules ------------------------------
(***************************************************************************)
(* The deterministic part of a multi-view review: the facts a reviewer     *)
(* confirmed (FoulFacts of app/multiview/models.py), the ones that follow  *)
(* from them (_derive_missing_facts of service.py), where the foul was     *)
(* (geometry.py) and the assessment of IFABRuleEngine.assess (rules.py).   *)
(*                                                                         *)
(* A fact that is not confirmed is "unknown".  A location is the penalty   *)
(* area it lies in, or "outside".  Law texts, priorities and the geometry  *)
(* that is only displayed are left out; a rule is its identifier.          *)
(***************************************************************************)
EXTENDS FiniteSets

Unknown == "unknown"
Answer == {"yes", "no", Unknown}
Team == {"home", "away", Unknown}

Facts ==
  [offence  : Answer,
   action   : {"challenge", "dive", "other", Unknown},
   ball     : Answer,
   contact  : Answer,
   region   : {"body", Unknown},
   intensity: {"careless", "reckless", "excessive_force", Unknown},
   attempt  : Answer,
   tactical : {"none", "spa", "dogso", Unknown},
   location : {"outside", "left", "right", Unknown},
   offender : Team,
   victim   : Team,
   side     : {"left", "right", Unknown}]

Name == {"offence", "action", "ball", "contact", "region", "intensity", "attempt",
         "tactical", "location", "offender", "victim", "side"}

NoFacts == [n \in Name |-> Unknown]

Assessment(status, restart, sanction, rules, missing, conflicts) ==
  [status |-> status, restart |-> restart, sanction |-> sanction,
   rules |-> rules, missing |-> missing, conflicts |-> conflicts]

Opponent(team) == IF team = "home" THEN "away" ELSE "home"

(* _derive_missing_facts: contact follows from the action when nobody      *)
(* confirmed it, the victim always from the offender.                      *)
Derive(f) ==
  [f EXCEPT !.contact = IF @ = Unknown /\ f.action # Unknown
                        THEN (IF f.action = "dive" THEN "no" ELSE "yes") ELSE @,
            !.victim  = IF f.offender # Unknown THEN Opponent(f.offender) ELSE @]

-----------------------------------------------------------------------------
(* Where the foul was.                                                     *)

DefendingSide(f) ==
  IF Unknown \in {f.offender, f.side} THEN Unknown
  ELSE IF f.offender = "home" THEN f.side
  ELSE IF f.side = "left" THEN "right" ELSE "left"

(* in_offender_own_penalty_area                                            *)
OwnArea(f) ==
  IF DefendingSide(f) = Unknown THEN Unknown
  ELSE IF f.location = DefendingSide(f) THEN "yes" ELSE "no"

-----------------------------------------------------------------------------
(* assess, for a confirmed offence whose action is physical or not known.  *)

RestartOf(f) ==
  CASE f.ball = "no" -> "previous_restart"
    [] f.ball # "no" /\ Unknown \in {f.ball, f.location} -> Unknown
    [] f.ball = "yes" /\ f.location = "outside" -> "direct_free_kick"
    [] f.ball = "yes" /\ f.location \in {"left", "right"} ->
         CASE OwnArea(f) = "yes" -> "penalty"
           [] OwnArea(f) = "no" -> "direct_free_kick"
           [] OwnArea(f) = Unknown -> Unknown

(* What the intensity alone asks for.                                      *)
FloorOf(f) ==
  CASE f.intensity = "careless" -> "none"
    [] f.intensity = "reckless" -> "yellow_card"
    [] f.intensity = "excessive_force" -> "red_card"
    [] f.intensity = Unknown -> "pending"

Unless(red, card) == IF red = "red_card" THEN red ELSE card

InArea(f) == f.location \in {"left", "right"}

(* Facts without which the conclusion is not complete.                     *)
MissingFacts(f) ==
  {n \in {"action", "ball", "contact", "intensity", "tactical", "location"} :
     f[n] = Unknown}

(* Whose area it was decides between a penalty and a free kick.            *)
MissingSide(f) ==
  {n \in {"offender", "side"} :
     f.ball = "yes" /\ InArea(f) /\ OwnArea(f) = Unknown /\ f[n] = Unknown}

MissingAttempt(f) ==
  {n \in {"attempt"} :
     f.tactical \in {"dogso", "spa"} /\ RestartOf(f) = "penalty" /\ f[n] = Unknown}

MissingOf(f) == MissingFacts(f) \cup MissingSide(f) \cup MissingAttempt(f)

DogsoSanction(f, floor) ==
  CASE RestartOf(f) = "direct_free_kick" -> "red_card"
    [] RestartOf(f) = "penalty" /\ f.attempt = "no" -> "red_card"
    [] RestartOf(f) = "penalty" /\ f.attempt = "yes" -> Unless(floor, "yellow_card")
    [] OTHER -> Unless(floor, "pending")

(* Mutant: a promising attack is a caution whatever the intensity.         *)
AlwaysCaution(f, floor) == "yellow_card"

SpaSanction(f, floor) ==
  CASE RestartOf(f) = "direct_free_kick" -> Unless(floor, "yellow_card")
    [] RestartOf(f) = "penalty" /\ f.attempt = Unknown -> Unless(floor, "pending")
    [] RestartOf(f) = "penalty" /\ f.attempt = "yes" /\ floor = "none" -> "none"
    [] RestartOf(f) = "penalty" /\ f.attempt # Unknown
       /\ ~(f.attempt = "yes" /\ floor = "none") -> Unless(floor, "yellow_card")
    [] OTHER -> floor

SanctionOf(f) ==
  CASE f.tactical = "dogso" -> DogsoSanction(f, FloorOf(f))
    [] f.tactical = "spa" -> SpaSanction(f, FloorOf(f))
    [] OTHER -> FloorOf(f)

RulesOf(f) ==
  LET restart == RestartOf(f) IN
  {r \in {"L12-BALL-OUT", "L12-CONTACT-RESTART", "L12-EXCESSIVE-FORCE",
          "L12-INTENSITY", "L12-DOGSO-PENALTY-ATTEMPT",
          "L12-DOGSO-PENALTY-NO-ATTEMPT", "L12-DOGSO-OUTSIDE",
          "L12-SPA-PENALTY-ATTEMPT", "L12-SPA"} :
     CASE r = "L12-BALL-OUT" -> f.ball = "no"
       [] r = "L12-CONTACT-RESTART" -> restart \in {"direct_free_kick", "penalty"}
       [] r = "L12-EXCESSIVE-FORCE" -> f.intensity = "excessive_force"
       [] r = "L12-INTENSITY" -> f.intensity \in {"careless", "reckless"}
       [] r = "L12-DOGSO-PENALTY-ATTEMPT" ->
            f.tactical = "dogso" /\ restart = "penalty" /\ f.attempt = "yes"
       [] r = "L12-DOGSO-PENALTY-NO-ATTEMPT" ->
            f.tactical = "dogso" /\ restart = "penalty" /\ f.attempt = "no"
       [] r = "L12-DOGSO-OUTSIDE" -> f.tactical = "dogso" /\ restart = "direct_free_kick"
       [] r = "L12-SPA-PENALTY-ATTEMPT" ->
            /\ f.tactical = "spa" /\ restart = "penalty" /\ f.attempt = "yes"
            /\ FloorOf(f) = "none"
       [] r = "L12-SPA" ->
            /\ f.tactical = "spa" /\ restart = "direct_free_kick"
            /\ FloorOf(f) # "red_card"}

ConflictsOf(f) ==
  (IF f.offender = f.victim /\ f.offender # Unknown THEN {"teams"} ELSE {})
    \cup (IF f.contact = "no" /\ f.region # Unknown THEN {"region"} ELSE {})

StatusOf(missing, conflicts) ==
  IF missing = {} /\ conflicts = {} THEN "complete" ELSE "incomplete"

(* Mutant: whether the ball was in play is not asked.                      *)
AssessDiveAnyBall(f) ==
  Assessment(StatusOf({}, ConflictsOf(f)),
    CASE f.ball = "yes" -> "indirect_free_kick"
      [] f.ball = "no" -> "previous_restart"
      [] f.ball = Unknown -> Unknown,
    "yellow_card", {"L12-SIMULATION"}, {}, ConflictsOf(f))

(* Simulation: the restart depends on the ball alone.                      *)
AssessDive(f) ==
  LET missing == {n \in {"ball"} : f[n] = Unknown}
  IN Assessment(StatusOf(missing, ConflictsOf(f)),
       CASE f.ball = "yes" -> "indirect_free_kick"
         [] f.ball = "no" -> "previous_restart"
         [] f.ball = Unknown -> Unknown,
       "yellow_card", {"L12-SIMULATION"}, missing, ConflictsOf(f))

(* IFABRuleEngine.assess                                                   *)
Assess(f) ==
  CASE f.offence = Unknown ->
         Assessment("incomplete", Unknown, "pending", {}, {"offence"}, {})
    [] f.offence = "no" ->
         Assessment("complete", "play_on", "none", {"L12-NO-OFFENCE"}, {}, {})
    [] f.offence = "yes" /\ f.action = "dive" -> AssessDive(f)
    [] f.offence = "yes" /\ f.action = "other" ->
         Assessment("unsupported", Unknown, "pending",
                    {"SCOPE-UNSUPPORTED-ACTION"}, {}, {})
    [] f.offence = "yes" /\ f.action \in {"challenge", Unknown}
       /\ f.contact = "no" ->
         Assessment("unsupported", Unknown, "pending", {"SCOPE-NON-CONTACT"},
                    {}, ConflictsOf(f))
    [] f.offence = "yes" /\ f.action \in {"challenge", Unknown}
       /\ f.contact # "no" ->
         Assessment(StatusOf(MissingOf(f), ConflictsOf(f)), RestartOf(f),
                    SanctionOf(f), RulesOf(f), MissingOf(f), ConflictsOf(f))
=============================================================================
