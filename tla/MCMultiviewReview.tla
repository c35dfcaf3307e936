-------------------------- MODULE MCMultiviewReview --------------------------
(* MultiviewReview for TLC: two referees, one of whom only watches whether  *)
(* the offender tried to play the ball, and one analysis of the case.       *)
EXTENDS MultiviewReview, TLC

MCStart == [NoFacts EXCEPT !.offence = "yes", !.side = "left", !.location = "left"]

One(name, values) == {name :> v : v \in values}

(* The chief may also begin with what the model suggests; the fourth saves  *)
(* a form that he has not changed, too.                                     *)
MCEdits ==
  [chief |-> UNION {One("action", {"challenge", "dive"}), One("ball", {"yes", "no"}),
                    One("intensity", {"excessive_force"}), One("offender", {"home"}),
                    One("tactical", {"spa", Unknown}),
                    {[action |-> "challenge", intensity |-> "careless"]}},
   fourth |-> One("attempt", {"yes", Unknown}) \cup {<<>>}]

MCIds == [chief |-> {}, fourth |-> {OtherCase, UnknownId}]

MCVerdicts == <<[action |-> "challenge", offence |-> "no"]>>
MCForeign == [action |-> "dive", offence |-> "yes"]
=============================================================================
