------------------------ MODULE MultiviewReviewProofs ------------------------
(***************************************************************************)
(* For any referees, edits and analyses: no confirmed fact is lost,        *)
(* warnings match the analysis they are stored with, and the rules never   *)
(* take back a complete conclusion whose facts stand or soften a card.     *)
(***************************************************************************)
EXTENDS MultiviewReview, TLAPS

(* A request in flight was made from a revision that existed, has been     *)
(* applied only if a later one exists, and keeps the newest facts, but for *)
(* those its referee edited, if none does.                                 *)
Pending(q) ==
  /\ q.facts \in Facts
  /\ q.expected \in Nat /\ q.expected <= latest.revision
  /\ q.applied \in {0, 1}
  /\ q.named \in Saved \cup {NoAnalysis, OtherCase, UnknownId}
  /\ q.expected = latest.revision =>
       q.applied = 0 /\ Keeps(latest.facts, q.facts, q.edited)

Ready(q) ==
  /\ q.analysis \in Saved \cup {NoAnalysis, UnknownId}
  /\ q.against = Against(q.facts, q.analysis)
  /\ q.assessment = Assess(q.facts)

RequestInv(q) ==
  /\ q.at \in {"idle", "sent", "assessed", "committed"}
  /\ q.at # "idle" => Pending(q)
  /\ q.at = "assessed" => Ready(q)
  /\ q.at = "committed" => q.expected < latest.revision /\ q.applied = 1

LatestInv ==
  /\ latest.revision \in Nat /\ latest.facts \in Facts
  /\ latest.analysis \in Saved \cup {NoAnalysis, UnknownId}
  /\ latest.against = Against(latest.facts, latest.analysis)
  /\ latest.assessment \in {Assess(latest.facts), Assess(NoFacts)}

Inv ==
  /\ saved \in 0 .. Len(Verdicts)
  /\ LatestInv
  /\ changes \in 0 .. MaxChanges
  /\ DOMAIN request = Reviewer
  /\ \A r \in Reviewer : RequestInv(request[r])

-----------------------------------------------------------------------------
(* Facts.                                                                  *)

LEMMA NoFactsType == NoFacts \in Facts
  BY DEF NoFacts, Name, Facts, Answer, Team, Unknown

LEMMA FactsDomain == ASSUME NEW f \in Facts PROVE DOMAIN f = Name
  BY DEF Facts, Name

(* An edit that one form takes, every form takes.                          *)
LEMMA EditedType ==
  ASSUME NEW f \in Facts, NEW g \in Facts, NEW edit, Edited(g, edit) \in Facts
  PROVE  Edited(f, edit) \in Facts
<1>1. /\ Edited(f, edit) = [n \in Name |-> IF n \in DOMAIN edit THEN edit[n] ELSE f[n]]
      /\ Edited(g, edit) = [n \in Name |-> IF n \in DOMAIN edit THEN edit[n] ELSE g[n]]
  BY DEF Edited
<1>2. \A n \in Name : Edited(f, edit)[n] \in {Edited(g, edit)[n], f[n]}
  BY <1>1
<1> QED  BY <1>1, <1>2 DEF Facts, Name

LEMMA DeriveType == ASSUME NEW f \in Facts PROVE Derive(f) \in Facts
  BY DEF Facts, Derive, Opponent, Answer, Team, Unknown

(* _derive_missing_facts fills in; it overwrites nothing but the victim.   *)
LEMMA DeriveKeeps ==
  ASSUME NEW f \in Facts PROVE Keeps(f, Derive(f), {})
  BY FactsDomain DEF Keeps, Derive, Name

LEMMA EditedKeeps ==
  ASSUME NEW f, NEW edit
  PROVE  Keeps(f, Edited(f, edit), DOMAIN edit)
  BY DEF Keeps, Edited

LEMMA KeepsTransitive ==
  ASSUME NEW f, NEW g, NEW h, NEW edited, Keeps(f, g, edited), Keeps(g, h, {})
  PROVE  Keeps(f, h, edited)
  BY DEF Keeps

-----------------------------------------------------------------------------
(* The rules.                                                              *)

(* A complete conclusion about an offence rests on facts it has.           *)
LEMMA CompleteFinal ==
  ASSUME NEW f \in Facts, NEW g \in Facts, Keeps(f, g, {}),
         Assess(f).status = "complete"
  PROVE  /\ Assess(g).restart = Assess(f).restart
         /\ Assess(g).sanction = Assess(f).sanction
<1>1. \A n \in Name \ {"victim"} : f[n] # Unknown => g[n] = f[n]
  BY DEF Keeps
<1>2. /\ f.offence \in Answer /\ g.offence \in Answer
      /\ f.action \in {"challenge", "dive", "other", Unknown}
  BY DEF Facts
<1>3. CASE f.offence = Unknown
  BY <1>3 DEF Assess, Assessment, Unknown
<1>4. CASE f.offence = "no"
  <2>1. g.offence = "no" BY <1>1, <1>4 DEF Name, Unknown
  <2> QED BY <1>4, <2>1 DEF Assess, Assessment, Unknown
<1>5. CASE f.offence = "yes" /\ f.action = "dive"
  <2>1. g.offence = "yes" /\ g.action = "dive"
    BY <1>1, <1>5 DEF Name, Unknown
  <2>2. f.ball # Unknown
    BY <1>5 DEF Assess, Assessment, AssessDive, StatusOf, Unknown
  <2>3. g.ball = f.ball
    BY <1>1, <2>2 DEF Name
  <2> QED BY <1>5, <2>1, <2>3 DEF Assess, Assessment, AssessDive, Unknown
<1>6. CASE f.offence = "yes" /\ f.action = "other"
  BY <1>6 DEF Assess, Assessment, Unknown
<1>7. CASE f.offence = "yes" /\ f.action \in {"challenge", Unknown} /\ f.contact = "no"
  BY <1>7 DEF Assess, Assessment, Unknown
<1>8. CASE f.offence = "yes" /\ f.action \in {"challenge", Unknown} /\ f.contact # "no"
  <2>1. Assess(f) = Assessment(StatusOf(MissingOf(f), ConflictsOf(f)), RestartOf(f),
                               SanctionOf(f), RulesOf(f), MissingOf(f), ConflictsOf(f))
    BY <1>8 DEF Assess, Unknown
  <2>2. MissingOf(f) = {}
    BY <2>1 DEF Assessment, StatusOf
  <2>3. \A n \in {"action", "ball", "contact", "intensity", "tactical", "location"} :
          f[n] # Unknown
    BY <2>2 DEF MissingOf, MissingFacts
  <2>4. \A n \in {"offence", "action", "ball", "contact", "intensity", "tactical",
                  "location"} : g[n] = f[n]
    BY <1>1, <1>8, <2>3 DEF Name, Unknown
  <2>5. Assess(g).restart = RestartOf(g) /\ Assess(g).sanction = SanctionOf(g)
    BY <1>8, <2>3, <2>4 DEF Assess, Assessment, Unknown
  <2>6. f.ball = "yes" /\ InArea(f) => OwnArea(g) = OwnArea(f)
    <3>1. ASSUME f.ball = "yes", InArea(f)
          PROVE  f.offender # Unknown /\ f.side # Unknown
      <4>1. OwnArea(f) # Unknown \/ (f.offender # Unknown /\ f.side # Unknown)
        BY <2>2, <3>1 DEF MissingOf, MissingSide
      <4> QED BY <4>1 DEF OwnArea, DefendingSide
    <3>2. ASSUME f.ball = "yes", InArea(f)
          PROVE  g.offender = f.offender /\ g.side = f.side
      BY <1>1, <3>1, <3>2 DEF Name
    <3> QED BY <2>4, <3>2 DEF OwnArea, DefendingSide
  <2>7. RestartOf(g) = RestartOf(f)
    <3>1. f.ball \in {"yes", "no"} /\ f.location \in {"outside", "left", "right"}
      BY <2>3 DEF Facts, Answer
    <3>2. g.ball = f.ball /\ g.location = f.location
      BY <2>4
    <3>3. CASE f.ball = "no"
      BY <3>2, <3>3 DEF RestartOf
    <3>4. CASE f.ball = "yes" /\ f.location = "outside"
      BY <3>2, <3>4 DEF RestartOf, Unknown
    <3>5. CASE f.ball = "yes" /\ f.location \in {"left", "right"}
      BY <2>6, <3>2, <3>5 DEF RestartOf, InArea, Unknown
    <3> QED BY <3>1, <3>3, <3>4, <3>5
  <2>8. f.tactical \in {"dogso", "spa"} /\ RestartOf(f) = "penalty"
        => g.attempt = f.attempt
    BY <1>1, <2>2 DEF MissingOf, MissingAttempt, Name
  <2>9. FloorOf(g) = FloorOf(f)
    BY <2>4 DEF FloorOf
  <2>10. SanctionOf(g) = SanctionOf(f)
    <3>1. g.tactical = f.tactical
      BY <2>4
    <3>2. f.tactical = "dogso" => DogsoSanction(g, FloorOf(g)) = DogsoSanction(f, FloorOf(f))
      BY <2>7, <2>8, <2>9 DEF DogsoSanction
    <3>3. f.tactical = "spa" => SpaSanction(g, FloorOf(g)) = SpaSanction(f, FloorOf(f))
      BY <2>7, <2>8, <2>9 DEF SpaSanction
    <3> QED BY <2>9, <3>1, <3>2, <3>3 DEF SanctionOf
  <2> QED BY <2>1, <2>5, <2>7, <2>10 DEF Assessment
<1> QED BY <1>2, <1>3, <1>4, <1>5, <1>6, <1>7, <1>8 DEF Answer, Unknown

-----------------------------------------------------------------------------
(* Requests.                                                               *)

LEMMA Analyses ==
  /\ Len(Verdicts) \in Nat
  /\ OtherCase \notin Saved \cup {NoAnalysis, UnknownId}
  BY ReviewAssumption DEF Saved, OtherCase, NoAnalysis, UnknownId

(* A step that moves one referee's request and not the record.             *)
LEMMA MoveKeeps ==
  ASSUME Inv, NEW r \in Reviewer, NEW next, Move(r, next), RequestInv(next),
         UNCHANGED <<saved, latest>>, changes' \in 0 .. MaxChanges
  PROVE  Inv'
<1>1. DOMAIN request' = Reviewer
  BY DEF Inv, Move
<1>2. ASSUME NEW s \in Reviewer PROVE RequestInv(request[s])'
  <2>1. request'[s] = IF s = r THEN next ELSE request[s]
    BY DEF Inv, Move
  <2>2. RequestInv(request'[s])
    BY <2>1 DEF Inv
  <2> QED BY <2>2 DEF RequestInv, Pending, Ready
<1> QED BY <1>1, <1>2 DEF Inv, LatestInv

LEMMA IdleInv == RequestInv(Idle)
  BY DEF RequestInv, Idle

LEMMA SendInv ==
  ASSUME Inv, NEW r \in Reviewer, Send(r)
  PROVE  Inv'
<1>1. PICK edit \in Edits[r], named \in {NoAnalysis, saved, latest.analysis} \cup Ids[r] :
        /\ changes' \in {changes, changes + 1} /\ changes' <= MaxChanges
        /\ Move(r, [at |-> "sent", expected |-> latest.revision,
                    facts |-> Edited(latest.facts, edit), edited |-> DOMAIN edit,
                    named |-> named, applied |-> 0])
  BY DEF Send
<1> DEFINE q == [at |-> "sent", expected |-> latest.revision,
                 facts |-> Edited(latest.facts, edit), edited |-> DOMAIN edit,
                 named |-> named, applied |-> 0]
<1>2. q.facts \in Facts
  <2>1. Start \in Facts /\ Edited(Start, edit) \in Facts
    BY ReviewAssumption
  <2>2. latest.facts \in Facts
    BY DEF Inv, LatestInv
  <2> QED  BY <2>1, <2>2, EditedType
<1>3. Keeps(latest.facts, q.facts, q.edited)
  BY EditedKeeps
<1>4. named \in Saved \cup {NoAnalysis, OtherCase, UnknownId}
  BY Analyses, ReviewAssumption DEF Inv, LatestInv, Saved, NoAnalysis
<1>5. RequestInv(q)
  BY <1>2, <1>3, <1>4 DEF RequestInv, Pending, Inv, LatestInv
<1>6. changes' \in 0 .. MaxChanges
  BY <1>1, ReviewAssumption DEF Inv
<1> QED BY <1>1, <1>5, <1>6, MoveKeeps DEF Send

LEMMA AssessInv ==
  ASSUME Inv, NEW r \in Reviewer, AssessFacts(r)
  PROVE  Inv'
<1> DEFINE a == AnalysisOf(request[r])
           q == Assessed(request[r], Derive(request[r].facts), a)
<1>1. CASE a = OtherCase
  BY <1>1, MoveKeeps, IdleInv DEF AssessFacts, Inv
<1>2. CASE a # OtherCase
  <2>1. Pending(request[r])
    BY DEF AssessFacts, Inv, RequestInv
  <2>2. a \in Saved \cup {NoAnalysis, UnknownId}
    BY <1>2, <2>1, Analyses DEF AnalysisOf, Pending, Inv, Saved, NoAnalysis
  <2>3. /\ Derive(request[r].facts) \in Facts
        /\ Keeps(request[r].facts, Derive(request[r].facts), {})
    BY <2>1, DeriveType, DeriveKeeps DEF Pending
  <2>4. Keeps(latest.facts, request[r].facts, request[r].edited)
        => Keeps(latest.facts, Derive(request[r].facts), request[r].edited)
    BY <2>3, KeepsTransitive
  <2>5. Pending(q)
    BY <2>1, <2>3, <2>4 DEF Pending, Assessed
  <2>6. Ready(q)
    BY <2>2 DEF Ready, Assessed
  <2>7. RequestInv(q)
    BY <2>5, <2>6 DEF RequestInv, Assessed
  <2> QED BY <1>2, <2>7, MoveKeeps DEF AssessFacts, Inv
<1> QED BY <1>1, <1>2

(* What is appended follows from the row before it.                        *)
LEMMA AppendFacts ==
  ASSUME Inv, NEW r \in Reviewer, AppendReview(r)
  PROVE  /\ request[r].expected = latest.revision /\ request[r].applied = 0
         /\ Keeps(latest.facts, request[r].facts, request[r].edited)
         /\ Pending(request[r]) /\ Ready(request[r])
  BY DEF AppendReview, Inv, RequestInv, Pending

LEMMA AppendInv ==
  ASSUME Inv, NEW r \in Reviewer, AppendReview(r)
  PROVE  Inv'
<1> DEFINE next == [request[r] EXCEPT !.at = "committed", !.applied = @ + 1]
<1>1. /\ latest'.revision = latest.revision + 1
      /\ latest'.facts = request[r].facts /\ latest'.analysis = request[r].analysis
      /\ latest'.against = request[r].against
      /\ latest'.assessment = request[r].assessment
  BY DEF AppendReview, Row
<1>2. LatestInv'
  BY <1>1, AppendFacts DEF LatestInv, Inv, Pending, Ready
<1>3. DOMAIN request' = Reviewer
  BY DEF AppendReview, Move, Inv
<1>4. ASSUME NEW s \in Reviewer, s # r PROVE RequestInv(request[s])'
  <2>1. request'[s] = request[s]
    BY <1>4 DEF AppendReview, Move, Inv
  <2>2. RequestInv(request[s]) /\ latest.revision \in Nat
    BY DEF Inv, LatestInv
  <2>3. Pending(request[s]) => Pending(request[s])'
    BY <1>1, <2>1, <2>2 DEF Pending
  <2>4. Ready(request[s]) => Ready(request[s])'
    BY <2>1 DEF Ready
  <2>5. request[s].at = "committed" => request[s].expected < latest'.revision
    BY <1>1, <2>2 DEF RequestInv, Pending
  <2> QED BY <2>1, <2>2, <2>3, <2>4, <2>5 DEF RequestInv
<1>5. RequestInv(request[r])'
  <2>1. request'[r] = next
    BY DEF AppendReview, Move, Inv
  <2>2. request[r].at = "assessed"
    BY DEF AppendReview
  <2>3. /\ next.at = "committed" /\ next.applied = 1
        /\ next.facts = request[r].facts /\ next.expected = request[r].expected
        /\ next.named = request[r].named /\ next.edited = request[r].edited
    BY <2>2, AppendFacts
  <2> QED BY <1>1, <2>1, <2>3, AppendFacts DEF RequestInv, Pending, Inv, LatestInv
<1> QED BY <1>2, <1>3, <1>4, <1>5 DEF Inv, AppendReview

LEMMA AnsweredInv ==
  ASSUME Inv, NEW r \in Reviewer, Conflict(r) \/ Answered(r) \/ SendAgain(r)
  PROVE  Inv'
<1>1. CASE Conflict(r) \/ Answered(r)
  BY <1>1, MoveKeeps, IdleInv DEF Conflict, Answered, Inv
<1>2. CASE SendAgain(r)
  <2> DEFINE q == [at |-> "sent", expected |-> request[r].expected,
                   facts |-> request[r].facts, edited |-> request[r].edited,
                   named |-> request[r].named, applied |-> 1]
  <2>1. /\ Pending(request[r]) /\ request[r].expected < latest.revision
        /\ latest.revision \in Nat
    BY <1>2 DEF SendAgain, Inv, LatestInv, RequestInv
  <2>2. RequestInv(q)
    BY <2>1 DEF RequestInv, Pending
  <2> QED BY <1>2, <2>2, MoveKeeps DEF SendAgain, Inv
<1> QED BY <1>1, <1>2

LEMMA InitInv == Init => Inv
<1> SUFFICES ASSUME Init PROVE Inv
  OBVIOUS
<1>1. LatestInv
  BY ReviewAssumption DEF Init, NoRow, LatestInv, Against
<1>2. \A r \in Reviewer : RequestInv(request[r])
  BY IdleInv DEF Init
<1> QED BY <1>1, <1>2, Analyses, ReviewAssumption DEF Init, Inv

LEMMA StepInv == Inv /\ [Next]_vars => Inv'
<1> SUFFICES ASSUME Inv, [Next]_vars PROVE Inv'
  OBVIOUS
<1>1. CASE UNCHANGED vars
  BY <1>1 DEF Inv, LatestInv, RequestInv, Pending, Ready, vars
<1>2. CASE Analyze
  BY <1>2, Analyses DEF Inv, LatestInv, RequestInv, Pending, Ready, Analyze
<1> QED BY <1>1, <1>2, SendInv, AssessInv, AppendInv, AnsweredInv DEF Next

-----------------------------------------------------------------------------
(* The inductive invariant of the review.                                  *)
THEOREM Invariance == Spec => []Inv
  BY InitInv, StepInv, PTL DEF Spec

(* The record of a case never names an analysis of another case, and its   *)
(* warnings were computed against the very analysis it names, if there is  *)
(* one.                                                                    *)
THEOREM WarningsMatch == Spec => []WarningsMatchAnalysis
<1>1. Inv => WarningsMatchAnalysis
  BY Analyses DEF Inv, LatestInv, WarningsMatchAnalysis
<1> QED BY <1>1, Invariance, PTL

(* Only an append changes the record.                                      *)
LEMMA OnlyAppend ==
  ASSUME [Next]_vars, latest' # latest
  PROVE  \E r \in Reviewer : AppendReview(r)
  BY DEF Next, vars, Analyze, Send, AssessFacts, Conflict, Answered, SendAgain

(* No confirmed fact is lost but those the referee edited, and no form is  *)
(* applied twice, for any number of referees and whatever they enter.      *)
THEOREM NothingLost == Spec => NoLostUpdate
<1> DEFINE A == /\ latest'.revision = latest.revision + 1
                /\ latest'.base = latest.revision
                /\ \E r \in Reviewer :
                     /\ request[r].at = "assessed" /\ request'[r].at = "committed"
                     /\ request'[r].applied = 1
                     /\ Keeps(latest.facts, latest'.facts, request[r].edited)
<1>1. Inv /\ [Next]_vars => (latest' # latest => A)
  <2> SUFFICES ASSUME Inv, [Next]_vars, latest' # latest PROVE A
    OBVIOUS
  <2>1. PICK r \in Reviewer : AppendReview(r)
    BY OnlyAppend
  <2>2. /\ latest'.revision = latest.revision + 1
        /\ latest'.base = latest.revision
        /\ latest'.facts = request[r].facts
    BY <2>1, AppendFacts DEF AppendReview, Row
  <2>3. Keeps(latest.facts, latest'.facts, request[r].edited)
    BY <2>1, <2>2, AppendFacts
  <2>4. /\ request[r].at = "assessed" /\ request[r].applied = 0
        /\ request'[r] = [request[r] EXCEPT !.at = "committed", !.applied = @ + 1]
    BY <2>1, AppendFacts DEF AppendReview, Move, Inv
  <2>5. request'[r].at = "committed" /\ request'[r].applied = 1
    BY <2>4
  <2> QED BY <2>2, <2>3, <2>4, <2>5
<1> QED BY <1>1, Invariance, PTL DEF Spec, NoLostUpdate

(* Once complete, the restart and the card stand, whatever is confirmed    *)
(* later, as long as no fact is changed or taken back: for every form of   *)
(* facts, not those of the run alone.                                      *)
THEOREM CompleteStands == Spec => CompleteIsFinal
<1> DEFINE A == /\ latest'.assessment.restart = latest.assessment.restart
                /\ latest'.assessment.sanction = latest.assessment.sanction
<1>1. Inv /\ [Next]_vars =>
        (latest.assessment.status = "complete" /\ Keeps(latest.facts, latest'.facts, {}) => A)
  <2> SUFFICES ASSUME Inv, [Next]_vars, latest.assessment.status = "complete",
                      Keeps(latest.facts, latest'.facts, {}), latest' # latest
               PROVE  A
    OBVIOUS
  <2>1. PICK r \in Reviewer : AppendReview(r)
    BY OnlyAppend
  <2>2. /\ latest'.assessment = Assess(latest'.facts)
        /\ latest'.facts \in Facts /\ latest.facts \in Facts
    BY <2>1, AppendFacts DEF AppendReview, Row, Ready, Pending, Inv, LatestInv
  <2>3. Assess(NoFacts).status = "incomplete"
    BY DEF Assess, Assessment, NoFacts, Name, Unknown
  <2>4. latest.assessment = Assess(latest.facts)
    BY <2>3 DEF Inv, LatestInv
  <2> QED BY <2>2, <2>4, CompleteFinal
<1> QED BY <1>1, Invariance, PTL DEF Spec, CompleteIsFinal

(* The rules for denied and promising attacks start from the floor.        *)
LEMMA FloorHolds ==
  ASSUME NEW f \in Facts, NEW a, a = Assess(f),
         "L12-INTENSITY" \in a.rules \/ "L12-EXCESSIVE-FORCE" \in a.rules
  PROVE  \/ Rank(a.sanction) >= Rank(FloorOf(f))
         \/ a.sanction = "pending" /\ FloorOf(f) # "red_card"
<1>1. f.offence = "yes" /\ f.action \in {"challenge", Unknown} /\ f.contact # "no"
  BY DEF Assess, Assessment, AssessDive, Facts, Answer, Unknown
<1>2. a.sanction = SanctionOf(f) /\ a.rules = RulesOf(f)
  BY <1>1 DEF Assess, Assessment, Unknown
<1>3. f.intensity \in {"careless", "reckless", "excessive_force"}
  BY <1>2 DEF RulesOf
<1>4. FloorOf(f) \in {"none", "yellow_card", "red_card"}
  BY <1>3 DEF FloorOf, Unknown
<1>5. CASE f.tactical = "dogso"
  <2>1. a.sanction = DogsoSanction(f, FloorOf(f))
    BY <1>2, <1>5 DEF SanctionOf
  <2>2. DogsoSanction(f, FloorOf(f))
          \in {"red_card", Unless(FloorOf(f), "yellow_card"), Unless(FloorOf(f), "pending")}
    BY DEF DogsoSanction
  <2> QED BY <1>4, <2>1, <2>2 DEF Unless, Rank
<1>6. CASE f.tactical = "spa"
  <2>1. a.sanction = SpaSanction(f, FloorOf(f))
    BY <1>2, <1>6 DEF SanctionOf
  <2>2. \/ SpaSanction(f, FloorOf(f)) = FloorOf(f)
        \/ SpaSanction(f, FloorOf(f)) = "none" /\ FloorOf(f) = "none"
        \/ SpaSanction(f, FloorOf(f))
             \in {Unless(FloorOf(f), "yellow_card"), Unless(FloorOf(f), "pending")}
    BY DEF SpaSanction
  <2> QED BY <1>4, <2>1, <2>2 DEF Unless, Rank
<1>7. CASE f.tactical \notin {"dogso", "spa"}
  BY <1>2, <1>4, <1>7 DEF SanctionOf, Rank
<1> QED BY <1>5, <1>6, <1>7

(* No tactical rule gives less than the intensity of the challenge asks.   *)
THEOREM FloorKept == Spec => []CardAtLeastFloor
<1>1. Inv => CardAtLeastFloor
  <2> SUFFICES ASSUME Inv PROVE CardAtLeastFloor
    OBVIOUS
  <2>1. Assess(NoFacts).rules = {}
    BY DEF Assess, Assessment, NoFacts, Name, Unknown
  <2> QED BY <2>1, FloorHolds DEF Inv, LatestInv, CardAtLeastFloor
<1> QED BY <1>1, Invariance, PTL
=============================================================================
