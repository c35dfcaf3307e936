--------------------------- MODULE MultiviewReview ---------------------------
(***************************************************************************)
(* The review of one multi-view case by several referees at once:          *)
(* put_review and analyze of app/server/api/multiview.py, update_review of *)
(* app/multiview/service.py, and the two tables of review_store.py.        *)
(*                                                                         *)
(* The handlers are plain functions, so FastAPI runs each request in a     *)
(* thread of its own.  A request is three steps: the client sends the form *)
(* it loaded, the thread reads the analysis and assesses the facts, and    *)
(* the append runs under the store's lock in one BEGIN IMMEDIATE           *)
(* transaction.  Rows are only ever inserted; the model keeps the newest.  *)
(* The dashboard's form begins with the facts of the newest revision; the  *)
(* referee may confirm further ones, change them, take them back or leave  *)
(* them all.  Forms that do not only confirm further facts are bounded,    *)
(* and with them the revisions.  The answer to a committed append may be   *)
(* lost, and the referee may then send the same form again.                *)
(***************************************************************************)
EXTENDS FoulRules, Integers, Sequences

CONSTANTS
  Reviewer,
  Edits,        \* what referee r may enter in a form: from facts to values
  Ids,          \* what r may name that is no analysis of the case
  Start,        \* the facts of the form before the first review
  Verdicts,     \* what the model says of this case, run after run
  Foreign,      \* an analysis that belongs to another case
  MaxChanges,   \* bound on the forms that do not only confirm further facts
  MaxLag        \* bound on the revisions written while a request is in flight

NoAnalysis == 0
OtherCase == -1   \* an analysis of another case
UnknownId == -2   \* an identifier of none
Saved == 1 .. Len(Verdicts)

(* The form f after an edit.                                               *)
Edited(f, edit) == [n \in Name |-> IF n \in DOMAIN edit THEN edit[n] ELSE f[n]]

ASSUME ReviewAssumption ==
  /\ {MaxChanges, MaxLag} \subseteq Nat
  /\ Start \in Facts
  /\ Verdicts \in Seq([action : {"challenge", "dive", "other"}, offence : Answer])
  /\ \A r \in Reviewer : Ids[r] \subseteq {OtherCase, UnknownId}
  /\ \A r \in Reviewer : \A edit \in Edits[r] :
       DOMAIN edit \subseteq Name /\ Edited(Start, edit) \in Facts

VARIABLES
  saved,      \* analysis_runs of this case: how many of Verdicts are stored
  latest,     \* the newest row of review_revisions
  request,    \* by referee, the request in flight
  changes     \* the forms that did not only confirm further facts

vars == <<saved, latest, request, changes>>

NoRow == [revision |-> 0, facts |-> Start, analysis |-> NoAnalysis,
          assessment |-> Assess(NoFacts), against |-> {}, base |-> 0]

Idle == [at |-> "idle"]

TypeOK ==
  /\ saved \in 0 .. Len(Verdicts)
  /\ latest.revision \in Nat /\ latest.facts \in Facts
  /\ latest.analysis \in Saved \cup {NoAnalysis, OtherCase, UnknownId}
  /\ changes \in 0 .. MaxChanges
  /\ \A r \in Reviewer : request[r].at \in {"idle", "sent", "assessed", "committed"}

Init ==
  /\ saved = 0 /\ latest = NoRow /\ changes = 0
  /\ request = [r \in Reviewer |-> Idle]

-----------------------------------------------------------------------------
(* analyze: the model's result, or the scripted one, is stored.            *)
Analyze ==
  /\ saved < Len(Verdicts)
  /\ saved' = saved + 1
  /\ UNCHANGED <<latest, request, changes>>

Move(r, next) == request' = [request EXCEPT ![r] = next]

(* g has what f has, but for the facts that were edited, and the victim:   *)
(* that one is derived.                                                    *)
Keeps(f, g, edited) ==
  \A n \in Name \ (edited \cup {"victim"}) : f[n] # Unknown => g[n] = f[n]

(* saveReview: the facts that were loaded, as they were edited, and the    *)
(* analysis on display, that of the review, or none.  Other clients of the *)
(* interface may name what they will.                                      *)
Send(r) ==
  /\ request[r].at = "idle"
  /\ \E edit \in Edits[r], named \in {NoAnalysis, saved, latest.analysis} \cup Ids[r] :
       LET facts == Edited(latest.facts, edit)
       IN /\ changes' = IF facts # latest.facts /\ Keeps(latest.facts, facts, {})
                        THEN changes ELSE changes + 1
          /\ changes' <= MaxChanges
          /\ Move(r, [at |-> "sent", expected |-> latest.revision, facts |-> facts,
                      edited |-> DOMAIN edit, named |-> named, applied |-> 0])
  /\ UNCHANGED <<saved, latest>>

Verdict(a) == IF a = OtherCase THEN Foreign ELSE Verdicts[a]

(* _model_conflicts                                                        *)
Against(f, a) ==
  IF a \in {NoAnalysis, UnknownId} THEN {}
  ELSE (IF f.action \notin {Unknown, Verdict(a).action} THEN {"action"} ELSE {})
         \cup (IF f.offence \notin {Unknown, Verdict(a).offence}
               THEN {"offence"} ELSE {})

(* latest_analysis when none was named.  An identifier that get_analysis   *)
(* does not find stays.                                                    *)
AnalysisOf(q) == IF q.named = NoAnalysis THEN saved ELSE q.named

Assessed(q, f, a) ==
  [at |-> "assessed", expected |-> q.expected, named |-> q.named,
   edited |-> q.edited, applied |-> q.applied, facts |-> f, analysis |-> a,
   assessment |-> Assess(f), against |-> Against(f, a)]

(* update_review up to the append; an analysis of another case is a 400.   *)
AssessFacts(r) ==
  /\ request[r].at = "sent"
  /\ LET a == AnalysisOf(request[r])
     IN IF a = OtherCase
        THEN Move(r, Idle)
        ELSE Move(r, Assessed(request[r], Derive(request[r].facts), a))
  /\ UNCHANGED <<saved, latest, changes>>

(* Mutant: the row names the analysis that is newest when it is written.   *)
LatestAnalysisRow(q) ==
  [revision |-> latest.revision + 1, facts |-> q.facts, analysis |-> saved,
   assessment |-> q.assessment, against |-> q.against, base |-> q.expected]

Row(q) ==
  [revision |-> latest.revision + 1, facts |-> q.facts, analysis |-> q.analysis,
   assessment |-> q.assessment, against |-> q.against, base |-> q.expected]

(* Mutant: the last writer wins.                                           *)
AppendAlways(r) ==
  /\ request[r].at = "assessed"
  /\ latest' = Row(request[r])
  /\ Move(r, [request[r] EXCEPT !.at = "committed", !.applied = @ + 1])
  /\ UNCHANGED <<saved, changes>>

(* Another request in flight is not left behind further than the bound.    *)
InTime(r) ==
  \A other \in Reviewer \ {r} :
    request[other].at # "idle" => latest.revision - request[other].expected < MaxLag

(* append_review: the expected revision is compared in the transaction.    *)
AppendReview(r) ==
  /\ request[r].at = "assessed"
  /\ request[r].expected = latest.revision
  /\ InTime(r)
  /\ latest' = Row(request[r])
  /\ Move(r, [request[r] EXCEPT !.at = "committed", !.applied = @ + 1])
  /\ UNCHANGED <<saved, changes>>

(* ReviewRevisionConflict: the client loads the record again.              *)
Conflict(r) ==
  /\ request[r].at = "assessed"
  /\ request[r].expected # latest.revision
  /\ Move(r, Idle)
  /\ UNCHANGED <<saved, latest, changes>>

(* The answer arrives; or it is lost, the form is as it was (its catch),   *)
(* and the referee saves it again.                                         *)
Answered(r) ==
  /\ request[r].at = "committed"
  /\ Move(r, Idle)
  /\ UNCHANGED <<saved, latest, changes>>

SendAgain(r) ==
  /\ request[r].at = "committed"
  /\ request[r].applied = 1
  /\ Move(r, [at |-> "sent", expected |-> request[r].expected,
              facts |-> request[r].facts, edited |-> request[r].edited,
              named |-> request[r].named, applied |-> 1])
  /\ UNCHANGED <<saved, latest, changes>>

Next ==
  \/ Analyze
  \/ \E r \in Reviewer :
       \/ Send(r) \/ AssessFacts(r)
       \/ AppendReview(r) \/ Conflict(r)
       \/ Answered(r) \/ SendAgain(r)

Spec == Init /\ [][Next]_vars

-----------------------------------------------------------------------------
(* Nothing that was confirmed is lost: every revision was made from the    *)
(* one before it, and keeps every fact that one had but those its own      *)
(* referee changed, however the requests of two referees interleave        *)
(* (review_store.append_review).  A form that is sent again because its    *)
(* answer was lost is not applied twice.                                   *)
NoLostUpdate ==
  [][latest' # latest =>
       /\ latest'.revision = latest.revision + 1
       /\ latest'.base = latest.revision
       /\ \E r \in Reviewer :
            /\ request[r].at = "assessed" /\ request'[r].at = "committed"
            /\ request'[r].applied = 1
            /\ Keeps(latest.facts, latest'.facts, request[r].edited)]_vars

(* A record never names an analysis of another case.  Its warnings are     *)
(* those against the very analysis it names, even if the case was analysed *)
(* again meanwhile, and it has none if it names none, or an identifier of  *)
(* none (update_review stores that one unseen).                            *)
WarningsMatchAnalysis ==
  /\ latest.analysis # OtherCase
  /\ latest.against = Against(latest.facts, latest.analysis)

(* A complete conclusion is final: confirming further facts changes        *)
(* neither the restart nor the card, as long as none is changed or taken   *)
(* back (rules.py lists as missing every fact the conclusion still depends *)
(* on).                                                                    *)
CompleteIsFinal ==
  [][latest.assessment.status = "complete" /\ Keeps(latest.facts, latest'.facts, {}) =>
       /\ latest'.assessment.restart = latest.assessment.restart
       /\ latest'.assessment.sanction = latest.assessment.sanction]_vars

(* The tactical rules never soften what the intensity alone asks for: a    *)
(* card that is decided is at least the floor of the trace.                *)
Rank(card) ==
  CASE card = "none" -> 0 [] card = "yellow_card" -> 1 [] card = "red_card" -> 2
    [] card = "pending" -> -1

CardAtLeastFloor ==
  LET a == latest.assessment IN
  "L12-INTENSITY" \in a.rules \/ "L12-EXCESSIVE-FORCE" \in a.rules =>
    \/ Rank(a.sanction) >= Rank(FloorOf(latest.facts))
    \/ a.sanction = "pending" /\ FloorOf(latest.facts) # "red_card"
=============================================================================
