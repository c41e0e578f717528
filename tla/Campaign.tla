------------------------------ MODULE Campaign ------------------------------
(***************************************************************************)
(* The life of one campaign: jevrev sift freezes what a judge thinks of    *)
(* the candidates into a campaign file, reconsider may promote candidates  *)
(* under review and writes a new campaign file for each, evidence is       *)
(* collected for the finalists of one of these files, and decide judges    *)
(* it (src/src/workflow, src/src/reconsider.ts, src/src/cli.ts).           *)
(*                                                                         *)
(* Every file stays on disk, and every command takes the files it is given *)
(* in any order.  A campaign id is a digest of the campaign, so a campaign *)
(* is its own id here.  What a recorder does to a finalist's evidence is   *)
(* EvidenceLedger's subject; here a finalist simply gets some evidence.    *)
(***************************************************************************)
EXTENDS DecidePolicy

CONSTANTS
  Sessions,      \* requests with their quota and what the judge thinks of them
  SecondCards,   \* what a judge may think of a candidate it reconsiders
  Evidence(_),   \* of a session, [status, gain, spent]: what prepareDecision may make of evidence
  Opinions(_),   \* of a session, [card, pairs]: what a judge may think of the finalists
  MaxOrders,     \* work orders of a campaign: 5
  MaxReports,    \* bound: reconsiderations
  NoFile

(* What a judge thinks of a candidate.                                     *)
Cards == [risk : BOOLEAN, weak : BOOLEAN, confident : BOOLEAN, score : Int]

ASSUME CampaignAssumption ==
  /\ MaxOrders \in Nat /\ MaxReports \in Nat
  /\ \A s \in Sessions : s.max \in 0..MaxOrders

(* Candidates have different ids (domain/schemas.ts:58-65), and the judge  *)
(* answers about each.                                                     *)
ASSUME SessionAssumption ==
  \A s \in Sessions :
    /\ s.request \in Seq(Nat) /\ IsInjective(s.request)
    /\ s.judge.card \in [ToSet(s.request) -> Cards]

(* A judge of the finalists may think anything of any candidate.           *)
ASSUME OpinionAssumption ==
  \A s \in Sessions : \A o \in Opinions(s) : o.card \in [ToSet(s.request) -> Cards]

(* What prepareDecision makes of a finalist's evidence.                    *)
Amounts == Int \cup {NoValue}

Packets ==
  [status : {"viable", "rejected", "incomplete"}, gain : Seq(Amounts),
   spent : [Resources -> Amounts]]

ASSUME EvidenceAssumption == \A s \in Sessions : Evidence(s) \subseteq Packets

VARIABLES
  session,    \* proposals.json, and the judge behind the first question
  campaigns,  \* the campaign files
  reports,    \* the results of reconsider
  bundle,     \* evidence.json
  decided     \* the result of decide, with what it was computed from

vars == <<session, campaigns, reports, bundle, decided>>

(* Bound: nothing is written after the first decision, which no other      *)
(* command reads.                                                          *)
Undecided == decided = NoFile

-----------------------------------------------------------------------------
Finalists(campaign) == campaign.work_orders \o campaign.review_work_orders

(* campaignSchema, as far as reconsider can break it.                      *)
ValidCampaign(campaign) ==
  /\ IsInjective(Finalists(campaign))
  /\ Len(Finalists(campaign)) <= MaxOrders
  /\ \A c \in ToSet(campaign.review_work_orders) : campaign.sift.status[c] = "review"

SiftResult(canonicalize) ==
  LET order == Canonical(session.request, canonicalize)
  IN  RankCandidates(session.request, Answers(session.judge, session.request, order), order, session.max)

(* buildCampaign.                                                          *)
BuildCampaign(sift) == [sift |-> sift, work_orders |-> sift.selected, review_work_orders |-> <<>>]

Sift ==
  /\ campaigns = {}
  /\ \E canonicalize \in BOOLEAN : campaigns' = {BuildCampaign(SiftResult(canonicalize))}
  /\ UNCHANGED <<session, reports, bundle, decided>>

-----------------------------------------------------------------------------
(* Mutant: only the constraints are a gate the second time.                *)
ReconsiderVerdict_RiskOnly(campaign, card) ==
  IF card.risk \/ Len(Finalists(campaign)) >= MaxOrders THEN "reject"
  ELSE IF ~card.confident THEN "keep_review" ELSE "promote_to_probe"

(* The verdict of reconsider.  All gates come before confidence here.      *)
ReconsiderVerdict(campaign, card) ==
  IF card.risk \/ card.weak \/ Len(Finalists(campaign)) >= MaxOrders THEN "reject"
  ELSE IF ~card.confident THEN "keep_review" ELSE "promote_to_probe"

Promoted(campaign, c) == [campaign EXCEPT !.review_work_orders = Append(@, c)]

(* reconsiderCandidate fails, and changes nothing, if the promoted         *)
(* campaign is not a valid one.                                            *)
Reconsider ==
  /\ Undecided
  /\ Cardinality(reports) < MaxReports
  /\ \E campaign \in campaigns, c \in DOMAIN session.judge.card, card \in SecondCards :
       LET verdict == ReconsiderVerdict(campaign, card)
           promote == verdict = "promote_to_probe"
       IN  /\ campaign.sift.status[c] = "review"
           /\ promote => ValidCampaign(Promoted(campaign, c))
           /\ reports' = reports \cup {[campaign |-> campaign, candidate |-> c, card |-> card,
                                        decision |-> verdict]}
           /\ campaigns' = IF promote THEN campaigns \cup {Promoted(campaign, c)} ELSE campaigns
  /\ UNCHANGED <<session, bundle, decided>>

-----------------------------------------------------------------------------
NoEvidence == [status |-> "incomplete", gain |-> <<>>, spent |-> [r \in Resources |-> NoValue]]

(* create-evidence-template: a packet for every finalist.                  *)
CreateTemplate ==
  /\ Undecided
  /\ \E campaign \in campaigns :
       bundle' = [campaign |-> campaign,
                  packets  |-> [c \in ToSet(Finalists(campaign)) |-> NoEvidence]]
  /\ UNCHANGED <<session, campaigns, reports, decided>>

CollectEvidence ==
  /\ Undecided
  /\ bundle # NoFile
  /\ \E c \in DOMAIN bundle.packets, e \in Evidence(session) :
       /\ bundle.packets[c] = NoEvidence
       /\ bundle' = [bundle EXCEPT !.packets[c] = e]
  /\ UNCHANGED <<session, campaigns, reports, decided>>

(* prepareDecision refuses evidence of another campaign.                   *)
BelongsTo(evidence, campaign) == evidence.campaign = campaign

Prepared(campaign, packets) ==
  [n \in DOMAIN Finalists(campaign) |->
     LET c        == Finalists(campaign)[n]
         measured == IF c \in DOMAIN packets THEN packets[c] ELSE NoEvidence
     IN  [id |-> c, status |-> measured.status, gain |-> measured.gain, spent |-> measured.spent]]

Decision(prepared, opinion, canonicalize) ==
  LET order == Canonical(Viable(prepared), canonicalize)
  IN  DecideCampaign(prepared, Answers(opinion, Viable(prepared), order), order)

(* prepareDecision looks for the packet of every work order; a finalist    *)
(* without one is incomplete.                                              *)
Decide ==
  /\ Undecided
  /\ bundle # NoFile
  /\ \E campaign \in campaigns, opinion \in Opinions(session), canonicalize \in BOOLEAN :
       LET prepared == Prepared(campaign, bundle.packets)
       IN  /\ BelongsTo(bundle, campaign)
           /\ decided' = [campaign |-> campaign, prepared |-> prepared, opinion |-> opinion,
                          result |-> Decision(prepared, opinion, canonicalize)]
  /\ UNCHANGED <<session, campaigns, reports, bundle>>

-----------------------------------------------------------------------------
Init ==
  /\ session \in Sessions
  /\ campaigns = {}
  /\ reports = {}
  /\ bundle = NoFile
  /\ decided = NoFile

Next == Sift \/ Reconsider \/ CreateTemplate \/ CollectEvidence \/ Decide

Spec == Init /\ [][Next]_vars
-----------------------------------------------------------------------------
TypeOK ==
  /\ session \in Sessions
  /\ \A campaign \in campaigns : ToSet(Finalists(campaign)) \subseteq ToSet(session.request)
  /\ \A r \in reports : r.campaign \in campaigns /\ r.candidate \in ToSet(session.request) /\ r.card \in SecondCards
  /\ bundle # NoFile => bundle.campaign \in campaigns
  /\ decided # NoFile => decided.campaign \in campaigns

Passes(card) == card.confident /\ ~card.risk /\ ~card.weak

(* The candidate c of the session is ranked before d.                      *)
RankedBefore(c, d) ==
  LET score(x) == session.judge.card[x].score
      index(x) == CHOOSE i \in DOMAIN session.request : session.request[i] = x
  IN  score(c) > score(d) \/ (score(c) = score(d) /\ index(c) < index(d))

(* Sift keeps exactly the candidates that pass every gate, repeat none of  *)
(* the better ones it keeps, and find a slot after them: rejecting         *)
(* duplicates and cutting at the quota in one pass (policy.ts:285-321)     *)
(* neither wastes a slot on a duplicate nor lets a rejected candidate      *)
(* shadow another one.                                                     *)
SiftKeepsTheBest ==
  \A campaign \in campaigns :
    LET kept      == ToSet(campaign.sift.selected)
        better(c) == {k \in kept : RankedBefore(k, c)}
    IN  \A c \in ToSet(session.request) :
          c \in kept <=> /\ Passes(session.judge.card[c])
                         /\ \A k \in better(c) : {k, c} \notin session.judge.pairs
                         /\ Cardinality(better(c)) < session.max

(* Questions are positional (domain/schemas.ts:131-133: a reordered request*)
(* could silently apply one candidate's judgment to another): asking in    *)
(* canonical order instead of request order changes nothing, in Sift and   *)
(* in Decide, whose order is that of the viable finalists only.            *)
QuestionOrderIsIgnored ==
  /\ SiftResult(TRUE) = SiftResult(FALSE)
  /\ decided # NoFile =>
       \A canonicalize \in BOOLEAN :
         decided.result = Decision(decided.prepared, decided.opinion, canonicalize)

(* A candidate of the review queue gets a work order only by a confident   *)
(* reconsideration that found no gate failing (reconsider.ts:192-205),     *)
(* however often and on whichever campaign file it is reconsidered.        *)
PromotionIsVetted ==
  \A campaign \in campaigns, n \in 1..MaxOrders :
    n <= Len(campaign.review_work_orders) =>
      /\ campaign.sift.status[campaign.review_work_orders[n]] = "review"
      /\ \E r \in reports :
           /\ r.candidate = campaign.review_work_orders[n]
           /\ r.decision = "promote_to_probe"
           /\ Passes(r.card)

(* "Hard-constraint risk can never be promoted" (src/docs/WORKFLOW.md:145),*)
(* and the comment at policy.ts:161-166: uncertainty does not hide a       *)
(* violated constraint in the review queue.  Whatever becomes of a         *)
(* candidate whose proposal violated one, no campaign file probes it; nor  *)
(* does one probe a candidate twice, whatever was promoted in which order. *)
ProbesAreFit ==
  \A campaign \in campaigns :
    /\ \A c \in ToSet(Finalists(campaign)) : ~session.judge.card[c].risk
    /\ IsInjective(Finalists(campaign)) /\ Len(Finalists(campaign)) <= MaxOrders

-----------------------------------------------------------------------------
(* The finalists of a decision that its evidence and its judge let through.*)
Cleared ==
  {n \in DOMAIN decided.prepared :
     /\ decided.prepared[n].status = "viable"
     /\ decided.opinion.card[decided.prepared[n].id].confident
     /\ ~decided.opinion.card[decided.prepared[n].id].weak}

(* The score of a finalist.                                                *)
Points(n) == decided.opinion.card[decided.prepared[n].id].score

(* A winner leads every undominated rival by the margin, and nobody's      *)
(* evidence or judgment is still open; a merge joins two cleared finalists *)
(* that the judge finds complementary, that nobody dominates or outscores, *)
(* and that are close.  Decide looks at the two best only (decide.ts:250). *)
OutcomeIsEarned ==
  decided # NoFile =>
    LET result  == decided.result
        rivals  == {n \in Cleared : \A m \in Cleared :
                      ~ObjectivelyDominates(decided.prepared[m], decided.prepared[n])}
        settled == \A n \in DOMAIN decided.prepared :
                     \/ decided.prepared[n].status = "rejected"
                     \/ /\ decided.prepared[n].status = "viable"
                        /\ decided.opinion.card[decided.prepared[n].id].confident
        Named(n) == decided.prepared[n].id
    IN  /\ result.winner # {} =>
             /\ settled
             /\ \E w \in rivals : /\ result.winner = {Named(w)}
                                  /\ \A n \in rivals \ {w} : Points(n) + WinnerMargin <= Points(w)
        /\ result.merge # <<>> =>
             /\ settled
             /\ \E v, w \in rivals :
                  /\ v # w /\ result.merge = <<Named(v), Named(w)>>
                  /\ {Named(v), Named(w)} \in decided.opinion.pairs
                  /\ Points(v) <= Points(w) + MergeMargin
                  /\ \A n \in rivals \ {v} : Points(n) <= Points(w) \/ n = w

(* "no_winner: every candidate failed a deterministic or semantic gate"    *)
(* (src/docs/WORKFLOW.md:131).  A finalist that passed them all gives way  *)
(* only to others that did and that stay in the race.                      *)
NoWinnerMeansGatesFailed ==
  decided # NoFile /\ decided.result.decision = "no_winner" => Cleared = {}

(* "JevRev's best handoff shortlist (strict survivors plus budget-filling  *)
(* review)" (src/benchmarks/README.md:11).                                 *)
ShortlistHoldsSurvivors ==
  \A campaign \in campaigns : ToSet(campaign.sift.selected) \subseteq ToSet(campaign.sift.shortlist)
=============================================================================
