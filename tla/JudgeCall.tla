------------------------------ MODULE JudgeCall ------------------------------
(***************************************************************************)
(* The judge clients (src/src/judge.ts).  One call at a time turns a plan  *)
(* of questions into answers; every answer must belong to the question it  *)
(* is stored under, whatever the server sends and whenever it does.        *)
(*                                                                         *)
(* A plan lists finalists, and for every question the positions of those   *)
(* it is about.  The judge's opinion is a function of what it is shown:    *)
(*   "local"   the probability of yes, in Ticks                            *)
(*   "semif"   the weights of the options of a rubric, adding up to Ticks  *)
(*   "jev"     the answer itself (an SDK outside src/)                     *)
(*   "replay"  the answers of a captured response                          *)
(* Servers may fail, answer in part, or stop answering.  A judge may serve *)
(* its process again (src/src/index.ts exports it).                        *)
(***************************************************************************)
EXTENDS Integers, FiniteSetsExt, SequencesExt

CONSTANTS
  Providers,   \* which judges are asked
  Given,       \* answers that an SDK or a captured response may contain
  Ticks,       \* a probability of 1
  Levels,      \* levels of a rubric
  MaxCalls,    \* bound: calls of one process
  NoCall

ASSUME JudgeAssumption ==
  /\ Providers \subseteq {"local", "semif", "jev", "replay"}
  /\ Ticks \in Nat \ {0} /\ Levels \in Nat \ {0, 1} /\ MaxCalls \in Nat

VARIABLES
  call,   \* the call that is being made, or whose answers are being used
  calls,  \* how many there were
  late    \* local requests given up on that the server may still answer

judgeVars == <<call, calls, late>>

Options == 0..(Levels - 1)

Distributions == {d \in [Options -> 0..Ticks] : MapThenSumSet(LAMBDA i : d[i], Options) = Ticks}

Opinions(provider) ==
  CASE provider = "local" -> 0..Ticks
    [] provider = "semif" -> Distributions
    [] OTHER              -> Given

(* A plan asks something.                                                  *)
IsPlan(plan) ==
  /\ plan = [finalists |-> plan.finalists, about |-> plan.about]
  /\ plan.about \in Seq(SUBSET Nat) \ {<<>>}

(* What a question shows the judge: the finalist or the pair it is about.  *)
Document(plan, k) == {plan.finalists[i] : i \in plan.about[k]}

Documents(plan) == {Document(plan, k) : k \in DOMAIN plan.about}

-----------------------------------------------------------------------------
(* The answers made of opinions: a score in Ticks per level.               *)
LocalAnswer(value) ==
  [score |-> value * (Levels - 1), confidence |-> Max({2 * value - Ticks, Ticks - 2 * value})]

SemIfAnswer(weights) ==
  [score      |-> MapThenSumSet(LAMBDA i : i * weights[i], Options),
   confidence |-> Max({weights[i] : i \in Options})]

AnswerTo(provider, opinion) ==
  CASE provider = "local" -> LocalAnswer(opinion)
    [] provider = "semif" -> SemIfAnswer(opinion)
    [] OTHER              -> opinion

(* What the judge of a request thinks of its k-th question.                *)
Thought(request, k) == AnswerTo(request.provider, request.opinion[Document(request.plan, k)])

-----------------------------------------------------------------------------
Waiting(n, provider) ==
  /\ call # NoCall /\ call.number = n /\ call.provider = provider
  /\ call.phase \in {"headers", "body"}

InPhase(provider, phase) == call # NoCall /\ call.provider = provider /\ call.phase = phase

(* The call ends: with all answers, or with an error and none of them.     *)
Answered(answers) == call' = [call EXCEPT !.phase = "answered", !.answers = answers]

Failed == call' = [call EXCEPT !.phase = "failed", !.answers = <<>>]

(* evaluate: the plan is turned into requests before the first one is sent.*)
Ask(caller, provider, plan, opinion) ==
  /\ call = NoCall /\ calls < MaxCalls
  /\ calls' = calls + 1
  /\ call' = [number |-> calls + 1, caller |-> caller, provider |-> provider, plan |-> plan,
              opinion |-> opinion, phase |-> "headers", answers |-> <<>>]
  /\ UNCHANGED late

(* The request is refused, or the status is not a success.                 *)
RequestFails ==
  /\ call # NoCall /\ call.phase = "headers" /\ call.provider # "replay"
  /\ Failed
  /\ UNCHANGED <<calls, late>>

HeadersArrive ==
  /\ InPhase("local", "headers") \/ InPhase("semif", "headers")
  /\ call' = [call EXCEPT !.phase = "body"]
  /\ UNCHANGED <<calls, late>>

(* The body is not JSON, or breaks off.                                    *)
BodyFails ==
  /\ InPhase("local", "body") \/ InPhase("semif", "body")
  /\ Failed
  /\ UNCHANGED <<calls, late>>

-----------------------------------------------------------------------------
(* LocalJudge.  One request holds all questions; a reply lists scores by   *)
(* the ids of the items, in any order, and perhaps a count.                *)
LocalReplies(request) ==
  LET n == Len(request.plan.about)
  IN  [ids: UNION {[1..m -> 0..n] : m \in 0..(n + 1)}, counted: BOOLEAN]

(* Mutant: reads the scores in the order of the questions.                 *)
MapLocalResponse_Positional(request, reply) ==
  [k \in DOMAIN request.plan.about |->
     IF reply.ids[k] = 0 THEN LocalAnswer(0) ELSE Thought(request, reply.ids[k])]

MapLocalResponse(request, reply) ==
  [k \in DOMAIN request.plan.about |->
     LET i == CHOOSE i \in DOMAIN reply.ids : reply.ids[i] = k IN Thought(request, reply.ids[i])]

(* mapLocalResponse refuses a wrong count, an id twice, and ids that are   *)
(* not those of the request.                                               *)
LocalReplyFits(request, reply) ==
  /\ reply.counted
  /\ IsInjective(reply.ids)
  /\ ToSet(reply.ids) = DOMAIN request.plan.about

LocalReply ==
  /\ InPhase("local", "body")
  /\ \E reply \in LocalReplies(call) :
       IF LocalReplyFits(call, reply) THEN Answered(MapLocalResponse(call, reply)) ELSE Failed
  /\ UNCHANGED <<calls, late>>

(* Mutant: the timer is cleared when the headers arrive, as SemIf's is.    *)
LocalTimeout_Headers ==
  /\ InPhase("local", "headers")
  /\ Failed
  /\ late' = late \cup {call}
  /\ UNCHANGED calls

(* The timer covers the request and its body.  The fetch is aborted, but   *)
(* one that ignores the signal may still be answered.                      *)
LocalTimeout ==
  /\ InPhase("local", "headers") \/ InPhase("local", "body")
  /\ Failed
  /\ late' = late \cup {call}
  /\ UNCHANGED calls

(* The race is settled: a late answer changes nothing.                     *)
LateReply(request) ==
  /\ late' = late \ {request}
  /\ UNCHANGED <<call, calls>>

-----------------------------------------------------------------------------
(* SemIfJudge.  One request per question, each with a timer of its own     *)
(* that is cleared when the headers arrive.                                *)
SemIfTimeout ==
  /\ InPhase("semif", "headers")
  /\ Failed
  /\ UNCHANGED <<calls, late>>

(* optionProbabilities: every option must be among the top tokens.         *)
OptionsListed(listed) == listed = Options

SemIfReply ==
  /\ InPhase("semif", "body")
  /\ \E listed \in SUBSET Options :
       LET k       == Len(call.answers) + 1
           shown   == [i \in Options |-> IF i \in listed
                                         THEN call.opinion[Document(call.plan, k)][i] ELSE 0]
           answers == Append(call.answers, SemIfAnswer(shown))
       IN  IF ~OptionsListed(listed) THEN Failed
           ELSE IF k = Len(call.plan.about) THEN Answered(answers)
           ELSE call' = [call EXCEPT !.phase = "headers", !.answers = answers]
  /\ UNCHANGED <<calls, late>>

-----------------------------------------------------------------------------
(* validateJudgeResponse: exactly the planned questions, each with an      *)
(* answer of its type.                                                     *)
ResponseValid(plan, keys, typed) == keys = DOMAIN plan.about /\ typed

(* TypeSafeJudge validates what the SDK returns.                           *)
JevReply ==
  /\ InPhase("jev", "headers")
  /\ \E keys \in SUBSET (1..(Len(call.plan.about) + 1)), typed \in BOOLEAN :
       IF ResponseValid(call.plan, keys, typed)
       THEN Answered([k \in DOMAIN call.plan.about |-> Thought(call, k)])
       ELSE Failed
  /\ UNCHANGED <<calls, late>>

ReplayFits(plan, order) == order = plan.finalists

(* ReplayJudge: answers are stored by position, so the response must have  *)
(* been captured for the same finalists in the same order.                 *)
Replay ==
  /\ InPhase("replay", "headers")
  /\ \E order \in UNION {[1..n -> ToSet(call.plan.finalists)] : n \in 1..Len(call.plan.finalists)},
        keys \in SUBSET (1..Len(call.plan.about)) :
       LET captured == [call.plan EXCEPT !.finalists = order]
       IN  /\ Len(order) = Len(call.plan.finalists) => IsInjective(order)
           /\ IF ReplayFits(call.plan, order) /\ ResponseValid(call.plan, keys, TRUE)
              THEN Answered([k \in keys |-> Thought([call EXCEPT !.plan = captured], k)])
              ELSE Failed
  /\ UNCHANGED <<calls, late>>

-----------------------------------------------------------------------------
JudgeInit == call = NoCall /\ calls = 0 /\ late = {}

JudgeStep ==
  \/ RequestFails \/ HeadersArrive \/ BodyFails
  \/ LocalReply \/ LocalTimeout \/ SemIfTimeout \/ SemIfReply \/ JevReply \/ Replay
  \/ \E request \in late : LateReply(request)

(* Only the timers are sure to run; servers may stop answering.            *)
JudgeFairness == WF_judgeVars(LocalTimeout) /\ WF_judgeVars(SemIfTimeout)

-----------------------------------------------------------------------------
(* EXTREME_TESTS.md:36: a late, partial or misplaced reply never becomes a *)
(* score.  Answers that are used are the judge's opinions of the very      *)
(* finalists the questions of this call are about.                         *)
AnswersBelong ==
  call # NoCall /\ call.phase = "answered" =>
    call.answers = [k \in DOMAIN call.plan.about |-> Thought(call, k)]

(* WORKFLOW.md:123: a stalled local model is reported as a failure instead *)
(* of leaving the command blocked (judge.ts:457-463).                      *)
LocalCallsEnd == \A n \in 1..MaxCalls : Waiting(n, "local") ~> ~Waiting(n, "local")

(* judge.ts:499 calls timeoutMs a "Per-question request timeout.": SemIf    *)
(* would have to give up on a stalled server, too.                         *)
SemIfCallsEnd == \A n \in 1..MaxCalls : Waiting(n, "semif") ~> ~Waiting(n, "semif")
=============================================================================
