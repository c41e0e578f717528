------------------------- MODULE LoopEvidenceProofs -------------------------
(***************************************************************************)
(* Proofs about LoopEvidence.                                              *)
(*                                                                         *)
(* The judge clients, called by audits and by other commands: for any      *)
(* plan, any opinions of the judge and whatever the servers send, answers  *)
(* belong to their questions.                                              *)
(*                                                                         *)
(* The evidence file: whatever is recorded, replaced and edited, in any    *)
(* order, it stays valid.  If at most two recorders compete for it, or     *)
(* none of them dies, it holds the last recording under each id, so that   *)
(* an audit passes only what was last run clean: EvidenceInv says why.     *)
(***************************************************************************)
EXTENDS LoopEvidence, FiniteSetTheorems, WellFoundedInduction, TLAPS

-----------------------------------------------------------------------------
(* A call is whole, and was made with a plan and opinions on what it asks. *)
IsCall(c) ==
  /\ c = [number |-> c.number, caller |-> c.caller, provider |-> c.provider, plan |-> c.plan,
          opinion |-> c.opinion, phase |-> c.phase, answers |-> c.answers]
  /\ IsPlan(c.plan)
  /\ c.provider \in Providers
  /\ c.opinion \in [Documents(c.plan) -> Opinions(c.provider)]

(* The first n answers are the judge's opinions of what the questions ask. *)
AnswersUpTo(c, n) ==
  /\ n \in 0..Len(c.plan.about)
  /\ c.answers = [k \in 1..n |-> Thought(c, k)]

(* While SemIf is asked about one question after the other, what it has    *)
(* answered belongs to the first of them.                                  *)
JudgeInv ==
  call # NoCall =>
    /\ IsCall(call)
    /\ call.phase \in {"headers", "body"} => \E n \in 0..(Len(call.plan.about) - 1) : AnswersUpTo(call, n)
    /\ call.phase = "answered" => AnswersUpTo(call, Len(call.plan.about))

-----------------------------------------------------------------------------
(* A plan built by an audit asks something.                                *)
LEMMA AuditPlans ==
  ASSUME InFocus # {}
  PROVE  IsPlan(BuildJevPlan)
<1>1. IsFiniteSet(InFocus)
  BY FS_Subset, TargetsAssumption DEF InFocus, Targets, Criteria
<1>2. Cardinality(InFocus) \in Nat /\ Cardinality(InFocus) # 0
  BY <1>1, FS_CardinalityType, FS_EmptySet
<1>3. [k \in 1..Cardinality(InFocus) |-> {k}] \in Seq(SUBSET Nat) \ {<<>>}
  BY <1>2
<1> QED
  BY <1>3 DEF BuildJevPlan, IsPlan

LEMMA Asked_Keeps ==
  ASSUME NEW caller, NEW provider \in Providers, NEW plan, IsPlan(plan),
         NEW opinion \in [Documents(plan) -> Opinions(provider)],
         Ask(caller, provider, plan, opinion)
  PROVE  JudgeInv'
<1> DEFINE c == [number |-> calls + 1, caller |-> caller, provider |-> provider, plan |-> plan,
                 opinion |-> opinion, phase |-> "headers", answers |-> <<>>]
<1>1. call' = c
  BY DEF Ask
<1>2. IsCall(c)
  BY DEF IsCall
<1>3. Len(plan.about) \in Nat \ {0}
  BY DEF IsPlan
<1>4. AnswersUpTo(c, 0)
  BY <1>3 DEF AnswersUpTo
<1> HIDE DEF c
<1>5. c.phase = "headers" /\ c.plan = plan
  BY DEF c
<1> QED
  BY <1>1, <1>2, <1>3, <1>4, <1>5 DEF JudgeInv

-----------------------------------------------------------------------------
(* What changes and what stays when a call goes on.                        *)
GoneOn(c, phase, answers) == [c EXCEPT !.phase = phase, !.answers = answers]

LEMMA Goes_On ==
  ASSUME NEW c, IsCall(c), NEW phase, NEW answers,
         NEW d, d = GoneOn(c, phase, answers)
  PROVE  /\ IsCall(d)
         /\ d.plan = c.plan /\ d.phase = phase /\ d.answers = answers
         /\ \A k : Thought(d, k) = Thought(c, k)
<1>1. d = [number |-> c.number, caller |-> c.caller, provider |-> c.provider, plan |-> c.plan,
           opinion |-> c.opinion, phase |-> phase, answers |-> answers]
  BY DEF IsCall, GoneOn
<1>2. /\ d.number = c.number /\ d.caller = c.caller /\ d.provider = c.provider
      /\ d.plan = c.plan /\ d.opinion = c.opinion /\ d.phase = phase /\ d.answers = answers
  BY <1>1
<1>3. IsCall(d)
  BY <1>1, <1>2 DEF IsCall
<1>4. \A k : Thought(d, k) = Thought(c, k)
  BY <1>2 DEF Thought
<1> QED
  BY <1>2, <1>3, <1>4

LEMMA Failed_Keeps ==
  ASSUME JudgeInv, call # NoCall, Failed
  PROVE  JudgeInv'
<1>1. IsCall(call)
  BY DEF JudgeInv
<1>2. call' = GoneOn(call, "failed", <<>>)
  BY DEF Failed, GoneOn
<1>3. IsCall(call') /\ call'.phase = "failed"
  BY <1>1, <1>2, Goes_On
<1> QED
  BY <1>3 DEF JudgeInv

(* A call is answered if all its answers belong.                           *)
LEMMA Answered_Keeps ==
  ASSUME JudgeInv, call # NoCall, NEW answers, Answered(answers),
         answers = [k \in DOMAIN call.plan.about |-> Thought(call, k)]
  PROVE  JudgeInv'
<1>1. IsCall(call) /\ IsPlan(call.plan)
  BY DEF JudgeInv, IsCall
<1>2. DOMAIN call.plan.about = 1..Len(call.plan.about) /\ Len(call.plan.about) \in Nat
  BY <1>1 DEF IsPlan
<1>3. call' = GoneOn(call, "answered", answers)
  BY DEF Answered, GoneOn
<1>4. /\ IsCall(call') /\ call'.plan = call.plan /\ call'.phase = "answered"
      /\ call'.answers = answers /\ \A k : Thought(call', k) = Thought(call, k)
  BY <1>1, <1>3, Goes_On
<1>5. AnswersUpTo(call', Len(call'.plan.about))
  BY <1>2, <1>4 DEF AnswersUpTo
<1> QED
  BY <1>4, <1>5 DEF JudgeInv

-----------------------------------------------------------------------------
(* A reply that lists every id of the request once is mapped back by ids.  *)
LEMMA LocalReply_Belongs ==
  ASSUME NEW request, NEW reply, LocalReplyFits(request, reply)
  PROVE  MapLocalResponse(request, reply) = [k \in DOMAIN request.plan.about |-> Thought(request, k)]
<1> DEFINE Place(k) == CHOOSE i \in DOMAIN reply.ids : reply.ids[i] = k
<1>1. ASSUME NEW k \in DOMAIN request.plan.about
      PROVE  reply.ids[Place(k)] = k
  <2>1. k \in {reply.ids[i] : i \in DOMAIN reply.ids}
    BY DEF LocalReplyFits, ToSet
  <2> QED
    BY <2>1
<1>2. MapLocalResponse(request, reply) =
        [k \in DOMAIN request.plan.about |-> Thought(request, reply.ids[Place(k)])]
  BY DEF MapLocalResponse
<1> HIDE DEF Place
<1> QED
  BY <1>1, <1>2, Zenon

(* SemIf's answer to one question, when every option is listed.            *)
LEMMA SemIfOpinion ==
  ASSUME NEW c, IsCall(c), c.provider = "semif", NEW k \in DOMAIN c.plan.about
  PROVE  LET weights == c.opinion[Document(c.plan, k)]
         IN  /\ [i \in Options |-> weights[i]] = weights
             /\ Thought(c, k) = SemIfAnswer(weights)
<1>1. c.opinion[Document(c.plan, k)] \in Distributions
  BY DEF IsCall, Documents, Opinions
<1> QED
  BY <1>1 DEF Distributions, Thought, AnswerTo

LEMMA SemIfReply_Keeps ==
  ASSUME JudgeInv, SemIfReply
  PROVE  JudgeInv'
<1>1. call # NoCall /\ call.provider = "semif" /\ call.phase = "body"
  BY DEF SemIfReply, InPhase
<1>2. IsCall(call) /\ IsPlan(call.plan)
  BY <1>1 DEF JudgeInv, IsCall
<1>3. DOMAIN call.plan.about = 1..Len(call.plan.about) /\ Len(call.plan.about) \in Nat
  BY <1>2 DEF IsPlan
<1>4. PICK n \in 0..(Len(call.plan.about) - 1) : call.answers = [k \in 1..n |-> Thought(call, k)]
  BY <1>1 DEF JudgeInv, AnswersUpTo
<1>5. call.answers \in Seq({Thought(call, k) : k \in 1..n}) /\ Len(call.answers) = n
  BY <1>3, <1>4
<1> DEFINE k       == Len(call.answers) + 1
           weights == call.opinion[Document(call.plan, k)]
           shown(listed) == [i \in Options |-> IF i \in listed THEN weights[i] ELSE 0]
           answers(listed) == Append(call.answers, SemIfAnswer(shown(listed)))
<1>6. /\ [i \in Options |-> weights[i]] = weights
      /\ Thought(call, k) = SemIfAnswer(weights)
  <2>1. k \in DOMAIN call.plan.about
    BY <1>3, <1>4, <1>5
  <2> HIDE DEF k
  <2> QED
    BY <1>1, <1>2, <2>1, SemIfOpinion
<1>7. PICK listed \in SUBSET Options :
        IF ~OptionsListed(listed) THEN Failed
        ELSE IF k = Len(call.plan.about) THEN Answered(answers(listed))
        ELSE call' = [call EXCEPT !.phase = "headers", !.answers = answers(listed)]
  BY DEF SemIfReply
<1>8. CASE ~OptionsListed(listed)
  BY <1>1, <1>7, <1>8, Failed_Keeps
<1>9. CASE OptionsListed(listed)
  <2>1. shown(listed) = weights
    BY <1>6, <1>9 DEF OptionsListed
  <2>2. answers(listed) = [i \in 1..k |-> Thought(call, i)]
    BY <2>1, <1>4, <1>5, <1>6
  <2>3. CASE k = Len(call.plan.about)
    BY <1>1, <1>3, <1>7, <1>9, <2>2, <2>3, Answered_Keeps
  <2>4. CASE k # Len(call.plan.about)
    <3> HIDE DEF answers, k
    <3>1. call' = GoneOn(call, "headers", answers(listed))
      BY <1>7, <1>9, <2>4 DEF GoneOn
    <3>2. /\ IsCall(call') /\ call'.plan = call.plan /\ call'.phase = "headers"
          /\ call'.answers = answers(listed) /\ \A i : Thought(call', i) = Thought(call, i)
      BY <1>2, <3>1, Goes_On
    <3>3. k \in 0..(Len(call.plan.about) - 1)
      BY <1>3, <1>4, <1>5, <2>4 DEF k
    <3>4. AnswersUpTo(call', k)
      BY <2>2, <3>2, <3>3, <1>3 DEF AnswersUpTo
    <3> QED
      BY <3>2, <3>3, <3>4 DEF JudgeInv
  <2> QED
    BY <2>3, <2>4
<1> QED
  BY <1>8, <1>9

-----------------------------------------------------------------------------
(* Steps of a client.                                                      *)
LEMMA JudgeStep_Keeps ==
  ASSUME JudgeInv, JudgeStep
  PROVE  JudgeInv'
<1>1. ASSUME call # NoCall, Failed PROVE JudgeInv'
  BY <1>1, Failed_Keeps
<1>2. CASE RequestFails
  BY <1>1, <1>2 DEF RequestFails
<1>3. CASE HeadersArrive
  <2>1. call # NoCall /\ call.phase = "headers" /\ IsCall(call)
    BY <1>3 DEF HeadersArrive, InPhase, JudgeInv
  <2>2. call' = [call EXCEPT !.phase = "body"]
    BY <1>3 DEF HeadersArrive
  <2>3. call' = [number |-> call.number, caller |-> call.caller, provider |-> call.provider,
                 plan |-> call.plan, opinion |-> call.opinion, phase |-> "body", answers |-> call.answers]
    BY <2>1, <2>2 DEF IsCall
  <2>4. /\ call'.number = call.number /\ call'.caller = call.caller /\ call'.provider = call.provider
        /\ call'.plan = call.plan /\ call'.opinion = call.opinion /\ call'.phase = "body"
        /\ call'.answers = call.answers
    BY <2>3
  <2>5. IsCall(call')
    BY <2>1, <2>3, <2>4 DEF IsCall
  <2>6. \A n : AnswersUpTo(call, n) => AnswersUpTo(call', n)
    BY <2>4 DEF AnswersUpTo, Thought
  <2> QED
    BY <2>1, <2>4, <2>5, <2>6 DEF JudgeInv
<1>4. CASE BodyFails
  BY <1>1, <1>4 DEF BodyFails, InPhase
<1>5. CASE LocalReply
  <2>1. call # NoCall
    BY <1>5 DEF LocalReply, InPhase
  <2>2. PICK reply : IF LocalReplyFits(call, reply) THEN Answered(MapLocalResponse(call, reply)) ELSE Failed
    BY <1>5 DEF LocalReply
  <2>3. CASE LocalReplyFits(call, reply)
    BY <2>1, <2>2, <2>3, LocalReply_Belongs, Answered_Keeps
  <2> QED
    BY <1>1, <2>1, <2>2, <2>3
<1>6. CASE LocalTimeout
  BY <1>1, <1>6 DEF LocalTimeout, InPhase
<1>7. CASE SemIfTimeout
  BY <1>1, <1>7 DEF SemIfTimeout, InPhase
<1>8. CASE SemIfReply
  BY <1>8, SemIfReply_Keeps
<1>9. CASE JevReply
  <2>1. call # NoCall
    BY <1>9 DEF JevReply, InPhase
  <2>2. Failed \/ Answered([k \in DOMAIN call.plan.about |-> Thought(call, k)])
    BY <1>9 DEF JevReply
  <2> QED
    BY <1>1, <2>1, <2>2, Answered_Keeps
<1>10. CASE Replay
  <2>1. call # NoCall /\ IsCall(call) /\ IsPlan(call.plan)
    BY <1>10 DEF Replay, InPhase, JudgeInv, IsCall
  <2> DEFINE captured(finalists) == [call EXCEPT !.plan = [call.plan EXCEPT !.finalists = finalists]]
  <2>2. PICK finalists, keys :
          IF ReplayFits(call.plan, finalists) /\ ResponseValid(call.plan, keys, TRUE)
          THEN Answered([k \in keys |-> Thought(captured(finalists), k)])
          ELSE Failed
    BY <1>10 DEF Replay
  <2>3. CASE ReplayFits(call.plan, finalists) /\ ResponseValid(call.plan, keys, TRUE)
    <3>1. finalists = call.plan.finalists /\ keys = DOMAIN call.plan.about
      BY <2>3 DEF ReplayFits, ResponseValid
    <3>2. [call.plan EXCEPT !.finalists = finalists] = call.plan
      BY <2>1, <3>1 DEF IsPlan
    <3>3. captured(finalists) = call
      BY <2>1, <3>2 DEF IsCall
    <3> HIDE DEF captured
    <3>4. Answered([k \in DOMAIN call.plan.about |-> Thought(call, k)])
      BY <2>2, <2>3, <3>1, <3>3
    <3> QED
      BY <2>1, <3>4, Answered_Keeps
  <2> QED
    BY <1>1, <2>1, <2>2, <2>3
<1>11. ASSUME NEW request \in late, LateReply(request) PROVE JudgeInv'
  BY <1>11 DEF LateReply, JudgeInv, IsCall, AnswersUpTo, Thought
<1> QED
  BY <1>2, <1>3, <1>4, <1>5, <1>6, <1>7, <1>8, <1>9, <1>10, <1>11 DEF JudgeStep

-----------------------------------------------------------------------------
(* The audits and the other commands that call the judge.                  *)
Inv == scene \in Scenes /\ JudgeInv

LEMMA JudgeFirst == Init => Inv
  BY DEF Init, JudgeInit, Inv, JudgeInv

LEMMA JudgeNext ==
  ASSUME Inv, [Next]_vars
  PROVE  Inv'
<1>1. scene' = scene
  BY DEF Next, vars, Issue, WriteTemplate, EditHead, EditClaim, Age, Begin, Recorder, OpenLock,
         NameLock, NameLockFails, JudgeLock, TakeOver, LoadLoop, ReadFile, WriteFile, WriteFails,
         Unlock, Crash, ReadEvidence, LoadForAudit, JudgeFailed, AppendUnjudged, AppendJudged,
         AskElsewhere, Dismiss, Judging
<1>2. scene \in Scenes /\ scene' \in Scenes /\ JudgeInv
  BY <1>1 DEF Inv
<1> SUFFICES JudgeInv'
  BY <1>2 DEF Inv
<1>3. ASSUME UNCHANGED judgeVars PROVE JudgeInv'
  BY <1>2, <1>3 DEF judgeVars, JudgeInv, IsCall, AnswersUpTo, Thought
<1>4. ASSUME call' = NoCall PROVE JudgeInv'
  BY <1>4 DEF JudgeInv
<1>5. CASE UNCHANGED vars
  BY <1>3, <1>5 DEF vars
<1>6. CASE Issue \/ WriteTemplate \/ EditHead \/ EditClaim \/ Age \/ ReadEvidence \/ AppendUnjudged
  BY <1>3, <1>6 DEF Issue, WriteTemplate, EditHead, EditClaim, Age, ReadEvidence, AppendUnjudged
<1>7. ASSUME NEW p \in Procs, Begin(p) \/ Recorder(p) \/ Crash(p) PROVE JudgeInv'
  BY <1>3, <1>7 DEF Begin, Recorder, OpenLock, NameLock, NameLockFails, JudgeLock, TakeOver,
                    LoadLoop, ReadFile, WriteFile, WriteFails, Unlock, Crash
<1>8. CASE JudgeFailed \/ AppendJudged \/ Dismiss
  BY <1>4, <1>8 DEF JudgeFailed, AppendJudged, Dismiss
<1>9. CASE LoadForAudit
  <2>1. CASE UNCHANGED judgeVars
    BY <1>3, <2>1
  <2>2. CASE ~UNCHANGED judgeVars
    <3>1. InFocus # {}
      BY <1>9, <2>2 DEF LoadForAudit
    <3>2. PICK provider \in scene.providers :
            \E opinion \in [Documents(BuildJevPlan) -> Opinions(provider)] :
              Ask("audit", provider, BuildJevPlan, opinion)
      BY <1>9, <2>2 DEF LoadForAudit
    <3>3. provider \in Providers
      BY <1>2, SceneAssumption
    <3> QED
      BY <3>1, <3>2, <3>3, AuditPlans, Asked_Keeps
  <2> QED
    BY <2>1, <2>2
<1>10. CASE AskElsewhere
  <2>1. PICK plan \in scene.plans, provider \in scene.providers :
          \E opinion \in [Documents(plan) -> Opinions(provider)] : Ask("other", provider, plan, opinion)
    BY <1>10 DEF AskElsewhere
  <2>2. IsPlan(plan) /\ provider \in Providers
    BY <1>2, SceneAssumption
  <2> QED
    BY <2>1, <2>2, Asked_Keeps
<1>11. CASE Judging
  BY <1>2, <1>11, JudgeStep_Keeps DEF Judging
<1> QED
  BY <1>5, <1>6, <1>7, <1>8, <1>9, <1>10, <1>11 DEF Next

(* Answers that are used are the judge's opinions of the very finalists    *)
(* the questions of the call are about: whatever the plan, whatever the    *)
(* servers send and however late, for any number of recorders and calls.   *)
THEOREM AnswersAlwaysBelong == Spec => []AnswersBelong
<1>1. Inv => AnswersBelong
  <2> SUFFICES ASSUME Inv, call # NoCall, call.phase = "answered"
               PROVE  call.answers = [k \in DOMAIN call.plan.about |-> Thought(call, k)]
    BY DEF AnswersBelong
  <2>1. IsPlan(call.plan) /\ AnswersUpTo(call, Len(call.plan.about))
    BY DEF Inv, JudgeInv, IsCall
  <2>2. DOMAIN call.plan.about = 1..Len(call.plan.about)
    BY <2>1 DEF IsPlan
  <2> QED
    BY <2>1, <2>2 DEF AnswersUpTo
<1> QED
  BY <1>1, JudgeFirst, JudgeNext, PTL DEF Spec

-----------------------------------------------------------------------------
(* Sums over finite sets, as FiniteSetsExt defines them: by a choice of    *)
(* the element to add next.  The sum does not depend on the choice.        *)
LEMMA SmallestSet ==
  ASSUME NEW S, IsFiniteSet(S), NEW bad \in SUBSET SUBSET S, bad # {}
  PROVE  \E A \in bad : \A B \in SUBSET A : B # A => B \notin bad
<1> DEFINE R == StrictSubsetOrdering(S)
<1>1. IsWellFoundedOn(R, SUBSET S)
  <2>1. FiniteSubsetsOf(S) = SUBSET S
    BY FS_FiniteSubsetsOfFinite
  <2>2. IsWellFoundedOn(R, FiniteSubsetsOf(S))
    BY FS_StrictSubsetOrderingWellFounded
  <2> QED
    BY <2>1, <2>2
<1>2. \A A, B \in SUBSET S : B \subseteq A /\ B # A => <<B, A>> \in R
  BY DEF StrictSubsetOrdering
<1> HIDE DEF R
<1>3. PICK A \in bad : \A B \in bad : ~(<<B, A>> \in R)
  BY <1>1, WFMin
<1> QED
  BY <1>2, <1>3

Some(s) == CHOOSE x \in s : TRUE

(* g has the sum of each subset of S, after FoldSet's definition; and as a *)
(* sum should be.                                                          *)
Folds(g, f, S) ==
  g = [s \in SUBSET S |-> IF s = {} THEN 0 ELSE f[Some(s)].ms + g[s \ {Some(s)}]]

Adds(g, f, S) ==
  /\ g[{}] = 0
  /\ \A s \in SUBSET S : g[s] \in Int /\ \A x \in s : g[s] = f[x].ms + g[s \ {x}]

LEMMA FoldsAt ==
  ASSUME NEW g, NEW f, NEW S, Folds(g, f, S)
  PROVE  /\ g[{}] = 0
         /\ \A s \in SUBSET S : s # {} =>
              /\ Some(s) \in s /\ s \ {Some(s)} \in SUBSET S /\ s \ {Some(s)} # s
              /\ g[s] = f[Some(s)].ms + g[s \ {Some(s)}]
<1> DEFINE h == [s \in SUBSET S |-> IF s = {} THEN 0 ELSE f[Some(s)].ms + g[s \ {Some(s)}]]
<1>1. g = h
  BY DEF Folds
<1>2. h[{}] = 0 /\ \A s \in SUBSET S : s # {} => h[s] = f[Some(s)].ms + g[s \ {Some(s)}]
  OBVIOUS
<1>3. \A s : s # {} => Some(s) \in s
  BY DEF Some
<1> HIDE DEF h
<1> QED
  BY <1>1, <1>2, <1>3

LEMMA FoldsUnique ==
  ASSUME NEW g, NEW h, NEW f, NEW S, IsFiniteSet(S), NEW T \in SUBSET S, Folds(g, f, S), Folds(h, f, T)
  PROVE  \A s \in SUBSET T : g[s] = h[s]
<1> DEFINE bad == {s \in SUBSET T : g[s] # h[s]}
<1> SUFFICES ASSUME bad # {} PROVE FALSE
  OBVIOUS
<1>1. bad \in SUBSET SUBSET S
  OBVIOUS
<1>2. PICK A \in bad : \A B \in SUBSET A : B # A => B \notin bad
  <2> HIDE DEF bad
  <2> QED
    BY <1>1, SmallestSet
<1>3. A # {}
  BY FoldsAt
<1>4. /\ Some(A) \in A /\ A \ {Some(A)} # A
      /\ g[A] = f[Some(A)].ms + g[A \ {Some(A)}] /\ h[A] = f[Some(A)].ms + h[A \ {Some(A)}]
  <2>1. A \in SUBSET T /\ A \in SUBSET S
    OBVIOUS
  <2> HIDE DEF bad
  <2>2. /\ Some(A) \in A /\ A \ {Some(A)} \in SUBSET S /\ A \ {Some(A)} # A
        /\ g[A] = f[Some(A)].ms + g[A \ {Some(A)}]
    BY <1>3, <2>1, FoldsAt
  <2>3. h[A] = f[Some(A)].ms + h[A \ {Some(A)}]
    BY <1>3, <2>1, FoldsAt
  <2> QED
    BY <2>2, <2>3
<1>5. g[A \ {Some(A)}] = h[A \ {Some(A)}]
  BY <1>2, <1>4
<1> QED
  BY <1>4, <1>5

LEMMA FoldsExist ==
  ASSUME NEW f, NEW S, IsFiniteSet(S)
  PROVE  \E g : Folds(g, f, S)
<1> DEFINE bad == {T \in SUBSET S : ~\E g : Folds(g, f, T)}
<1> SUFFICES ASSUME bad # {} PROVE FALSE
  OBVIOUS
<1>1. PICK T \in bad : \A B \in SUBSET T : B # T => B \notin bad
  <2>1. bad \in SUBSET SUBSET S
    OBVIOUS
  <2> HIDE DEF bad
  <2> QED
    BY <2>1, SmallestSet
<1> DEFINE F(s) == CHOOSE g : Folds(g, f, s)
           last == IF T = {} THEN 0 ELSE f[Some(T)].ms + F(T \ {Some(T)})[T \ {Some(T)}]
           h == [s \in SUBSET T |-> IF s = T THEN last ELSE F(s)[s]]
<1>2. ASSUME NEW s \in SUBSET T, s # T PROVE Folds(F(s), f, s) /\ IsFiniteSet(s)
  <2>1. \E g : Folds(g, f, s)
    BY <1>1, <1>2
  <2> QED
    BY <2>1, FS_Subset
<1> HIDE DEF F
<1>3. ASSUME NEW s \in SUBSET T
      PROVE  h[s] = IF s = {} THEN 0 ELSE f[Some(s)].ms + h[s \ {Some(s)}]
  <2>1. s # {} => Some(s) \in s
    BY DEF Some
  <2>2. CASE s = T
    BY <2>1, <2>2
  <2>3. CASE s # T /\ s = {}
    BY <1>2, <2>3, FoldsAt
  <2>4. CASE s # T /\ s # {}
    <3> DEFINE r == s \ {Some(s)}
    <3>1. r \in SUBSET s /\ r # T /\ r \in SUBSET T
      BY <2>1, <2>4
    <3>2. F(s)[s] = f[Some(s)].ms + F(s)[r]
      BY <1>2, <2>4, FoldsAt
    <3>3. F(s)[r] = F(r)[r]
      <4> HIDE DEF r
      <4> QED
        BY <1>2, <2>4, <3>1, FoldsUnique
    <3> QED
      BY <2>4, <3>1, <3>2, <3>3
  <2> QED
    BY <2>2, <2>3, <2>4
<1>4. Folds(h, f, T)
  <2>1. h = [s \in SUBSET T |-> h[s]]
    OBVIOUS
  <2> HIDE DEF h
  <2> QED
    BY <1>3, <2>1 DEF Folds
<1> QED
  BY <1>1, <1>4

(* Whatever is added first.                                                *)
LEMMA FoldsAdd ==
  ASSUME NEW g, NEW f, NEW S, IsFiniteSet(S), \A x \in S : f[x].ms \in Int, Folds(g, f, S)
  PROVE  Adds(g, f, S)
<1>1. \A s \in SUBSET S : g[s] \in Int
  <2> DEFINE bad == {s \in SUBSET S : g[s] \notin Int}
  <2> SUFFICES ASSUME bad # {} PROVE FALSE
    OBVIOUS
  <2>1. PICK A \in bad : \A B \in SUBSET A : B # A => B \notin bad
    <3>1. bad \in SUBSET SUBSET S
      OBVIOUS
    <3> HIDE DEF bad
    <3> QED
      BY <3>1, SmallestSet
  <2>2. A # {}
    <3>1. g[{}] = 0
      BY FoldsAt
    <3> QED
      BY <3>1
  <2>3. /\ Some(A) \in A /\ A \ {Some(A)} # A /\ A \ {Some(A)} \in SUBSET S
        /\ g[A] = f[Some(A)].ms + g[A \ {Some(A)}]
    BY <2>2, FoldsAt
  <2>4. g[A \ {Some(A)}] \in Int
    BY <2>1, <2>3
  <2> QED
    BY <2>3, <2>4
<1>2. \A s \in SUBSET S : \A x \in s : g[s] = f[x].ms + g[s \ {x}]
  <2> DEFINE bad == {s \in SUBSET S : \E x \in s : g[s] # f[x].ms + g[s \ {x}]}
  <2> SUFFICES ASSUME bad # {} PROVE FALSE
    OBVIOUS
  <2>1. PICK A \in bad : \A B \in SUBSET A : B # A => B \notin bad
    <3>1. bad \in SUBSET SUBSET S
      OBVIOUS
    <3> HIDE DEF bad
    <3> QED
      BY <3>1, SmallestSet
  <2>2. PICK x \in A : g[A] # f[x].ms + g[A \ {x}]
    OBVIOUS
  <2> DEFINE c == Some(A)
  <2>3. c \in A /\ g[A] = f[c].ms + g[A \ {c}]
    BY <2>2, FoldsAt
  <2>4. c # x
    BY <2>2, <2>3
  <2> HIDE DEF c
  <2>5. A \ {c} \notin bad /\ A \ {x} \notin bad
    BY <2>1, <2>2, <2>3
  <2>6. g[A \ {c}] = f[x].ms + g[(A \ {c}) \ {x}] /\ g[A \ {x}] = f[c].ms + g[(A \ {x}) \ {c}]
    BY <2>2, <2>3, <2>4, <2>5
  <2>7. (A \ {c}) \ {x} = (A \ {x}) \ {c} /\ (A \ {c}) \ {x} \in SUBSET S
    OBVIOUS
  <2>8. f[c].ms \in Int /\ f[x].ms \in Int /\ g[(A \ {c}) \ {x}] \in Int
    BY <1>1, <2>2, <2>3, <2>7
  <2> DEFINE rest == g[(A \ {c}) \ {x}]
  <2>9. g[A] = f[c].ms + (f[x].ms + rest) /\ g[A \ {x}] = f[c].ms + rest /\ rest \in Int
    BY <2>3, <2>6, <2>7, <2>8
  <2> HIDE DEF rest
  <2>10. g[A] = f[x].ms + g[A \ {x}]
    BY <2>8, <2>9
  <2> QED
    BY <2>2, <2>10
<1> QED
  BY <1>1, <1>2, FoldsAt DEF Adds

(* Sums of the same values are the same.                                   *)
LEMMA AddsAgree ==
  ASSUME NEW g, NEW f, NEW S, IsFiniteSet(S), Adds(g, f, S),
         NEW h, NEW d, NEW T, Adds(h, d, T),
         NEW U, U \subseteq S, U \subseteq T, \A x \in U : d[x] = f[x]
  PROVE  g[U] = h[U]
<1> DEFINE bad == {s \in SUBSET U : g[s] # h[s]}
<1> SUFFICES ASSUME bad # {} PROVE FALSE
  OBVIOUS
<1>1. PICK A \in bad : \A B \in SUBSET A : B # A => B \notin bad
  <2>1. bad \in SUBSET SUBSET S
    OBVIOUS
  <2> HIDE DEF bad
  <2> QED
    BY <2>1, SmallestSet
<1>2. PICK x \in A : TRUE
  BY DEF Adds
<1>3. g[A] = f[x].ms + g[A \ {x}] /\ h[A] = d[x].ms + h[A \ {x}]
  BY DEF Adds
<1>4. g[A \ {x}] = h[A \ {x}]
  BY <1>1, <1>2
<1> QED
  BY <1>1, <1>2, <1>3, <1>4

(* The time of all commands.                                               *)
TotalTime(obs) == MapThenSumSet(LAMBDA o : obs[o].ms, DOMAIN obs)

LEMMA TotalAdds ==
  ASSUME NEW obs, IsFiniteSet(DOMAIN obs), \A o \in DOMAIN obs : obs[o].ms \in Int
  PROVE  \E g : Adds(g, obs, DOMAIN obs) /\ TotalTime(obs) = g[DOMAIN obs]
<1> DEFINE g == CHOOSE h : Folds(h, obs, DOMAIN obs)
<1>1. Folds(g, obs, DOMAIN obs)
  BY FoldsExist
<1>2. TotalTime(obs) = g[DOMAIN obs]
  BY DEF TotalTime, MapThenSumSet, MapThenFoldSet, Folds, Some
<1> HIDE DEF g
<1> QED
  BY <1>1, <1>2, FoldsAdd

(* What a recorded command does to the time of all of them.                *)
LEMMA PutTime ==
  ASSUME NEW obs, IsFiniteSet(DOMAIN obs), \A o \in DOMAIN obs : obs[o].ms \in Int,
         NEW id, NEW item, item.ms \in Int, NEW new, new = Put(obs, id, item)
  PROVE  /\ IsFiniteSet(DOMAIN new) /\ \A o \in DOMAIN new : new[o].ms \in Int
         /\ TotalTime(obs) \in Int
         /\ TotalTime(new) = TotalTime(obs) + item.ms - (IF id \in DOMAIN obs THEN obs[id].ms ELSE 0)
<1>1. /\ DOMAIN new = DOMAIN obs \cup {id} /\ new[id] = item
      /\ \A o \in DOMAIN obs \ {id} : new[o] = obs[o]
  BY DEF Put
<1>2. IsFiniteSet(DOMAIN new) /\ \A o \in DOMAIN new : new[o].ms \in Int
  BY <1>1, FS_AddElement
<1>3. PICK g : Adds(g, obs, DOMAIN obs) /\ TotalTime(obs) = g[DOMAIN obs]
  BY TotalAdds
<1>4. PICK h : Adds(h, new, DOMAIN new) /\ TotalTime(new) = h[DOMAIN new]
  BY <1>2, TotalAdds
<1> DEFINE U == DOMAIN obs \ {id}
<1>5. U \subseteq DOMAIN obs /\ U \subseteq DOMAIN new /\ \A o \in U : new[o] = obs[o]
  BY <1>1
<1> HIDE DEF U
<1>6. g[U] = h[U]
  BY <1>3, <1>4, <1>5, AddsAgree
<1>7. h[DOMAIN new] = item.ms + h[U] /\ h[U] \in Int
  <2>1. id \in DOMAIN new /\ DOMAIN new \ {id} = U
    BY <1>1 DEF U
  <2>2. h[DOMAIN new] = new[id].ms + h[DOMAIN new \ {id}] /\ h[U] \in Int
    BY ZenonT(40), <1>4, <1>5, <2>1 DEF Adds
  <2> QED
    BY <1>1, <2>1, <2>2
<1>8. g[DOMAIN obs] = g[U] + (IF id \in DOMAIN obs THEN obs[id].ms ELSE 0)
  <2>1. CASE id \in DOMAIN obs
    <3>1. g[DOMAIN obs] = obs[id].ms + g[U] /\ g[U] \in Int
      BY <1>3, <2>1 DEF Adds, U
    <3> QED
      BY <2>1, <3>1
  <2>2. CASE id \notin DOMAIN obs
    <3>1. U = DOMAIN obs /\ g[U] \in Int
      BY <1>3, <2>2 DEF Adds, U
    <3> QED
      BY <2>2, <3>1
  <2> QED
    BY <2>1, <2>2
<1>9. g[DOMAIN obs] \in Int /\ g[U] \in Int
  BY <1>3, <1>5 DEF Adds
<1> QED
  BY <1>2, <1>3, <1>4, <1>6, <1>7, <1>8, <1>9

-----------------------------------------------------------------------------
(* The ids of one kind.                                                    *)
IdsOf(kind) == {o.id : o \in {x \in Ops : x.kind = kind}}

LEMMA KindsApart ==
  ASSUME NEW k1, NEW k2, k1 # k2
  PROVE  IdsOf(k1) \cap IdsOf(k2) = {}
  BY OpsAssumption DEF IdsOf

WholeClaim(c) == c = [status |-> c.status, head |-> c.head, cites |-> c.cites]

WholeClaims(claims) ==
  /\ claims = [t \in Targets |-> claims[t]]
  /\ \A t \in Targets : WholeClaim(claims[t])

(* Evidence has its fields, and under an id what is recorded under it.     *)
Whole(e) ==
  /\ e = [round |-> e.round, head |-> e.head, wall |-> e.wall, obs |-> e.obs,
          metrics |-> e.metrics, evals |-> e.evals, claims |-> e.claims]
  /\ WholeClaims(e.claims)
  /\ DOMAIN e.obs \subseteq IdsOf("command")
  /\ DOMAIN e.metrics \subseteq IdsOf("metric")
  /\ e.evals \in Seq(ToSet(e.evals))
  /\ \A i \in DOMAIN e.evals : e.evals[i].id \in IdsOf("artifact")
  /\ \A i, j \in DOMAIN e.evals : e.evals[i].id = e.evals[j].id => i = j

(* Claims cite what is there, and samples only where samples decide.       *)
WellCited(e) ==
  \A t \in Targets :
    /\ e.claims[t].cites \subseteq InFile(e)
    /\ t \notin Checked \ Hard => e.claims[t].cites \cap DOMAIN e.metrics = {}

(* A recording is cited by the claims it is linked to.                     *)
LinkEffect(claims, links, id, linked) ==
  /\ WholeClaims(linked)
  /\ \A t \in Targets : linked[t].cites = (IF t \in links THEN claims[t].cites \cup {id} ELSE claims[t].cites)

LEMMA LinkedFacts ==
  ASSUME NEW claims, WholeClaims(claims), NEW links, NEW id, NEW status,
         NEW linked, linked = Linked(claims, links, id, status)
  PROVE  LinkEffect(claims, links, id, linked)
<1>1. ASSUME NEW t \in Targets
      PROVE  /\ WholeClaim(linked[t])
             /\ linked[t].cites = (IF t \in links THEN claims[t].cites \cup {id} ELSE claims[t].cites)
  <2>1. WholeClaim(claims[t])
    BY DEF WholeClaims
  <2>2. linked[t] = IF t \in links THEN [Cite(claims[t], id) EXCEPT !.status = status] ELSE claims[t]
    BY DEF Linked
  <2>3. CASE t \in links
    <3>1. Cite(claims[t], id) = [status |-> claims[t].status, head |-> claims[t].head,
                                 cites |-> claims[t].cites \cup {id}]
      BY <2>1 DEF WholeClaim, Cite
    <3>2. linked[t] = [status |-> status, head |-> claims[t].head, cites |-> claims[t].cites \cup {id}]
      BY <2>2, <2>3, <3>1
    <3> QED
      BY <3>2, <2>3 DEF WholeClaim
  <2> QED
    BY <2>1, <2>2, <2>3
<1>2. linked = [t \in Targets |-> linked[t]]
  BY DEF Linked
<1> QED
  BY <1>1, <1>2 DEF WholeClaims, LinkEffect

(* What becomes of evidence e by a recording o of each kind.               *)
CommandEffect(e, o, d) ==
  /\ Whole(d)
  /\ d.round = e.round /\ d.head = e.head
  /\ d.wall = e.wall + o.ms - PriorDuration(e, o.id)
  /\ d.obs = Put(e.obs, o.id, [ok |-> o.ok, ms |-> o.ms, head |-> e.head])
  /\ d.metrics = e.metrics /\ d.evals = e.evals
  /\ DOMAIN d.obs = DOMAIN e.obs \cup {o.id}
  /\ \A id \in DOMAIN e.obs \ {o.id} : d.obs[id] = e.obs[id]
  /\ d.claims = Linked(e.claims, o.links, o.id, IF o.ok THEN "pass" ELSE "fail")

LEMMA CommandFacts ==
  ASSUME NEW e, Whole(e), NEW o \in Ops, o.kind = "command",
         NEW d, d = WithCommand(e, o)
  PROVE  CommandEffect(e, o, d)
<1> DEFINE obs == Put(e.obs, o.id, [ok |-> o.ok, ms |-> o.ms, head |-> e.head])
           wall == e.wall + o.ms - PriorDuration(e, o.id)
           claims == Linked(e.claims, o.links, o.id, IF o.ok THEN "pass" ELSE "fail")
<1>1. d = [e EXCEPT !.obs = obs, !.wall = wall, !.claims = claims]
  BY DEF WithCommand
<1>2. WholeClaims(claims)
  BY LinkedFacts DEF Whole, LinkEffect
<1>3. DOMAIN obs = DOMAIN e.obs \cup {o.id} /\ \A id \in DOMAIN e.obs \ {o.id} : obs[id] = e.obs[id]
  BY DEF Put
<1>4. o.id \in IdsOf("command")
  BY DEF IdsOf
<1> HIDE DEF obs, wall, claims
<1>5. d = [round |-> e.round, head |-> e.head, wall |-> wall, obs |-> obs,
           metrics |-> e.metrics, evals |-> e.evals, claims |-> claims]
  BY <1>1 DEF Whole
<1>6. /\ d.round = e.round /\ d.head = e.head /\ d.wall = wall /\ d.obs = obs
      /\ d.metrics = e.metrics /\ d.evals = e.evals /\ d.claims = claims
  BY <1>5
<1>7. Whole(d)
  BY <1>2, <1>3, <1>4, <1>5, <1>6 DEF Whole
<1> QED
  BY <1>3, <1>6, <1>7 DEF obs, wall, claims, CommandEffect

(* The same for samples.                                                   *)
MetricEffect(e, o, d) ==
  /\ Whole(d)
  /\ d.round = e.round /\ d.head = e.head /\ d.wall = e.wall
  /\ d.obs = e.obs /\ d.evals = e.evals
  /\ DOMAIN d.metrics = DOMAIN e.metrics \cup {o.id}
  /\ \A id \in DOMAIN e.metrics \ {o.id} : d.metrics[id] = e.metrics[id]
  /\ \A t \in Targets : d.claims[t].cites = (IF t = o.criterion THEN e.claims[t].cites \cup {o.id} ELSE e.claims[t].cites)

LEMMA MetricFacts ==
  ASSUME NEW e, Whole(e), NEW o \in Ops, o.kind = "metric",
         NEW d, d = WithMetric(e, o)
  PROVE  MetricEffect(e, o, d)
<1> DEFINE c == o.criterion
           metrics == Put(e.metrics, o.id, [criterion |-> c, value |-> o.value, enough |-> o.enough, head |-> e.head])
           claim == IF o.result = NoId THEN Cite(e.claims[c], o.id)
                    ELSE [Cite(e.claims[c], o.id) EXCEPT !.status = o.result]
           claims == [e.claims EXCEPT ![c] = claim]
<1>1. d = [e EXCEPT !.metrics = metrics, !.claims = claims]
  BY DEF WithMetric, Whole
<1>2. c \in Targets
  BY OpsAssumption, RoundAssumption DEF IsOp, Targets, Criteria
<1>3. WholeClaim(claim) /\ claim.cites = e.claims[c].cites \cup {o.id}
  <2>1. WholeClaim(e.claims[c])
    BY <1>2 DEF Whole, WholeClaims
  <2>2. Cite(e.claims[c], o.id) = [status |-> e.claims[c].status, head |-> e.claims[c].head,
                                   cites |-> e.claims[c].cites \cup {o.id}]
    BY <2>1 DEF WholeClaim, Cite
  <2> QED
    BY <2>2 DEF WholeClaim
<1>4. DOMAIN metrics = DOMAIN e.metrics \cup {o.id} /\ \A id \in DOMAIN e.metrics \ {o.id} : metrics[id] = e.metrics[id]
  BY DEF Put
<1>5. o.id \in IdsOf("metric")
  BY DEF IdsOf
<1>6. e.claims = [t \in Targets |-> e.claims[t]] /\ \A t \in Targets : WholeClaim(e.claims[t])
  BY DEF Whole, WholeClaims
<1> HIDE DEF metrics, claim
<1>7. /\ claims = [t \in Targets |-> claims[t]]
      /\ \A t \in Targets : claims[t] = IF t = c THEN claim ELSE e.claims[t]
  BY <1>6
<1> HIDE DEF claims
<1>8. WholeClaims(claims)
  BY <1>3, <1>6, <1>7 DEF WholeClaims
<1>9. d = [round |-> e.round, head |-> e.head, wall |-> e.wall, obs |-> e.obs,
           metrics |-> metrics, evals |-> e.evals, claims |-> claims]
  BY <1>1 DEF Whole
<1>10. /\ d.round = e.round /\ d.head = e.head /\ d.wall = e.wall /\ d.obs = e.obs
       /\ d.metrics = metrics /\ d.evals = e.evals /\ d.claims = claims
  BY <1>9
<1>11. Whole(d)
  BY <1>4, <1>5, <1>8, <1>9, <1>10 DEF Whole
<1>12. \A t \in Targets : d.claims[t].cites = (IF t = c THEN e.claims[t].cites \cup {o.id} ELSE e.claims[t].cites)
  BY <1>3, <1>7, <1>10
<1> QED
  BY <1>4, <1>10, <1>11, <1>12 DEF MetricEffect

(* The same for an evaluation.                                             *)
ArtifactEffect(e, o, d) ==
  /\ Whole(d)
  /\ d.round = e.round /\ d.head = e.head /\ d.wall = e.wall
  /\ d.obs = e.obs /\ d.metrics = e.metrics
  /\ {d.evals[i].id : i \in DOMAIN d.evals} = {e.evals[i].id : i \in DOMAIN e.evals} \cup {o.id}
  /\ \A i \in DOMAIN d.evals : d.evals[i].id # o.id =>
       i \in DOMAIN e.evals /\ d.evals[i] = e.evals[i]
  /\ \A i \in DOMAIN e.evals : e.evals[i].id # o.id =>
       i \in DOMAIN d.evals /\ d.evals[i] = e.evals[i]
  /\ \A t \in Targets : d.claims[t].cites = e.claims[t].cites \/ d.claims[t].cites = e.claims[t].cites \cup {o.id}

LEMMA ArtifactFacts ==
  ASSUME NEW e, Whole(e), NEW o \in Ops, o.kind = "artifact",
         NEW d, d = WithArtifact(e, o)
  PROVE  ArtifactEffect(e, o, d)
<1> DEFINE new   == [id |-> o.id, artifact |-> o.artifact, status |-> o.status, head |-> e.head]
           n     == Len(e.evals)
           evals == IF EvaluationAt(e, o.id) = {} THEN Append(e.evals, new)
                    ELSE [i \in DOMAIN e.evals |-> IF e.evals[i].id = o.id THEN new ELSE e.evals[i]]
           claims == IF o.criterion = NoId THEN e.claims ELSE Linked(e.claims, {o.criterion}, o.id, o.status)
           S      == ToSet(e.evals)
<1>0. e.evals \in Seq(S) /\ n \in Nat /\ DOMAIN e.evals = 1..n
  BY DEF Whole
<1>a. new.id = o.id
  OBVIOUS
<1>1. d = [e EXCEPT !.evals = evals, !.claims = claims]
  <2>1. CASE o.criterion = NoId
    BY <2>1 DEF WithArtifact, Whole
  <2>2. CASE o.criterion # NoId
    BY <2>2 DEF WithArtifact, Whole
  <2> QED
    BY <2>1, <2>2
<1>2. WholeClaims(claims)
  BY LinkedFacts DEF Whole, LinkEffect
<1>3. \A t \in Targets : claims[t].cites = e.claims[t].cites \/ claims[t].cites = e.claims[t].cites \cup {o.id}
  <2>1. CASE o.criterion = NoId
    BY <2>1
  <2>2. CASE o.criterion # NoId
    <3>1. LinkEffect(e.claims, {o.criterion}, o.id, claims)
      BY <2>2, LinkedFacts DEF Whole
    <3> HIDE DEF claims
    <3> QED
      BY <3>1 DEF LinkEffect
  <2> QED
    BY <2>1, <2>2
<1>4. /\ evals \in Seq(S \cup {new})
      /\ DOMAIN e.evals \subseteq DOMAIN evals
      /\ \A i \in DOMAIN e.evals : evals[i] = IF e.evals[i].id = o.id THEN new ELSE e.evals[i]
      /\ \A i \in DOMAIN evals : i \notin DOMAIN e.evals => evals[i] = new
      /\ EvaluationAt(e, o.id) = {} => DOMAIN evals = 1..(n + 1)
      /\ EvaluationAt(e, o.id) # {} => DOMAIN evals = 1..n
  <2> HIDE DEF S, new
  <2>1. CASE EvaluationAt(e, o.id) = {}
    <3>1. \A i \in DOMAIN e.evals : e.evals[i].id # o.id
      BY <2>1 DEF EvaluationAt
    <3>2. e.evals \in Seq(S \cup {new})
      BY <1>0
    <3>3. /\ evals \in Seq(S \cup {new}) /\ DOMAIN evals = 1..(n + 1)
          /\ \A i \in 1..n : evals[i] = e.evals[i]
          /\ evals[n + 1] = new
      BY <2>1, <3>2, <1>0
    <3> QED
      BY <2>1, <3>1, <3>3, <1>0
  <2>2. CASE EvaluationAt(e, o.id) # {}
    <3>1. evals = [i \in 1..n |-> IF e.evals[i].id = o.id THEN new ELSE e.evals[i]]
      BY <2>2, <1>0
    <3>2. \A i \in 1..n : e.evals[i] \in S
      BY <1>0
    <3> HIDE DEF n, evals
    <3>3. \A i \in 1..n : (IF e.evals[i].id = o.id THEN new ELSE e.evals[i]) \in S \cup {new}
      BY <3>2
    <3>4. evals \in [1..n -> S \cup {new}]
      BY <3>1, <3>3
    <3> QED
      BY <2>2, <3>1, <3>4, <1>0
  <2> QED
    BY <2>1, <2>2
<1>5. {evals[i].id : i \in DOMAIN evals} = {e.evals[i].id : i \in DOMAIN e.evals} \cup {o.id}
  <2> HIDE DEF evals, new
  <2>1. CASE EvaluationAt(e, o.id) = {}
    <3>1. n + 1 \in DOMAIN evals /\ evals[n + 1] = new /\ \A i \in DOMAIN evals : i \in DOMAIN e.evals \/ i = n + 1
      BY <1>0, <1>4, <2>1
    <3>2. \A i \in DOMAIN e.evals : e.evals[i].id # o.id
      BY <2>1 DEF EvaluationAt
    <3> HIDE DEF n
    <3> QED
      BY <1>4, <1>a, <3>1, <3>2
  <2>2. CASE EvaluationAt(e, o.id) # {}
    <3>1. DOMAIN evals = DOMAIN e.evals
      BY <1>0, <1>4, <2>2
    <3>2. PICK k \in DOMAIN e.evals : e.evals[k].id = o.id
      BY <2>2 DEF EvaluationAt
    <3>3. evals[k] = new
      BY <1>4, <3>2
    <3> QED
      BY <1>4, <1>a, <3>1, <3>2, <3>3
  <2> QED
    BY <2>1, <2>2
<1>6. \A i, j \in DOMAIN evals : evals[i].id = evals[j].id => i = j
  <2> HIDE DEF evals, new
  <2>0. \A i, j \in DOMAIN e.evals : e.evals[i].id = e.evals[j].id => i = j
    BY DEF Whole
  <2>1. CASE EvaluationAt(e, o.id) = {}
    <3>1. \A i \in DOMAIN e.evals : evals[i].id # o.id /\ evals[i] = e.evals[i]
      BY <2>1, <1>4 DEF EvaluationAt
    <3>2. \A i \in DOMAIN evals : i \in DOMAIN e.evals \/ (i = n + 1 /\ evals[i].id = o.id)
      BY <1>0, <1>4, <1>a, <2>1
    <3> HIDE DEF n
    <3> QED
      BY <2>0, <3>1, <3>2
  <2>2. CASE EvaluationAt(e, o.id) # {}
    <3>1. DOMAIN evals = DOMAIN e.evals
      BY <1>0, <1>4, <2>2
    <3>2. \A i \in DOMAIN e.evals : evals[i].id = e.evals[i].id
      BY <1>4, <1>a
    <3> QED
      BY <2>0, <3>1, <3>2
  <2> QED
    BY <2>1, <2>2
<1>7. evals \in Seq(ToSet(evals))
  <2> HIDE DEF evals, S, new
  <2>1. DOMAIN evals = 1..Len(evals) /\ Len(evals) \in Nat /\ evals = [i \in 1..Len(evals) |-> evals[i]]
    BY <1>4
  <2>2. \A i \in 1..Len(evals) : evals[i] \in ToSet(evals)
    BY <2>1 DEF ToSet
  <2> QED
    BY <2>1, <2>2
<1>8. \A i \in DOMAIN evals : evals[i].id \in IdsOf("artifact")
  <2>1. o.id \in IdsOf("artifact")
    BY DEF IdsOf
  <2>2. \A i \in DOMAIN e.evals : e.evals[i].id \in IdsOf("artifact")
    BY DEF Whole
  <2> HIDE DEF evals, new
  <2> QED
    BY <2>1, <2>2, <1>4, <1>a
<1>9. /\ \A i \in DOMAIN evals : evals[i].id # o.id => i \in DOMAIN e.evals /\ evals[i] = e.evals[i]
      /\ \A i \in DOMAIN e.evals : e.evals[i].id # o.id => i \in DOMAIN evals /\ evals[i] = e.evals[i]
  <2> HIDE DEF evals, new
  <2> QED
    BY <1>4, <1>a
<1> HIDE DEF evals, claims
<1>10. d = [round |-> e.round, head |-> e.head, wall |-> e.wall, obs |-> e.obs,
            metrics |-> e.metrics, evals |-> evals, claims |-> claims]
  BY <1>1 DEF Whole
<1>11. /\ d.round = e.round /\ d.head = e.head /\ d.wall = e.wall /\ d.obs = e.obs
       /\ d.metrics = e.metrics /\ d.evals = evals /\ d.claims = claims
  BY <1>10
<1>12. Whole(d)
  BY <1>2, <1>6, <1>7, <1>8, <1>10, <1>11 DEF Whole
<1>13. /\ {d.evals[i].id : i \in DOMAIN d.evals} = {e.evals[i].id : i \in DOMAIN e.evals} \cup {o.id}
       /\ \A i \in DOMAIN d.evals : d.evals[i].id # o.id => i \in DOMAIN e.evals /\ d.evals[i] = e.evals[i]
       /\ \A i \in DOMAIN e.evals : e.evals[i].id # o.id => i \in DOMAIN d.evals /\ d.evals[i] = e.evals[i]
  <2>1. d.evals = evals
    BY <1>11
  <2> QED
    BY <1>5, <1>9, <2>1, ZenonT(40)
<1>14. \A t \in Targets : d.claims[t].cites = e.claims[t].cites \/ d.claims[t].cites = e.claims[t].cites \cup {o.id}
  BY <1>3, <1>11
<1> QED
  BY <1>11, <1>12, <1>13, <1>14 DEF ArtifactEffect

-----------------------------------------------------------------------------
(* What is stored under an id, whatever its kind.                          *)
LEMMA StoredFacts ==
  ASSUME NEW e, Whole(e)
  PROVE  /\ \A id \in DOMAIN e.obs :
              Stored(e, id) = e.obs[id] /\ EvaluationAt(e, id) = {} /\ id \notin DOMAIN e.metrics
         /\ \A id \in DOMAIN e.metrics :
              Stored(e, id) = e.metrics[id] /\ EvaluationAt(e, id) = {} /\ id \notin DOMAIN e.obs
         /\ \A i \in DOMAIN e.evals :
              /\ Stored(e, e.evals[i].id) = e.evals[i] /\ EvaluationAt(e, e.evals[i].id) = {i}
              /\ e.evals[i].id \notin DOMAIN e.obs \cup DOMAIN e.metrics
<1>1. /\ IdsOf("command") \cap IdsOf("metric") = {} /\ IdsOf("command") \cap IdsOf("artifact") = {}
      /\ IdsOf("metric") \cap IdsOf("artifact") = {}
  BY KindsApart
<1>2. ASSUME NEW i \in DOMAIN e.evals PROVE EvaluationAt(e, e.evals[i].id) = {i}
  BY DEF Whole, EvaluationAt
<1>3. ASSUME NEW i \in DOMAIN e.evals
      PROVE  /\ Stored(e, e.evals[i].id) = e.evals[i]
             /\ e.evals[i].id \notin DOMAIN e.obs \cup DOMAIN e.metrics
  <2>1. e.evals[i].id \notin DOMAIN e.obs \cup DOMAIN e.metrics
    BY <1>1 DEF Whole
  <2>2. (CHOOSE j \in EvaluationAt(e, e.evals[i].id) : TRUE) = i
    BY <1>2
  <2> QED
    BY <2>1, <2>2 DEF Stored
<1>4. ASSUME NEW id \in DOMAIN e.obs
      PROVE  Stored(e, id) = e.obs[id] /\ EvaluationAt(e, id) = {} /\ id \notin DOMAIN e.metrics
  BY <1>1 DEF Whole, Stored, EvaluationAt
<1>5. ASSUME NEW id \in DOMAIN e.metrics
      PROVE  Stored(e, id) = e.metrics[id] /\ EvaluationAt(e, id) = {} /\ id \notin DOMAIN e.obs
  BY <1>1 DEF Whole, Stored, EvaluationAt
<1> QED
  BY <1>2, <1>3, <1>4, <1>5

(* Evidence with the same items has the same of them under each id.        *)
LEMMA SameItems ==
  ASSUME NEW e, NEW d, d.obs = e.obs, d.metrics = e.metrics, d.evals = e.evals
  PROVE  InFile(d) = InFile(e) /\ \A id : Stored(d, id) = Stored(e, id)
  BY DEF InFile, Stored, EvaluationAt

(* A recording is in the file under its id, and what is there under other  *)
(* ids stays what it was.                                                  *)
LEMMA RecordedFacts ==
  ASSUME NEW e, Whole(e), WellCited(e), NEW o \in Ops,
         NEW d, d = Recorded(e, o)
  PROVE  /\ Whole(d) /\ WellCited(d)
         /\ d.round = e.round
         /\ InFile(d) = InFile(e) \cup {o.id}
         /\ \A id \in InFile(e) \ {o.id} : Stored(d, id) = Stored(e, id)
<1>1. IsOp(o)
  BY OpsAssumption
<1>2. CASE o.kind = "command"
  <2>1. d = WithCommand(e, o)
    BY <1>2 DEF Recorded
  <2>2. /\ Whole(d) /\ d.round = e.round /\ d.metrics = e.metrics /\ d.evals = e.evals
        /\ DOMAIN d.obs = DOMAIN e.obs \cup {o.id}
        /\ \A id \in DOMAIN e.obs \ {o.id} : d.obs[id] = e.obs[id]
        /\ d.claims = Linked(e.claims, o.links, o.id, IF o.ok THEN "pass" ELSE "fail")
    <3>1. CommandEffect(e, o, d)
      BY <1>2, <2>1, CommandFacts
    <3> QED
      BY <3>1 DEF CommandEffect
  <2>3. \A t \in Targets : d.claims[t].cites = (IF t \in o.links THEN e.claims[t].cites \cup {o.id} ELSE e.claims[t].cites)
    <3>1. LinkEffect(e.claims, o.links, o.id, d.claims)
      BY <2>2, LinkedFacts DEF Whole
    <3> QED
      BY <3>1 DEF LinkEffect
  <2>4. o.id \notin DOMAIN d.metrics
    BY <2>2, StoredFacts
  <2>5. InFile(d) = InFile(e) \cup {o.id}
    BY <2>2 DEF InFile
  <2>6. WellCited(d)
    <3> SUFFICES ASSUME NEW t \in Targets
                 PROVE  /\ d.claims[t].cites \subseteq InFile(d)
                        /\ t \notin Checked \ Hard => d.claims[t].cites \cap DOMAIN d.metrics = {}
      BY DEF WellCited
    <3>1. /\ e.claims[t].cites \subseteq InFile(e)
          /\ t \notin Checked \ Hard => e.claims[t].cites \cap DOMAIN e.metrics = {}
      BY DEF WellCited
    <3>2. d.claims[t].cites \subseteq e.claims[t].cites \cup {o.id}
      BY <2>3
    <3> QED
      BY <2>2, <2>4, <2>5, <3>1, <3>2
  <2>7. \A id \in InFile(e) \ {o.id} : Stored(d, id) = Stored(e, id)
    BY <2>2 DEF Stored, EvaluationAt
  <2> QED
    BY <2>1, <2>2, <2>5, <2>6, <2>7
<1>3. CASE o.kind = "metric"
  <2>1. d = WithMetric(e, o)
    BY <1>3 DEF Recorded
  <2>2. /\ Whole(d) /\ d.round = e.round /\ d.obs = e.obs /\ d.evals = e.evals
        /\ DOMAIN d.metrics = DOMAIN e.metrics \cup {o.id}
        /\ \A id \in DOMAIN e.metrics \ {o.id} : d.metrics[id] = e.metrics[id]
        /\ \A t \in Targets : d.claims[t].cites = (IF t = o.criterion THEN e.claims[t].cites \cup {o.id} ELSE e.claims[t].cites)
    <3>1. MetricEffect(e, o, d)
      BY <1>3, <2>1, MetricFacts
    <3> QED
      BY <3>1 DEF MetricEffect
  <2>3. o.criterion \in Checked \ Hard
    BY <1>1, <1>3 DEF IsOp
  <2>4. o.id \notin DOMAIN e.obs /\ \A i \in DOMAIN e.evals : e.evals[i].id # o.id
    <3>1. o.id \in DOMAIN d.metrics
      BY <2>2
    <3> QED
      BY <2>2, <3>1, StoredFacts
  <2>5. InFile(d) = InFile(e) \cup {o.id}
    BY <2>2 DEF InFile
  <2>6. WellCited(d)
    <3> SUFFICES ASSUME NEW t \in Targets
                 PROVE  /\ d.claims[t].cites \subseteq InFile(d)
                        /\ t \notin Checked \ Hard => d.claims[t].cites \cap DOMAIN d.metrics = {}
      BY DEF WellCited
    <3>1. /\ e.claims[t].cites \subseteq InFile(e)
          /\ t \notin Checked \ Hard => e.claims[t].cites \cap DOMAIN e.metrics = {}
      BY DEF WellCited
    <3>2. d.claims[t].cites \subseteq e.claims[t].cites \cup {o.id}
      BY <2>2
    <3>3. ASSUME t \notin Checked \ Hard PROVE d.claims[t].cites = e.claims[t].cites /\ o.id \notin e.claims[t].cites
      <4>1. t # o.criterion
        BY <2>3, <3>3
      <4>2. d.claims[t].cites = e.claims[t].cites
        BY <2>2, <4>1
      <4>3. o.id \notin InFile(e) \ DOMAIN e.metrics
        BY <2>4 DEF InFile
      <4> QED
        BY <3>1, <3>3, <4>2, <4>3
    <3> QED
      BY <2>2, <2>5, <3>1, <3>2, <3>3
  <2>7. \A id \in InFile(e) \ {o.id} : Stored(d, id) = Stored(e, id)
    BY <2>2 DEF Stored, EvaluationAt
  <2> QED
    BY <2>1, <2>2, <2>5, <2>6, <2>7
<1>4. CASE o.kind = "artifact"
  <2>1. d = WithArtifact(e, o)
    BY <1>4 DEF Recorded
  <2>2. /\ Whole(d) /\ d.round = e.round /\ d.head = e.head /\ d.wall = e.wall
        /\ d.obs = e.obs /\ d.metrics = e.metrics
        /\ {d.evals[i].id : i \in DOMAIN d.evals} = {e.evals[i].id : i \in DOMAIN e.evals} \cup {o.id}
        /\ \A i \in DOMAIN d.evals : d.evals[i].id # o.id => i \in DOMAIN e.evals /\ d.evals[i] = e.evals[i]
        /\ \A i \in DOMAIN e.evals : e.evals[i].id # o.id => i \in DOMAIN d.evals /\ d.evals[i] = e.evals[i]
        /\ \A t \in Targets : d.claims[t].cites = e.claims[t].cites \/ d.claims[t].cites = e.claims[t].cites \cup {o.id}
    <3>1. ArtifactEffect(e, o, d)
      BY <1>4, <2>1, ArtifactFacts
    <3> QED
      BY <3>1 DEF ArtifactEffect
  <2>4. o.id \notin DOMAIN d.metrics
    <3>1. o.id \in {d.evals[i].id : i \in DOMAIN d.evals}
      BY <2>2
    <3> QED
      BY <2>2, <3>1, StoredFacts
  <2>5. InFile(d) = InFile(e) \cup {o.id}
    BY <2>2 DEF InFile
  <2>6. WellCited(d)
    <3> SUFFICES ASSUME NEW t \in Targets
                 PROVE  /\ d.claims[t].cites \subseteq InFile(d)
                        /\ t \notin Checked \ Hard => d.claims[t].cites \cap DOMAIN d.metrics = {}
      BY DEF WellCited
    <3>1. /\ e.claims[t].cites \subseteq InFile(e)
          /\ t \notin Checked \ Hard => e.claims[t].cites \cap DOMAIN e.metrics = {}
      BY DEF WellCited
    <3>2. d.claims[t].cites \subseteq e.claims[t].cites \cup {o.id}
      BY <2>2
    <3> QED
      BY <2>2, <2>4, <2>5, <3>1, <3>2
  <2>7. ASSUME NEW id \in InFile(e) \ {o.id} PROVE Stored(d, id) = Stored(e, id)
    <3>1. CASE id \in DOMAIN e.obs \cup DOMAIN e.metrics
      BY <2>2, <3>1 DEF Stored
    <3>2. CASE id \notin DOMAIN e.obs \cup DOMAIN e.metrics
      <4>1. PICK i \in DOMAIN e.evals : e.evals[i].id = id
        BY <3>2 DEF InFile
      <4>2. i \in DOMAIN d.evals /\ d.evals[i] = e.evals[i]
        BY <2>2, <4>1
      <4>3. Stored(e, e.evals[i].id) = e.evals[i]
        BY StoredFacts
      <4>4. Stored(d, d.evals[i].id) = d.evals[i]
        BY <2>2, <4>2, StoredFacts
      <4> QED
        BY <4>1, <4>2, <4>3, <4>4
    <3> QED
      BY <3>1, <3>2
  <2> QED
    BY <2>1, <2>2, <2>5, <2>6, <2>7
<1> QED
  BY <1>1, <1>2, <1>3, <1>4 DEF IsOp

LEMMA TemplateFacts ==
  ASSUME NEW round, NEW head, NEW e, e = Template(round, head)
  PROVE  Whole(e) /\ WellCited(e) /\ e.round = round /\ InFile(e) = {}
<1> DEFINE claims == [t \in Targets |-> [status |-> "unknown", head |-> head, cites |-> {}]]
<1>1. e = [round |-> round, head |-> head, wall |-> 0, obs |-> <<>>, metrics |-> <<>>,
           evals |-> <<>>, claims |-> claims]
  BY DEF Template
<1>2. WholeClaims(claims) /\ \A t \in Targets : claims[t].cites = {}
  BY DEF WholeClaims, WholeClaim
<1> HIDE DEF claims
<1>3. /\ e.round = round /\ e.head = head /\ e.wall = 0 /\ e.obs = <<>> /\ e.metrics = <<>>
      /\ e.evals = <<>> /\ e.claims = claims
  BY <1>1
<1>4. Whole(e)
  BY <1>1, <1>2, <1>3 DEF Whole
<1>5. InFile(e) = {}
  BY <1>3 DEF InFile
<1>6. WellCited(e)
  BY <1>2, <1>3 DEF WellCited
<1> QED
  BY <1>3, <1>4, <1>5, <1>6

(* The builder changes heads and statuses, and none of the items.          *)
EditEffect(e, d) ==
  /\ Whole(d) /\ WellCited(d) /\ d.round = e.round /\ d.wall = e.wall /\ d.obs = e.obs
  /\ InFile(d) = InFile(e) /\ \A id : Stored(d, id) = Stored(e, id)

LEMMA EditFacts ==
  ASSUME NEW e, Whole(e), WellCited(e), NEW d, NEW head, NEW claims, WholeClaims(claims),
         \A t \in Targets : claims[t].cites = e.claims[t].cites,
         d = [e EXCEPT !.head = head, !.claims = claims]
  PROVE  EditEffect(e, d)
<1>1. d = [round |-> e.round, head |-> head, wall |-> e.wall, obs |-> e.obs,
           metrics |-> e.metrics, evals |-> e.evals, claims |-> claims]
  BY DEF Whole
<1>2. /\ d.round = e.round /\ d.head = head /\ d.wall = e.wall /\ d.obs = e.obs
      /\ d.metrics = e.metrics /\ d.evals = e.evals /\ d.claims = claims
  BY <1>1
<1>3. Whole(d)
  BY <1>1, <1>2 DEF Whole
<1>4. InFile(d) = InFile(e) /\ \A id : Stored(d, id) = Stored(e, id)
  BY <1>2, SameItems
<1>5. WellCited(d)
  BY <1>2, <1>4 DEF WellCited
<1> QED
  BY <1>2, <1>3, <1>4, <1>5 DEF EditEffect

-----------------------------------------------------------------------------
(* The recorded time is that of the commands that are there.               *)
Timed(e) ==
  /\ IsFiniteSet(DOMAIN e.obs) /\ \A o \in DOMAIN e.obs : e.obs[o].ms \in Int
  /\ e.wall = TotalTime(e.obs)

LEMMA TimedTemplate ==
  ASSUME NEW round, NEW head, NEW e, e = Template(round, head)
  PROVE  Timed(e)
<1>1. e.obs = <<>> /\ e.wall = 0 /\ DOMAIN e.obs = {} /\ IsFiniteSet(DOMAIN e.obs)
  BY FS_EmptySet DEF Template
<1>2. PICK g : Adds(g, e.obs, DOMAIN e.obs) /\ TotalTime(e.obs) = g[DOMAIN e.obs]
  BY <1>1, TotalAdds
<1> QED
  BY <1>1, <1>2 DEF Timed, Adds

LEMMA TimedRecorded ==
  ASSUME NEW e, Whole(e), Timed(e), NEW o \in Ops, NEW d, d = Recorded(e, o)
  PROVE  Timed(d)
<1>1. IsOp(o)
  BY OpsAssumption
<1>2. CASE o.kind = "command"
  <2> DEFINE item == [ok |-> o.ok, ms |-> o.ms, head |-> e.head]
  <2>1. CommandEffect(e, o, d)
    BY <1>2, CommandFacts DEF Recorded
  <2>2. /\ d.wall = e.wall + o.ms - (IF o.id \in DOMAIN e.obs THEN e.obs[o.id].ms ELSE 0)
        /\ d.obs = Put(e.obs, o.id, item)
    BY <2>1 DEF CommandEffect, PriorDuration
  <2>3. item.ms = o.ms /\ o.ms \in Int
    BY <1>1, <1>2 DEF IsOp
  <2> HIDE DEF item
  <2>4. /\ IsFiniteSet(DOMAIN d.obs) /\ \A k \in DOMAIN d.obs : d.obs[k].ms \in Int
        /\ TotalTime(d.obs) = TotalTime(e.obs) + o.ms - (IF o.id \in DOMAIN e.obs THEN e.obs[o.id].ms ELSE 0)
    BY <2>2, <2>3, PutTime DEF Timed
  <2> QED
    BY <2>2, <2>4 DEF Timed
<1>3. CASE o.kind = "metric"
  <2>1. MetricEffect(e, o, d)
    BY <1>3, MetricFacts DEF Recorded
  <2> QED
    BY <2>1 DEF MetricEffect, Timed
<1>4. CASE o.kind = "artifact"
  <2>1. ArtifactEffect(e, o, d)
    BY <1>4, ArtifactFacts DEF Recorded
  <2> QED
    BY <2>1 DEF ArtifactEffect, Timed
<1> QED
  BY <1>1, <1>2, <1>3, <1>4 DEF IsOp

-----------------------------------------------------------------------------
(* Where recorders are, and what they hold there.                          *)
Stages == {"idle", "open", "name", "judge", "takeover", "load", "read", "write", "unlock", "dead"}

Shapes ==
  /\ scene \in Scenes
  /\ pc \in [Procs -> Stages]
  /\ op = [p \in Procs |-> op[p]] /\ copy = [p \in Procs |-> copy[p]]
  /\ runs = [id \in Ids |-> runs[id]]
  /\ lock \in [owner: Procs, named: BOOLEAN, old: BOOLEAN] \cup {NoLock}
  /\ crashes \in Nat /\ (crashes # 0 => scene.deaths # 0)
  /\ \A p \in Procs : /\ pc[p] = "dead" => crashes # 0
                      /\ pc[p] # "idle" => p \in scene.procs
                      /\ pc[p] \notin {"idle", "dead"} => op[p] \in Ops

(* Any evidence that somebody has read is as good as the file is.          *)
Sound(e) == Whole(e) /\ WellCited(e) /\ Timed(e)

Files ==
  /\ Sound(file)
  /\ \A p \in Procs : pc[p] = "write" => Sound(copy[p])
  /\ audit # "idle" => Sound(held)

(* Of what the recorders and the file are made, nothing changes.           *)
Quiet == UNCHANGED <<scene, file, lock, pc, op, copy, crashes, runs, expected>>

Edits == EditHead \/ EditClaim

LEMMA Steps ==
  ASSUME [Next]_vars
  PROVE  \/ Quiet
         \/ WriteTemplate \/ Edits \/ Age
         \/ \E p \in Procs : Begin(p) \/ Recorder(p) \/ Crash(p)
<1>1. CASE UNCHANGED vars
  BY <1>1 DEF vars, recorderVars, history, Quiet
<1>2. CASE Issue \/ ReadEvidence \/ LoadForAudit \/ JudgeFailed \/ AppendUnjudged
  BY <1>2 DEF Issue, ReadEvidence, LoadForAudit, JudgeFailed, AppendUnjudged,
              recorderVars, history, Quiet
<1>3. CASE AppendJudged \/ AskElsewhere \/ Dismiss \/ Judging
  BY <1>3 DEF AppendJudged, AskElsewhere, Dismiss, Judging, recorderVars, history, Quiet
<1> QED
  BY <1>1, <1>2, <1>3 DEF Next, Edits

LEMMA EditSteps ==
  ASSUME Sound(file), Edits
  PROVE  /\ Sound(file') /\ file'.round = file.round /\ file'.wall = file.wall /\ file'.obs = file.obs
         /\ InFile(file') = InFile(file) /\ \A id : Stored(file', id) = Stored(file, id)
         /\ UNCHANGED <<scene, lock, recorderVars, auditVars, history>>
<1>1. WholeClaims(file.claims) /\ Whole(file) /\ WellCited(file)
  BY DEF Sound, Whole
<1>2. CASE EditHead
  <2>1. PICK h \in scene.heads, edited \in BOOLEAN :
          file' = [file EXCEPT !.head = h,
                     !.claims = [t \in Targets |-> IF edited THEN [file.claims[t] EXCEPT !.head = h]
                                                  ELSE file.claims[t]]]
    BY <1>2 DEF EditHead
  <2> DEFINE claims == [t \in Targets |-> IF edited THEN [file.claims[t] EXCEPT !.head = h] ELSE file.claims[t]]
  <2>2. file' = [file EXCEPT !.head = h, !.claims = claims]
    BY <2>1
  <2>3. ASSUME NEW t \in Targets
        PROVE  WholeClaim(claims[t]) /\ claims[t].cites = file.claims[t].cites
    <3>1. WholeClaim(file.claims[t])
      BY <1>1 DEF WholeClaims
    <3> DEFINE c == file.claims[t]
    <3>2. [c EXCEPT !.head = h] = [status |-> c.status, head |-> h, cites |-> c.cites]
      BY <3>1 DEF WholeClaim
    <3> QED
      BY <3>1, <3>2 DEF WholeClaim
  <2>4. WholeClaims(claims)
    BY <2>3 DEF WholeClaims
  <2> HIDE DEF claims
  <2> QED
    <3>1. EditEffect(file, file')
      BY <1>1, <2>2, <2>3, <2>4, EditFacts
    <3>2. UNCHANGED <<scene, lock, recorderVars, auditVars, history>>
      BY <1>2 DEF EditHead
    <3> QED
      BY <3>1, <3>2 DEF EditEffect, Sound, Timed
<1>3. CASE EditClaim
  <2>1. PICK u : file' = [file EXCEPT !.claims[u].status = "pass"]
    BY <1>3 DEF EditClaim
  <2> DEFINE claims == [file.claims EXCEPT ![u].status = "pass"]
  <2>2. file' = [file EXCEPT !.head = file.head, !.claims = claims]
    BY <1>1, <2>1 DEF Whole
  <2>3. ASSUME NEW t \in Targets
        PROVE  WholeClaim(claims[t]) /\ claims[t].cites = file.claims[t].cites
    <3>1. WholeClaim(file.claims[t])
      BY <1>1 DEF WholeClaims
    <3> DEFINE c == file.claims[t]
    <3>2. [c EXCEPT !.status = "pass"] = [status |-> "pass", head |-> c.head, cites |-> c.cites]
      BY <3>1 DEF WholeClaim
    <3>3. file.claims = [v \in Targets |-> file.claims[v]]
      BY <1>1 DEF WholeClaims
    <3>4. claims[t] = IF t = u THEN [c EXCEPT !.status = "pass"] ELSE c
      BY <3>3
    <3> HIDE DEF claims
    <3> QED
      BY <3>1, <3>2, <3>4 DEF WholeClaim
  <2>4. WholeClaims(claims)
    <3>1. file.claims = [v \in Targets |-> file.claims[v]]
      BY <1>1 DEF WholeClaims
    <3>2. claims = [v \in Targets |-> claims[v]]
      BY <3>1
    <3> HIDE DEF claims
    <3> QED
      BY <2>3, <3>2 DEF WholeClaims
  <2> HIDE DEF claims
  <2> QED
    <3>1. EditEffect(file, file')
      BY <1>1, <2>2, <2>3, <2>4, EditFacts
    <3>2. UNCHANGED <<scene, lock, recorderVars, auditVars, history>>
      BY <1>3 DEF EditClaim
    <3> QED
      BY <3>1, <3>2 DEF EditEffect, Sound, Timed
<1> QED
  BY <1>2, <1>3 DEF Edits

LEMMA ShapesFirst == Init => Shapes
  BY DEF Init, Shapes, Stages

LEMMA ShapesNext ==
  ASSUME Shapes, [Next]_vars
  PROVE  Shapes'
<1> USE DEF Shapes, Stages
<1>1. CASE Quiet
  BY <1>1 DEF Quiet
<1>2. CASE WriteTemplate
  BY <1>2 DEF WriteTemplate, recorderVars
<1>3. CASE Edits
  BY <1>3 DEF Edits, EditHead, EditClaim, recorderVars, history
<1>4. CASE Age
  BY <1>4 DEF Age, recorderVars, history
<1>5. ASSUME NEW p \in Procs, Begin(p) PROVE Shapes'
  BY <1>5 DEF Begin, Goto, history, Ops
<1>6. ASSUME NEW p \in Procs, Recorder(p) PROVE Shapes'
  <2>0. /\ UNCHANGED <<scene, crashes>> /\ pc[p] \notin {"idle", "dead"}
        /\ p \in scene.procs /\ op[p] \in Ops /\ op[p].id \in Ids
    <3>1. UNCHANGED <<scene, crashes>> /\ pc[p] \notin {"idle", "dead"}
      BY <1>6 DEF Recorder, OpenLock, NameLock, NameLockFails, JudgeLock, TakeOver, LoadLoop, ReadFile,
                  WriteFile, WriteFails, Unlock, Goes, Ends
    <3> QED
      BY <3>1 DEF Ids
  <2>1. CASE OpenLock(p)
    <3>1. /\ lock' = lock \/ lock' = [owner |-> p, named |-> FALSE, old |-> FALSE]
          /\ pc' = [pc EXCEPT ![p] = "name"] \/ pc' = [pc EXCEPT ![p] = "judge"]
          /\ UNCHANGED <<op, copy, runs>>
      BY <2>1 DEF OpenLock, Goes, Goto, history
    <3>2. lock' \in [owner: Procs, named: BOOLEAN, old: BOOLEAN] \cup {NoLock}
      <4>1. [owner |-> p, named |-> FALSE, old |-> FALSE] \in [owner: Procs, named: BOOLEAN, old: BOOLEAN]
        OBVIOUS
      <4>2. lock \in [owner: Procs, named: BOOLEAN, old: BOOLEAN] \cup {NoLock}
        OBVIOUS
      <4> QED
        BY <3>1, <4>1, <4>2, Zenon
    <3> QED
      BY <2>0, <3>1, <3>2
  <2>2. CASE NameLock(p)
    BY <2>0, <2>2 DEF NameLock, Goes, Goto, history
  <2>3. CASE NameLockFails(p)
    BY <2>0, <2>3 DEF NameLockFails, Ends, Goto, history
  <2>4. CASE JudgeLock(p)
    BY <2>0, <2>4 DEF JudgeLock, Goes, Ends, Goto, history
  <2>5. CASE TakeOver(p)
    BY <2>0, <2>5 DEF TakeOver, Ends, Goto, history
  <2>6. CASE LoadLoop(p)
    BY <2>0, <2>6 DEF LoadLoop, Goto, history
  <2>7. CASE ReadFile(p)
    BY <2>0, <2>7 DEF ReadFile, Goto, history
  <2>8. CASE WriteFile(p) \/ WriteFails(p)
    BY <2>0, <2>8 DEF WriteFile, WriteFails, Goes, Goto, history
  <2>9. CASE Unlock(p)
    BY <2>0, <2>9 DEF Unlock, Ends, Goto, history
  <2> QED
    BY <1>6, <2>1, <2>2, <2>3, <2>4, <2>5, <2>6, <2>7, <2>8, <2>9 DEF Recorder
<1>7. ASSUME NEW p \in Procs, Crash(p) PROVE Shapes'
  <2>1. /\ pc[p] \notin {"idle", "dead"} /\ crashes < scene.deaths /\ crashes' = crashes + 1
        /\ pc' = [pc EXCEPT ![p] = "dead"] /\ UNCHANGED <<scene, lock, runs>>
        /\ op' = [op EXCEPT ![p] = NoOp] /\ copy' = [copy EXCEPT ![p] = NoRun]
    BY <1>7 DEF Crash, Goto, history
  <2>2. scene.deaths # 0 /\ crashes' \in Nat /\ crashes' # 0
    BY <2>1
  <2> QED
    BY <2>1, <2>2
<1> QED
  BY <1>1, <1>2, <1>3, <1>4, <1>5, <1>6, <1>7, Steps

(* What a recorder may do to the evidence: read it, write it, or neither.  *)
LEMMA RecorderSteps ==
  ASSUME Shapes, NEW p \in Procs, Begin(p) \/ Recorder(p) \/ Crash(p)
  PROVE  /\ UNCHANGED <<scene, auditVars>>
         /\ \A q \in Procs \ {p} : pc'[q] = pc[q] /\ copy'[q] = copy[q]
         /\ \/ WriteFile(p)
            \/ /\ UNCHANGED <<file, runs, expected>>
               /\ pc'[p] = "write" => copy'[p] = file
  BY DEF Shapes, Begin, Recorder, Crash, OpenLock, NameLock, NameLockFails, JudgeLock, TakeOver, LoadLoop,
         ReadFile, WriteFile, WriteFails, Unlock, Goes, Ends, Goto, history

(* Everybody writes what was sound when he read it.                        *)
LEMMA FilesNext ==
  ASSUME Shapes, Files, [Next]_vars
  PROVE  Files'
<1>0. /\ Sound(file) /\ \A p \in Procs : pc[p] = "write" => Sound(copy[p])
      /\ audit # "idle" => Sound(held)
  BY DEF Files
<1>1. CASE Quiet
  <2>1. file' = file /\ pc' = pc /\ copy' = copy
    BY <1>1 DEF Quiet
  <2>2. audit' # "idle" => held' = file \/ (held' = held /\ audit # "idle")
    BY DEF Next, vars, Issue, WriteTemplate, EditHead, EditClaim, Age, Begin, Recorder, OpenLock,
           NameLock, NameLockFails, JudgeLock, TakeOver, LoadLoop, ReadFile, WriteFile, WriteFails,
           Unlock, Crash, ReadEvidence, LoadForAudit, JudgeFailed, AppendUnjudged, AppendJudged,
           AskElsewhere, Dismiss, Judging, auditVars, AuditEnds, RecordAudit
  <2>3. audit' # "idle" => Sound(held')
    BY <1>0, <2>2
  <2> QED
    BY <1>0, <2>1, <2>3 DEF Files
<1>2. CASE WriteTemplate
  <2>1. PICK h : file' = Template(loop.round, h)
    BY <1>2 DEF WriteTemplate
  <2>2. Sound(file')
    BY <2>1, TemplateFacts, TimedTemplate DEF Sound
  <2> QED
    BY <1>0, <1>2, <2>2 DEF Files, WriteTemplate, recorderVars, auditVars
<1>3. CASE Edits
  <2>1. Sound(file') /\ UNCHANGED <<recorderVars, auditVars>>
    BY <1>0, <1>3, EditSteps
  <2> QED
    BY <1>0, <2>1 DEF Files, recorderVars, auditVars
<1>4. CASE Age
  BY <1>0, <1>4 DEF Files, Age, recorderVars, auditVars
<1>5. ASSUME NEW p \in Procs, Begin(p) \/ Recorder(p) \/ Crash(p) PROVE Files'
  <2>1. /\ UNCHANGED <<audit, held>>
        /\ \A q \in Procs \ {p} : pc'[q] = pc[q] /\ copy'[q] = copy[q]
        /\ WriteFile(p) \/ (UNCHANGED file /\ (pc'[p] = "write" => copy'[p] = file))
    BY <1>5, RecorderSteps DEF auditVars
  <2>2. CASE WriteFile(p)
    <3>1. pc[p] = "write" /\ file' = Recorded(copy[p], op[p]) /\ pc'[p] = "unlock" /\ op[p] \in Ops
      BY <2>2 DEF WriteFile, Goes, Goto, Shapes, Stages
    <3>2. Sound(file')
      BY <1>0, <3>1, RecordedFacts, TimedRecorded DEF Sound
    <3> QED
      BY <1>0, <2>1, <3>1, <3>2 DEF Files
  <2>3. CASE UNCHANGED file /\ (pc'[p] = "write" => copy'[p] = file)
    BY <1>0, <2>1, <2>3 DEF Files
  <2> QED
    BY <2>1, <2>2, <2>3
<1> QED
  BY <1>1, <1>2, <1>3, <1>4, <1>5, Steps

LEMMA FilesFirst == Init => Files
<1> SUFFICES ASSUME Init PROVE Files
  OBVIOUS
<1>1. PICK h : file = Template(1, h)
  BY DEF Init
<1>2. Sound(file)
  BY <1>1, TemplateFacts, TimedTemplate DEF Sound
<1>3. audit = "idle" /\ \A p \in Procs : pc[p] = "idle"
  BY DEF Init
<1> QED
  BY <1>2, <1>3 DEF Files

(* Claims cite what is there, ids are used once, and the recorded time is  *)
(* that of the commands, however often they were replaced: in every state, *)
(* for any number of recorders and deaths.                                 *)
THEOREM FileAlwaysValid == Spec => []FileStaysValid
<1> DEFINE J == Shapes /\ Files
<1>1. Init => J
  BY ShapesFirst, FilesFirst
<1>2. J /\ [Next]_vars => J'
  BY ShapesNext, FilesNext
<1>3. J => FileStaysValid
  BY DEF Files, Sound, Whole, WellCited, Timed, TotalTime, FileStaysValid
<1> HIDE DEF J
<1> QED
  BY <1>1, <1>2, <1>3, PTL DEF Spec

-----------------------------------------------------------------------------
(* With two recorders, or when none of them dies, the lock keeps them      *)
(* apart.  With three and a death it does not: two that have read the lock *)
(* of the dead one both take it over, the second from the first.           *)
FewRecorders(s) == s.deaths = 0 \/ \A a, b, c \in s.procs : a = b \/ b = c \/ a = c

Holding == {"name", "load", "read", "write", "unlock"}

(* Who holds the lock owns the file at its path; a lock is old only after  *)
(* the death of its owner; who takes a lock over is alone.                 *)
LockInv ==
  /\ \A p \in Procs : pc[p] \in Holding => lock # NoLock /\ lock.owner = p
  /\ lock # NoLock /\ lock.old => pc[lock.owner] = "dead"
  /\ \A p, q \in Procs : pc[p] = "takeover" /\ p # q /\ q \in scene.procs => pc[q] = "dead"

LEMMA LockFirst == Init => LockInv
  BY DEF Init, LockInv, Holding

LEMMA LockRecord ==
  ASSUME NEW p \in Procs, NEW named \in BOOLEAN, NEW old \in BOOLEAN,
         NEW l, l = [owner |-> p, named |-> named, old |-> old]
  PROVE  l # NoLock /\ l.owner = p /\ l.old = old
<1>1. l \in [owner: Procs, named: BOOLEAN, old: BOOLEAN]
  OBVIOUS
<1> QED
  BY <1>1, SceneAssumption

LEMMA LockNext ==
  ASSUME Shapes, LockInv, \A s \in Scenes : FewRecorders(s), [Next]_vars
  PROVE  LockInv'
<1> USE DEF LockInv, Holding
<1>0. /\ pc \in [Procs -> Stages] /\ scene \in Scenes /\ FewRecorders(scene)
      /\ \A q \in Procs : /\ pc[q] = "dead" => crashes # 0
                          /\ pc[q] # "idle" => q \in scene.procs
      /\ crashes # 0 => scene.deaths # 0
      /\ lock \in [owner: Procs, named: BOOLEAN, old: BOOLEAN] \cup {NoLock}
  BY DEF Shapes
<1>1. CASE Quiet
  BY <1>1 DEF Quiet
<1>2. CASE WriteTemplate
  BY <1>2 DEF WriteTemplate, recorderVars
<1>3. CASE Edits
  BY <1>3 DEF Edits, EditHead, EditClaim, recorderVars
<1>4. CASE Age
  <2>1. /\ lock # NoLock /\ pc[lock.owner] = "dead" /\ lock' = [lock EXCEPT !.old = TRUE]
        /\ UNCHANGED <<scene, pc>>
    BY <1>4 DEF Age, Alive, recorderVars
  <2>2. lock \in [owner: Procs, named: BOOLEAN, old: BOOLEAN]
    BY <1>0, <2>1
  <2>3. lock' = [owner |-> lock.owner, named |-> lock.named, old |-> TRUE]
    BY <2>1, <2>2
  <2>4. lock'.owner = lock.owner /\ lock' # NoLock
    BY <2>2, <2>3, LockRecord
  <2> QED
    BY <1>0, <2>1, <2>4
<1>5. ASSUME NEW p \in Procs, Begin(p) PROVE LockInv'
  <2>1. /\ pc[p] = "idle" /\ p \in scene.procs /\ pc' = [pc EXCEPT ![p] = "open"]
        /\ UNCHANGED <<scene, lock>>
    BY <1>5 DEF Begin, Goto
  <2>2. \A q \in Procs : pc[q] # "takeover"
    BY <2>1
  <2> QED
    BY <1>0, <2>1, <2>2
<1>6. ASSUME NEW p \in Procs, Recorder(p) PROVE LockInv'
  <2>1. /\ scene' = scene /\ pc[p] \notin {"idle", "dead"}
        /\ pc' = [pc EXCEPT ![p] = pc'[p]]
    BY <1>0, <1>6 DEF Recorder, OpenLock, NameLock, NameLockFails, JudgeLock, TakeOver, LoadLoop, ReadFile,
                WriteFile, WriteFails, Unlock, Goes, Ends, Goto
  <2>2. \A q \in Procs : q # p => pc'[q] = pc[q] /\ pc[q] # "takeover"
    BY <1>0, <2>1
  <2>3. ASSUME UNCHANGED lock, pc'[p] # "takeover", pc'[p] # "dead", pc'[p] \in Holding => pc[p] \in Holding
        PROVE  LockInv'
    BY <1>0, <2>1, <2>2, <2>3
  <2>4. ASSUME lock' = NoLock, pc'[p] \in {"idle", "open"}, \A q \in Procs : q # p => pc[q] \notin Holding
        PROVE  LockInv'
    BY <1>0, <2>1, <2>2, <2>4
  <2>5. CASE OpenLock(p)
    <3>1. CASE lock = NoLock
      <4>1. lock' = [owner |-> p, named |-> FALSE, old |-> FALSE] /\ pc'[p] = "name"
        BY <1>0, <2>5, <3>1 DEF OpenLock, Goes, Goto
      <4>2. lock' # NoLock /\ lock'.owner = p /\ ~lock'.old
        BY <4>1, LockRecord
      <4> QED
        BY <1>0, <2>1, <2>2, <3>1, <4>1, <4>2
    <3>2. CASE lock # NoLock
      BY <1>0, <2>3, <2>5, <3>2 DEF OpenLock, Goes, Goto
    <3> QED
      BY <3>1, <3>2
  <2>6. CASE NameLock(p)
    <3>1. pc[p] = "name" /\ pc'[p] = "load"
      BY <1>0, <2>6 DEF NameLock, Goes, Goto
    <3>2. lock # NoLock /\ lock.owner = p /\ lock' = [lock EXCEPT !.named = TRUE]
      BY <2>6, <3>1 DEF NameLock
    <3>3. lock' = [owner |-> p, named |-> TRUE, old |-> lock.old]
      BY <1>0, <3>2
    <3>4. lock' # NoLock /\ lock'.owner = p /\ lock'.old = lock.old
      BY ZenonT(40), <1>0, <3>2, <3>3, LockRecord
    <3> QED
      BY <1>0, <2>1, <2>2, <3>1, <3>2, <3>4
  <2>7. CASE NameLockFails(p) \/ Unlock(p)
    <3>1. pc[p] \in {"name", "unlock"} /\ lock' = NoLock /\ pc'[p] = "idle"
      BY <1>0, <2>7 DEF NameLockFails, Unlock, Ends, Goto
    <3>2. lock.owner = p
      BY <3>1
    <3> QED
      BY <2>4, <3>1, <3>2
  <2>8. CASE JudgeLock(p)
    <3>1. lock' = lock /\ pc'[p] \in {"idle", "takeover"}
      BY <1>0, <2>8 DEF JudgeLock, Goes, Ends, Goto
    <3>2. CASE pc'[p] = "idle"
      BY <2>3, <3>1, <3>2
    <3>3. CASE pc'[p] = "takeover"
      <4>1. LockStale
        BY <1>0, <2>8, <3>3 DEF JudgeLock, Ends, Goto
      <4>2. lock # NoLock /\ pc[lock.owner] = "dead" /\ lock.owner \in Procs
        BY <1>0, <4>1 DEF LockStale, Alive
      <4>3. crashes # 0 /\ lock.owner \in scene.procs /\ lock.owner # p
        BY <1>0, <2>1, <4>2
      <4>4. \A a, b, c \in scene.procs : a = b \/ b = c \/ a = c
        BY <1>0, <4>3 DEF FewRecorders
      <4>5. p \in scene.procs
        BY <1>0, <2>1
      <4>6. ASSUME NEW q \in scene.procs, q # p PROVE q = lock.owner
        BY <4>3, <4>4, <4>5, <4>6
      <4> QED
        BY <1>0, <2>1, <2>2, <3>1, <3>3, <4>2, <4>6
    <3> QED
      BY <3>1, <3>2, <3>3
  <2>9. CASE TakeOver(p)
    <3>1. \A q \in Procs : q # p => pc[q] \in {"idle", "dead"}
      BY <1>0, <2>9 DEF TakeOver
    <3>2. lock' = NoLock /\ pc'[p] \in {"idle", "open"}
      BY <1>0, <2>9 DEF TakeOver, Ends, Goto
    <3> QED
      BY <2>4, <3>1, <3>2
  <2>10. CASE LoadLoop(p) \/ ReadFile(p) \/ WriteFile(p) \/ WriteFails(p)
    BY <1>0, <2>3, <2>10 DEF LoadLoop, ReadFile, WriteFile, WriteFails, Goes, Goto
  <2> QED
    BY <1>6, <2>5, <2>6, <2>7, <2>8, <2>9, <2>10 DEF Recorder
<1>7. ASSUME NEW p \in Procs, Crash(p) PROVE LockInv'
  <2>1. pc' = [pc EXCEPT ![p] = "dead"] /\ UNCHANGED <<scene, lock>>
    BY <1>7 DEF Crash, Goto
  <2> QED
    BY <1>0, <2>1
<1> QED
  BY <1>1, <1>2, <1>3, <1>4, <1>5, <1>6, <1>7, Steps

-----------------------------------------------------------------------------
(* What is in the file, and in what a recorder is about to write, are the  *)
(* last recordings; nothing that was recorded since the template misses.   *)
HoldsLastRuns(e) ==
  /\ \A id \in InFile(e) : runs[id] = [round |-> e.round, item |-> Stored(e, id)]
  /\ file.round = e.round => expected \subseteq InFile(e)

LEMMA InFileIds ==
  ASSUME NEW e, Whole(e)
  PROVE  InFile(e) \subseteq Ids
  BY DEF Whole, InFile, IdsOf, Ids

RunsInv ==
  /\ HoldsLastRuns(file)
  /\ \A p \in Procs : pc[p] = "write" => HoldsLastRuns(copy[p])

LEMMA RunsFirst == Init => RunsInv
<1> SUFFICES ASSUME Init PROVE RunsInv
  OBVIOUS
<1>1. PICK h : file = Template(1, h)
  BY DEF Init
<1>2. InFile(file) = {} /\ expected = {}
  BY <1>1, TemplateFacts DEF Init
<1>3. \A p \in Procs : pc[p] = "idle"
  BY DEF Init
<1> QED
  BY <1>2, <1>3 DEF RunsInv, HoldsLastRuns

LEMMA RunsNext ==
  ASSUME Shapes, Files, LockInv, RunsInv, [Next]_vars
  PROVE  RunsInv'
<1>0. /\ HoldsLastRuns(file) /\ Sound(file) /\ pc \in [Procs -> Stages]
      /\ \A p \in Procs : pc[p] = "write" => HoldsLastRuns(copy[p]) /\ Sound(copy[p])
  BY DEF RunsInv, Files, Shapes
<1>1. CASE Quiet
  <2>1. /\ file' = file /\ pc' = pc /\ copy' = copy /\ runs' = runs /\ expected' = expected
    BY <1>1 DEF Quiet
  <2> QED
    BY <1>0, <2>1 DEF RunsInv, HoldsLastRuns
<1>2. CASE WriteTemplate
  <2>1. PICK h : file' = Template(loop.round, h)
    BY <1>2 DEF WriteTemplate
  <2>2. InFile(file') = {} /\ expected' = {} /\ runs' = runs /\ pc' = pc /\ copy' = copy
    BY <1>2, <2>1, TemplateFacts DEF WriteTemplate, recorderVars
  <2> QED
    BY <1>0, <2>2 DEF RunsInv, HoldsLastRuns
<1>3. CASE Edits
  <2>1. /\ file'.round = file.round /\ InFile(file') = InFile(file)
        /\ \A id : Stored(file', id) = Stored(file, id)
        /\ pc' = pc /\ copy' = copy /\ runs' = runs /\ expected' = expected
    BY <1>0, <1>3, EditSteps DEF recorderVars, history
  <2> QED
    BY <1>0, <2>1 DEF RunsInv, HoldsLastRuns
<1>4. CASE Age
  <2>1. /\ file' = file /\ pc' = pc /\ copy' = copy /\ runs' = runs /\ expected' = expected
    BY <1>4 DEF Age, recorderVars, history
  <2> QED
    BY <1>0, <2>1 DEF RunsInv, HoldsLastRuns
<1>5. ASSUME NEW p \in Procs, Begin(p) \/ Recorder(p) \/ Crash(p) PROVE RunsInv'
  <2>1. /\ \A q \in Procs \ {p} : pc'[q] = pc[q] /\ copy'[q] = copy[q]
        /\ \/ WriteFile(p)
           \/ UNCHANGED <<file, runs, expected>> /\ (pc'[p] = "write" => copy'[p] = file)
    BY <1>5, RecorderSteps
  <2>2. CASE WriteFile(p)
    <3> DEFINE id == op[p].id
    <3>1. /\ pc[p] = "write" /\ file' = Recorded(copy[p], op[p]) /\ pc'[p] = "unlock" /\ op[p] \in Ops
          /\ runs' = [runs EXCEPT ![id] = [round |-> file'.round, item |-> Stored(file', id)]]
          /\ expected' = IF file'.round = file.round THEN expected \cup {id} ELSE {id}
      BY <1>0, <2>2 DEF WriteFile, Goes, Goto, Shapes, Stages
    <3>2. \A q \in Procs \ {p} : pc'[q] # "write"
      BY <2>1, <3>1 DEF LockInv, Holding
    <3>3. /\ file'.round = copy[p].round /\ InFile(file') = InFile(copy[p]) \cup {id}
          /\ \A other \in InFile(copy[p]) \ {id} : Stored(file', other) = Stored(copy[p], other)
      BY <1>0, <3>1, RecordedFacts DEF Sound
    <3>4. id \in Ids /\ runs = [i \in Ids |-> runs[i]]
      BY <3>1 DEF Ids, Shapes
    <3>5. /\ runs'[id] = [round |-> file'.round, item |-> Stored(file', id)]
          /\ \A other \in Ids : other # id => runs'[other] = runs[other]
      BY <3>1, <3>4
    <3>7. InFile(copy[p]) \subseteq Ids
      BY <1>0, <3>1, InFileIds DEF Sound
    <3> HIDE DEF id
    <3>6. HoldsLastRuns(file)'
      BY <1>0, <3>1, <3>3, <3>5, <3>7 DEF HoldsLastRuns
    <3> QED
      BY <3>1, <3>2, <3>6 DEF RunsInv
  <2>3. CASE UNCHANGED <<file, runs, expected>> /\ (pc'[p] = "write" => copy'[p] = file)
    <3>1. ASSUME NEW q \in Procs, pc'[q] = "write" PROVE HoldsLastRuns(copy[q])'
      <4>1. HoldsLastRuns(copy'[q])
        BY <1>0, <2>1, <2>3, <3>1
      <4> QED
        BY <2>3, <4>1 DEF HoldsLastRuns
    <3>2. HoldsLastRuns(file)'
      BY <1>0, <2>3 DEF HoldsLastRuns
    <3> QED
      BY <3>1, <3>2 DEF RunsInv
  <2> QED
    BY <2>1, <2>2, <2>3
<1> QED
  BY <1>1, <1>2, <1>3, <1>4, <1>5, Steps

-----------------------------------------------------------------------------
(* What is good as it is stored in the evidence.                           *)
StoredClean(e, id) ==
  /\ id \in InFile(e) /\ Stored(e, id).head = e.head
  /\ id \in DOMAIN e.obs => Stored(e, id).ok
  /\ EvaluationAt(e, id) # {} => Stored(e, id).status = "pass"

(* What is good in the evidence that is audited had last been run clean    *)
(* when it was read.                                                       *)
HeldInv == audit # "idle" => \A id : StoredClean(held, id) => id \in clean

LEMMA HeldNext ==
  ASSUME Files, RunsInv, HeldInv, [Next]_vars
  PROVE  HeldInv'
<1>1. \/ audit' = "idle"
      \/ audit # "idle" /\ held' = held /\ clean' = clean
      \/ held' = file /\ clean' = {id \in Ids : RanClean(id)}
  BY DEF Next, vars, Issue, WriteTemplate, EditHead, EditClaim, Age, Begin, Recorder, OpenLock,
         NameLock, NameLockFails, JudgeLock, TakeOver, LoadLoop, ReadFile, WriteFile, WriteFails,
         Unlock, Crash, ReadEvidence, LoadForAudit, JudgeFailed, AppendUnjudged, AppendJudged,
         AskElsewhere, Dismiss, Judging, auditVars, AuditEnds, RecordAudit
<1>2. CASE audit' = "idle"
  BY <1>2 DEF HeldInv
<1>3. CASE audit # "idle" /\ held' = held /\ clean' = clean
  BY <1>3 DEF HeldInv
<1>4. CASE held' = file /\ clean' = {id \in Ids : RanClean(id)}
  <2>1. ASSUME NEW id, StoredClean(file, id) PROVE id \in Ids /\ RanClean(id)
    <3>1. id \in InFile(file) /\ id \in Ids
      BY <2>1, InFileIds DEF StoredClean, Files, Sound
    <3>2. runs[id] = [round |-> file.round, item |-> Stored(file, id)]
      BY <3>1 DEF RunsInv, HoldsLastRuns
    <3>3. runs[id].round = file.round /\ runs[id].item = Stored(file, id)
      BY <3>2
    <3> QED
      BY <2>1, <3>1, <3>3 DEF StoredClean, RanClean
  <2> QED
    BY <1>4, <2>1 DEF HeldInv
<1> QED
  BY <1>1, <1>2, <1>3, <1>4

(* What the auditor looks at is what is stored under an id.                *)
LEMMA CleanIsStored ==
  ASSUME NEW e, Whole(e)
  PROVE  /\ \A id : CleanCommand(e, id) => StoredClean(e, id)
         /\ \A id : CleanEvaluation(e, id) => StoredClean(e, id)
         /\ \A id \in DOMAIN e.metrics : e.metrics[id].head = e.head => StoredClean(e, id)
<1>1. ASSUME NEW id, CleanCommand(e, id) PROVE StoredClean(e, id)
  BY <1>1, StoredFacts DEF CleanCommand, StoredClean, InFile
<1>2. ASSUME NEW id, CleanEvaluation(e, id) PROVE StoredClean(e, id)
  <2>1. PICK i \in EvaluationAt(e, id) : e.evals[i].status = "pass" /\ e.evals[i].head = e.head
    BY <1>2 DEF CleanEvaluation
  <2>2. i \in DOMAIN e.evals /\ e.evals[i].id = id
    BY DEF EvaluationAt
  <2>3. Stored(e, id) = e.evals[i] /\ id \notin DOMAIN e.obs
    BY <2>2, StoredFacts
  <2> QED
    BY <2>1, <2>2, <2>3 DEF StoredClean, InFile
<1>3. ASSUME NEW id \in DOMAIN e.metrics, e.metrics[id].head = e.head PROVE StoredClean(e, id)
  BY <1>3, StoredFacts DEF StoredClean, InFile
<1> QED
  BY <1>1, <1>2, <1>3

(* What the audit must not leave open to pass a target.                    *)
LEMMA PassIsClean ==
  ASSUME NEW e, Sound(e), NEW t \in Targets \ Judged, ClassOf(e, t) \in {"unclaimed", "met"}
  PROVE  Proof(e, t) # {} /\ \A id \in Proof(e, t) : StoredClean(e, id)
<1>0. Whole(e) /\ WellCited(e)
  BY DEF Sound
<1>1. CASE t \in Hard
  <2>1. HardClass(e, t) \notin {"fail", "gap"}
    BY <1>1 DEF ClassOf
  <2>2. RequiredCommands[t] \subseteq DOMAIN e.obs /\ \A o \in RequiredCommands[t] : CleanCommand(e, o)
    BY <2>1 DEF HardClass
  <2> QED
    BY <1>0, <1>1, <2>2, CleanIsStored, RoundAssumption DEF Proof
<1>2. CASE t \in Checked \ Hard
  <2>1. MetricClass(e, t) \notin {"fail", "gap"}
    BY <1>2 DEF ClassOf
  <2>2. Qualified(e, t) # {}
    BY <2>1 DEF MetricClass
  <2> QED
    BY <1>0, <1>2, <2>2, CleanIsStored DEF Proof, Qualified
<1>3. CASE t \notin Checked
  <2>0. t \notin Hard
    BY <1>3, RoundAssumption
  <2>1. SurfaceClass(e, t) \notin {"fail", "gap"}
    BY <1>3, <2>0 DEF ClassOf
  <2>2. CitesClean(e, t) /\ e.claims[t].cites \ DOMAIN e.metrics # {}
    BY <2>1 DEF SurfaceClass
  <2>3. e.claims[t].cites \cap DOMAIN e.metrics = {}
    BY <1>0, <1>3 DEF WellCited
  <2>4. \A id \in e.claims[t].cites : CleanCommand(e, id) \/ CleanEvaluation(e, id)
    BY <2>2, <2>3 DEF CitesClean
  <2> QED
    BY <1>0, <1>3, <2>0, <2>2, <2>4, CleanIsStored DEF Proof
<1> QED
  BY <1>1, <1>2, <1>3

(* A target that may complete the loop cites clean evidence only.          *)
LEMMA MetIsClean ==
  ASSUME NEW e, Sound(e), NEW t \in Targets, ClassOf(e, t) = "met"
  PROVE  e.claims[t].cites # {} /\ \A id \in e.claims[t].cites : StoredClean(e, id)
<1>0. Whole(e) /\ WellCited(e)
  BY DEF Sound
<1>1. Proven(e, t) = "met"
  BY DEF ClassOf, HardClass, MetricClass, JudgedClass, SurfaceClass
<1>2. e.claims[t].cites # {} /\ CitesClean(e, t)
  BY <1>1 DEF Proven
<1>3. \A id \in e.claims[t].cites \ DOMAIN e.metrics : StoredClean(e, id)
  BY <1>0, <1>2, CleanIsStored DEF CitesClean
<1>4. ASSUME NEW id \in e.claims[t].cites \cap DOMAIN e.metrics PROVE StoredClean(e, id)
  <2>1. t \in Checked \ Hard
    BY <1>0 DEF WellCited
  <2>2. MetricClass(e, t) = "met"
    BY <2>1 DEF ClassOf
  <2>3. e.metrics[id].head = e.head
    BY <2>2 DEF MetricClass
  <2> QED
    BY <1>0, <2>3, CleanIsStored
<1> QED
  BY <1>2, <1>3, <1>4

-----------------------------------------------------------------------------
(* Under what has been read, an audit is recorded.                         *)
LEMMA AuditSteps ==
  ASSUME [Next]_vars, audited' # audited
  PROVE  /\ audit # "idle"
         /\ \E answers : LET ev == EvidenceHeld(answers)
                         IN  /\ audited' = Audit(ev)
                             /\ audited'.outcome = "completed" => CompletionGate(audited', ev)
<1>1. AppendUnjudged \/ AppendJudged
  BY DEF Next, vars, Issue, WriteTemplate, EditHead, EditClaim, Age, Begin, Recorder, OpenLock,
         NameLock, NameLockFails, JudgeLock, TakeOver, LoadLoop, ReadFile, WriteFile, WriteFails,
         Unlock, Crash, ReadEvidence, LoadForAudit, JudgeFailed,
         AskElsewhere, Dismiss, Judging, auditVars, AuditEnds
<1>2. audit # "idle" /\ \E answers : RecordAudit(answers)
  BY <1>1 DEF AppendUnjudged, AppendJudged
<1>3. PICK answers : RecordAudit(answers)
  BY <1>2
<1>4. /\ audited' = Audit(EvidenceHeld(answers))
      /\ audited'.outcome = "completed" => CompletionGate(audited', EvidenceHeld(answers))
  BY <1>3 DEF RecordAudit, AuditEnds
<1> QED
  BY <1>2, <1>4

(* A fresh pass was not carried, so that something was found.              *)
LEMMA FreshPass ==
  ASSUME NEW answers, NEW t \in Targets \ Judged,
         Audit(EvidenceHeld(answers)).criteria[t] = [status |-> "pass", freshness |-> "fresh"]
  PROVE  ClassOf(held, t) \in {"unclaimed", "met"}
<1> DEFINE ev == EvidenceHeld(answers)
           a  == Assessments(audited, ev)
           claim == ClassOf(held, t)
<1>1. ev.claims[t] = claim
  BY DEF EvidenceHeld
<1>2. a[t] = AssessRecorded(audited, t, claim)
  BY <1>1 DEF Assessments
<1>3. Audit(ev).criteria[t] = [status |-> a[t].status, freshness |-> a[t].freshness]
  BY DEF Audit
<1> HIDE DEF ev, a, claim
<1>4. a[t].status = "pass" /\ a[t].freshness = "fresh"
  BY <1>3 DEF ev
<1> SUFFICES claim \in {"unclaimed", "met"}
  BY DEF claim
<1> QED
  BY <1>2, <1>4 DEF AssessRecorded, FreshAssessment, CarriedAssessment

EvidenceInv == Shapes /\ Files /\ LockInv /\ RunsInv /\ HeldInv

LEMMA EvidenceInvariant ==
  ASSUME \A s \in Scenes : FewRecorders(s)
  PROVE  Spec => []EvidenceInv
<1>1. Init => EvidenceInv
  BY ShapesFirst, FilesFirst, LockFirst, RunsFirst DEF EvidenceInv, HeldInv, Init
<1>2. EvidenceInv /\ [Next]_vars => EvidenceInv'
  BY ShapesNext, FilesNext, LockNext, RunsNext, HeldNext DEF EvidenceInv
<1> QED
  BY <1>1, <1>2, PTL DEF Spec

(* The lock makes reading the evidence, running and writing one step for   *)
(* other recorders, of any number of which none dies, or of two: all that  *)
(* is in the file is the last recording under its id, and nothing recorded *)
(* since the template was written is missing.                              *)
THEOREM FileIsLastRuns ==
  ASSUME \A s \in Scenes : FewRecorders(s)
  PROVE  Spec => []FileHoldsLastRuns
<1>1. EvidenceInv => FileHoldsLastRuns
  BY DEF EvidenceInv, RunsInv, HoldsLastRuns, FileHoldsLastRuns
<1> QED
  BY <1>1, EvidenceInvariant, PTL

(* For all commands, samples, evaluations, heads and claims, however the   *)
(* builder edits the file and whatever recorders do during the audit: a    *)
(* target passes only if the last runs of what proves it passed.           *)
THEOREM PassesWereRun ==
  ASSUME \A s \in Scenes : FewRecorders(s)
  PROVE  Spec => PassWasRun
<1>1. ASSUME EvidenceInv, [Next]_vars, audited' # audited, NEW t \in Targets \ Judged,
             audited'.criteria[t] = [status |-> "pass", freshness |-> "fresh"]
      PROVE  Proof(held, t) # {} /\ Proof(held, t) \subseteq clean
  <2>1. audit # "idle" /\ \E answers : audited' = Audit(EvidenceHeld(answers))
    BY <1>1, AuditSteps
  <2>2. ClassOf(held, t) \in {"unclaimed", "met"}
    BY <1>1, <2>1, FreshPass
  <2>3. Sound(held) /\ \A id : StoredClean(held, id) => id \in clean
    BY <1>1, <2>1 DEF EvidenceInv, Files, HeldInv
  <2> QED
    BY <2>2, <2>3, PassIsClean
<1>2. EvidenceInv /\ [Next]_vars =>
        [audited' # audited =>
           \A t \in Targets \ Judged :
             audited'.criteria[t] = [status |-> "pass", freshness |-> "fresh"] =>
               /\ Proof(held, t) # {}
               /\ Proof(held, t) \subseteq clean]_vars
  BY <1>1
<1> QED
  BY <1>2, EvidenceInvariant, PTL DEF PassWasRun, Spec

(* A loop is completed only by evidence all of which, wherever a claim     *)
(* cites it, had last been run clean.                                      *)
THEOREM CompletionsWereRun ==
  ASSUME \A s \in Scenes : FewRecorders(s)
  PROVE  Spec => CompletionWasRun
<1>1. ASSUME EvidenceInv, [Next]_vars, audited' # audited, audited'.outcome = "completed",
             NEW t \in Targets
      PROVE  held.claims[t].cites # {} /\ held.claims[t].cites \subseteq clean
  <2>1. audit # "idle" /\ \E answers : CompletionGate(audited', EvidenceHeld(answers))
    BY <1>1, AuditSteps
  <2>2. ClassOf(held, t) = "met"
    BY <2>1 DEF CompletionGate, EvidenceHeld
  <2>3. Sound(held) /\ \A id : StoredClean(held, id) => id \in clean
    BY <1>1, <2>1 DEF EvidenceInv, Files, HeldInv
  <2> QED
    BY <2>2, <2>3, MetIsClean
<1>2. EvidenceInv /\ [Next]_vars =>
        [audited' # audited /\ audited'.outcome = "completed" =>
           \A t \in Targets : /\ held.claims[t].cites # {}
                              /\ held.claims[t].cites \subseteq clean]_vars
  BY <1>1
<1> QED
  BY <1>2, EvidenceInvariant, PTL DEF CompletionWasRun, Spec
=============================================================================
