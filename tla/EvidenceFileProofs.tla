------------------------- MODULE EvidenceFileProofs -------------------------
(***************************************************************************)
(* Proofs about EvidenceLedger and EvidenceFile, for any number of         *)
(* recorders, any number of deaths and whatever rename does.               *)
(*                                                                         *)
(* The ledger: a viable finalist is supported by evidence that is good as  *)
(* it stands, whatever was recorded and replaced before.                   *)
(* ViableIsSupported is not inductive: a packet that is not viable may     *)
(* have any statuses.  Passed says what holds of every packet: a claim     *)
(* that passes cites good evidence, or a command that fails, which is what *)
(* the replacement of a command leaves behind and what Decide rejects.     *)
(*                                                                         *)
(* The file: the lock is exclusive because only its owner, or the operator *)
(* after its owner's death, ever removes it; hence what a recorder has     *)
(* read is current when it writes; hence the file implements the ledger.   *)
(***************************************************************************)
EXTENDS EvidenceFile, FiniteSetTheorems, WellFoundedInduction, TLAPS

-----------------------------------------------------------------------------
(* The ledger.                                                             *)

Fields == {"obs", "metrics", "arts", "evals", "wall", "completed", "claims"}

(* What the proof needs to know of the packet's shape.                     *)
Shape ==
  /\ DOMAIN packet = Fields
  /\ DOMAIN packet.obs \subseteq Observations /\ DOMAIN packet.metrics \subseteq Metrics
  /\ DOMAIN packet.evals \subseteq Evaluations
  /\ packet.claims \in [Claims -> [status: Statuses, cites: SUBSET (Observations \cup Metrics \cup Evaluations)]]

Known == DOMAIN packet.obs \cup DOMAIN packet.metrics \cup DOMAIN packet.evals

(* References are to what is there.                                        *)
Referenced ==
  /\ \A c \in Claims : packet.claims[c].cites \subseteq Known
  /\ \A e \in DOMAIN packet.evals : packet.evals[e].arts \subseteq DOMAIN packet.arts

(* An evaluation that passes is about files that are good now.             *)
Evaluated ==
  \A e \in DOMAIN packet.evals :
    packet.evals[e].status = "pass" => \A a \in packet.evals[e].arts : packet.arts[a]

FailedCommand(id) == id \in DOMAIN packet.obs /\ ~packet.obs[id].ok

Passed ==
  \A c \in Claims :
    packet.claims[c].status = "pass" =>
      \E id \in packet.claims[c].cites : Supports(id) \/ FailedCommand(id)

PacketInv == Shape /\ Referenced /\ Evaluated /\ Passed

LEMMA InitPacket == PacketInit => PacketInv
  BY DEF PacketInit, Template, PacketInv, Shape, Fields, Referenced, Known, Evaluated, Passed, Statuses

(* A recorded command: what else supported a claim still does.             *)
LEMMA CommandStep ==
  ASSUME PacketInv, NEW o \in CommandOps, packet' = WithCommand(packet, o)
  PROVE  PacketInv'
<1> USE EvidenceIdsAssumption DEF PacketInv
<1> DEFINE S == Observations \cup Metrics \cup Evaluations
           status == PassOrFail(o.ok)
<1>1. o.id \in Observations /\ o.ok \in BOOLEAN /\ o.links \in SUBSET Claims
  BY DEF CommandOps
<1>2. /\ DOMAIN packet' = Fields
      /\ packet'.obs = Put(packet.obs, o.id, [ok |-> o.ok, ms |-> o.ms, required |-> o.required])
      /\ packet'.claims = Linked(packet.claims, o.links, o.id, status)
      /\ UNCHANGED <<packet.metrics, packet.arts, packet.evals>>
  BY DEF WithCommand, Shape, Fields
<1>3. status \in Statuses /\ (status = "pass" <=> o.ok)
  BY <1>1 DEF PassOrFail, Statuses
<1>4. /\ packet'.claims \in [Claims -> [status: Statuses, cites: SUBSET S]]
      /\ \A c \in o.links : /\ packet'.claims[c].status = status
                            /\ packet'.claims[c].cites = packet.claims[c].cites \cup {o.id}
      /\ \A c \in Claims \ o.links : packet'.claims[c] = packet.claims[c]
  <2>1. packet.claims \in [Claims -> [status: Statuses, cites: SUBSET S]] /\ o.id \in S
    BY <1>1 DEF Shape
  <2> QED
    BY <1>1, <1>2, <1>3, <2>1 DEF Linked
<1>5. /\ DOMAIN packet'.obs = DOMAIN packet.obs \cup {o.id}
      /\ packet'.obs[o.id] = [ok |-> o.ok, ms |-> o.ms, required |-> o.required]
      /\ \A k \in DOMAIN packet.obs : k # o.id => packet'.obs[k] = packet.obs[k]
  BY <1>2 DEF Put
<1>6. Shape'
  BY <1>1, <1>2, <1>4, <1>5 DEF Shape
<1>7. Referenced'
  BY <1>1, <1>2, <1>4, <1>5 DEF Referenced, Known
<1>8. Evaluated'
  BY <1>2 DEF Evaluated
<1>9. \A id \in S : id # o.id => (Supports(id)' <=> Supports(id)) /\ (FailedCommand(id)' <=> FailedCommand(id))
  BY <1>2, <1>5 DEF Supports, FailedCommand
<1>10. Supports(o.id)' \/ FailedCommand(o.id)'
  BY <1>5 DEF Supports, FailedCommand
<1>11. ASSUME NEW c \in Claims, packet'.claims[c].status = "pass"
       PROVE  \E id \in packet'.claims[c].cites : Supports(id)' \/ FailedCommand(id)'
  <2>1. CASE c \in o.links
    BY <2>1, <1>4, <1>10
  <2>2. CASE c \notin o.links
    <3>1. packet'.claims[c] = packet.claims[c] /\ packet.claims[c].cites \subseteq S
      BY <2>2, <1>4 DEF Shape
    <3>2. PICK id \in packet.claims[c].cites : Supports(id) \/ FailedCommand(id)
      BY <1>11, <3>1 DEF Passed
    <3> QED
      BY <3>1, <3>2, <1>9, <1>10
  <2> QED
    BY <2>1, <2>2
<1>12. Passed'
  BY <1>11 DEF Passed
<1> QED
  BY <1>6, <1>7, <1>8, <1>12

(* A recorded metric: claims that cite it get the result of the new        *)
(* samples; without a result there are none.                               *)
LEMMA MetricStep ==
  ASSUME PacketInv, NEW o \in MetricOps, o.result = "pass" => o.good,
         MetricAccepted(packet, o), packet' = WithMetric(packet, o)
  PROVE  PacketInv'
<1> USE EvidenceIdsAssumption DEF PacketInv
<1> DEFINE S == Observations \cup Metrics \cup Evaluations
           linked == o.links \cup Citing(packet, o.id)
<1>1. /\ o.id \in Metrics /\ o.good \in BOOLEAN /\ o.links \in SUBSET Claims
      /\ o.result \in Statuses \cup {NoId}
  BY DEF MetricOps
<1>2. /\ DOMAIN packet' = Fields
      /\ packet'.metrics = Put(packet.metrics, o.id, [criterion |-> o.criterion, good |-> o.good])
      /\ packet'.claims = IF o.result = NoId THEN packet.claims
                          ELSE Linked(packet.claims, linked, o.id, o.result)
      /\ UNCHANGED <<packet.obs, packet.arts, packet.evals>>
  BY DEF WithMetric, Shape, Fields
<1>3. linked \subseteq Claims /\ \A c \in Claims \ linked : o.id \notin packet.claims[c].cites
  BY <1>1 DEF Citing
<1>4. o.result = NoId => linked = {}
  <2>1. o.id \notin DOMAIN packet.metrics => Citing(packet, o.id) = {}
    BY <1>1 DEF Shape, Referenced, Known, Citing
  <2> QED
    BY <2>1 DEF MetricAccepted
<1>5. /\ packet'.claims \in [Claims -> [status: Statuses, cites: SUBSET S]]
      /\ \A c \in linked : /\ packet'.claims[c].status = o.result
                           /\ packet'.claims[c].cites = packet.claims[c].cites \cup {o.id}
      /\ \A c \in Claims \ linked : packet'.claims[c] = packet.claims[c]
  <2>1. packet.claims \in [Claims -> [status: Statuses, cites: SUBSET S]] /\ o.id \in S
    BY <1>1 DEF Shape
  <2>2. CASE o.result = NoId
    BY <1>2, <1>4, <2>1, <2>2
  <2>3. CASE o.result # NoId
    <3>1. o.result \in Statuses /\ packet'.claims = Linked(packet.claims, linked, o.id, o.result)
      BY <1>1, <1>2, <2>3
    <3> HIDE DEF linked
    <3> QED
      BY <1>3, <2>1, <3>1 DEF Linked
  <2> QED
    BY <2>2, <2>3
<1>6. /\ DOMAIN packet'.metrics = DOMAIN packet.metrics \cup {o.id}
      /\ packet'.metrics[o.id].good = o.good
      /\ \A k \in DOMAIN packet.metrics : k # o.id => packet'.metrics[k] = packet.metrics[k]
  BY <1>2 DEF Put
<1> HIDE DEF linked
<1>7. Shape'
  BY <1>1, <1>2, <1>5, <1>6 DEF Shape
<1>8. Referenced'
  BY <1>2, <1>3, <1>5, <1>6 DEF Referenced, Known
<1>9. Evaluated'
  BY <1>2 DEF Evaluated
<1>10. \A id \in S : id # o.id =>
         (Supports(id) => Supports(id)') /\ (FailedCommand(id) => FailedCommand(id)')
  BY <1>2, <1>6 DEF Supports, FailedCommand
<1>11. o.result = "pass" => Supports(o.id)'
  BY <1>6 DEF Supports
<1>12. ASSUME NEW c \in Claims, packet'.claims[c].status = "pass"
       PROVE  \E id \in packet'.claims[c].cites : Supports(id)' \/ FailedCommand(id)'
  <2>1. CASE c \in linked
    BY <1>12, <2>1, <1>5, <1>11
  <2>2. CASE c \notin linked
    <3>1. /\ packet'.claims[c] = packet.claims[c] /\ packet.claims[c].cites \subseteq S
          /\ o.id \notin packet.claims[c].cites
      BY <2>2, <1>3, <1>5 DEF Shape
    <3>2. PICK id \in packet.claims[c].cites : Supports(id) \/ FailedCommand(id)
      BY <1>12, <3>1 DEF Passed
    <3> QED
      BY <3>1, <3>2, <1>10
  <2> QED
    BY <2>1, <2>2
<1>13. Passed'
  BY <1>12 DEF Passed
<1> QED
  BY <1>7, <1>8, <1>9, <1>13

(* A recorded file: no evaluation of what it was before is left.           *)
LEMMA ArtifactStep ==
  ASSUME PacketInv, NEW o \in ArtifactOps, o.result = "pass" => o.good,
         ArtifactAccepted(packet, o), packet' = WithArtifact(packet, o)
  PROVE  PacketInv'
<1> USE EvidenceIdsAssumption DEF PacketInv
<1> DEFINE S == Observations \cup Metrics \cup Evaluations
           e == o.evaluation
<1>1. /\ o.id \in Artifacts /\ o.good \in BOOLEAN /\ o.links \in SUBSET Claims
      /\ o.result \in Statuses /\ e \in Evaluations \cup {NoId}
  BY DEF ArtifactOps
<1>2. /\ DOMAIN packet' = Fields
      /\ packet'.arts = Put(packet.arts, o.id, o.good)
      /\ UNCHANGED <<packet.obs, packet.metrics>>
  BY DEF WithArtifact, Shape, Fields
<1>3. /\ DOMAIN packet'.arts = DOMAIN packet.arts \cup {o.id}
      /\ packet'.arts[o.id] = o.good
      /\ \A a \in DOMAIN packet.arts : a # o.id => packet'.arts[a] = packet.arts[a]
  BY <1>2 DEF Put
<1>4. \A v \in DOMAIN packet.evals :
        v # e => \A a \in packet.evals[v].arts : a \in DOMAIN packet.arts /\ a # o.id
  <2> SUFFICES ASSUME NEW v \in DOMAIN packet.evals, v # e, NEW a \in packet.evals[v].arts
               PROVE  a \in DOMAIN packet.arts /\ a # o.id
    OBVIOUS
  <2>1. a \in DOMAIN packet.arts
    BY DEF Referenced
  <2>2. ASSUME a = o.id PROVE FALSE
    BY <2>1, <2>2 DEF ArtifactAccepted, PriorEvaluations
  <2> QED
    BY <2>1, <2>2
<1>5. ASSUME NEW v \in DOMAIN packet.evals, v # e, v \in DOMAIN packet'.evals,
             packet'.evals[v] = packet.evals[v]
      PROVE  /\ packet'.evals[v].arts \subseteq DOMAIN packet'.arts
             /\ packet'.evals[v].status = "pass" => \A a \in packet'.evals[v].arts : packet'.arts[a]
             /\ Supports(v) => Supports(v)'
  <2>1. \A a \in packet.evals[v].arts : a \in DOMAIN packet.arts /\ packet'.arts[a] = packet.arts[a]
    BY <1>3, <1>4, <1>5
  <2>2. packet'.evals[v].arts \subseteq DOMAIN packet'.arts
    BY <1>3, <1>5, <2>1
  <2>3. packet'.evals[v].status = "pass" => \A a \in packet'.evals[v].arts : packet'.arts[a]
    BY <1>5, <2>1 DEF Evaluated
  <2>4. v \notin DOMAIN packet.obs /\ v \notin DOMAIN packet.metrics
    BY DEF Shape
  <2> QED
    BY <1>5, <2>2, <2>3, <2>4 DEF Supports
<1>6. CASE e = NoId
  <2>1. /\ packet'.claims = packet.claims /\ packet'.evals = packet.evals
        /\ e \notin DOMAIN packet.evals
    BY <1>6 DEF WithArtifact, Shape, Fields
  <2>2. Shape'
    BY <1>2, <2>1 DEF Shape
  <2>3. Referenced'
    BY <1>2, <1>5, <2>1 DEF Referenced, Known
  <2>4. Evaluated'
    BY <1>5, <2>1 DEF Evaluated
  <2>5. \A id \in S : (Supports(id) => Supports(id)') /\ (FailedCommand(id) => FailedCommand(id)')
    <3>1. \A id \in DOMAIN packet.evals : Supports(id) => Supports(id)'
      BY <1>5, <2>1
    <3> QED
      BY <1>2, <2>1, <3>1 DEF Supports, FailedCommand
  <2>6. ASSUME NEW c \in Claims, packet'.claims[c].status = "pass"
        PROVE  \E id \in packet'.claims[c].cites : Supports(id)' \/ FailedCommand(id)'
    <3>1. packet.claims[c].cites \subseteq S
      BY DEF Shape
    <3>2. PICK id \in packet.claims[c].cites : Supports(id) \/ FailedCommand(id)
      BY <2>1, <2>6 DEF Passed
    <3> QED
      BY <2>1, <2>5, <3>1, <3>2
  <2> QED
    BY <2>2, <2>3, <2>4, <2>6 DEF Passed
<1>7. CASE e # NoId
  <2> DEFINE linked == o.links \cup Citing(packet, e)
  <2>1. /\ e \in Evaluations
        /\ packet'.evals = Put(packet.evals, e, [arts |-> {o.id}, status |-> o.result,
                                                criterion |-> EvaluationCriterion(packet, o)])
        /\ packet'.claims = Linked(packet.claims, linked, e, o.result)
    BY <1>1, <1>7 DEF WithArtifact, Shape, Fields
  <2>2. /\ DOMAIN packet'.evals = DOMAIN packet.evals \cup {e}
        /\ packet'.evals[e].arts = {o.id} /\ packet'.evals[e].status = o.result
        /\ \A v \in DOMAIN packet.evals : v # e => packet'.evals[v] = packet.evals[v]
    BY <2>1 DEF Put
  <2>3. linked \subseteq Claims /\ \A c \in Claims \ linked : e \notin packet.claims[c].cites
    BY <1>1 DEF Citing
  <2> HIDE DEF linked
  <2>4. /\ packet'.claims \in [Claims -> [status: Statuses, cites: SUBSET S]]
        /\ \A c \in linked : /\ packet'.claims[c].status = o.result
                             /\ packet'.claims[c].cites = packet.claims[c].cites \cup {e}
        /\ \A c \in Claims \ linked : packet'.claims[c] = packet.claims[c]
    <3>1. packet.claims \in [Claims -> [status: Statuses, cites: SUBSET S]] /\ e \in S
      BY <2>1 DEF Shape
    <3> HIDE DEF e
    <3> QED
      BY <1>1, <2>1, <2>3, <3>1 DEF Linked
  <2>5. Shape'
    BY <1>2, <2>1, <2>2, <2>4 DEF Shape
  <2>6. Referenced'
    <3>1. \A v \in DOMAIN packet'.evals : packet'.evals[v].arts \subseteq DOMAIN packet'.arts
      BY <1>3, <1>5, <2>2
    <3>2. \A c \in Claims : packet'.claims[c].cites \subseteq packet.claims[c].cites \cup {e}
      BY <2>3, <2>4
    <3> QED
      BY <1>2, <2>2, <3>1, <3>2 DEF Referenced, Known
  <2>7. Evaluated'
    BY <1>3, <1>5, <2>2 DEF Evaluated
  <2>8. \A id \in S : id # e =>
          (Supports(id) => Supports(id)') /\ (FailedCommand(id) => FailedCommand(id)')
    <3>1. \A id \in DOMAIN packet.evals : id # e => (Supports(id) => Supports(id)')
      BY <1>5, <2>2
    <3> QED
      BY <1>2, <2>2, <3>1 DEF Supports, FailedCommand
  <2>9. o.result = "pass" => Supports(e)'
    BY <1>3, <2>2 DEF Supports
  <2>10. ASSUME NEW c \in Claims, packet'.claims[c].status = "pass"
         PROVE  \E id \in packet'.claims[c].cites : Supports(id)' \/ FailedCommand(id)'
    <3>1. CASE c \in linked
      BY <2>10, <3>1, <2>4, <2>9
    <3>2. CASE c \notin linked
      <4>1. /\ packet'.claims[c] = packet.claims[c] /\ packet.claims[c].cites \subseteq S
            /\ e \notin packet.claims[c].cites
        BY <3>2, <2>3, <2>4 DEF Shape
      <4>2. PICK id \in packet.claims[c].cites : Supports(id) \/ FailedCommand(id)
        BY <2>10, <4>1 DEF Passed
      <4> QED
        BY <4>1, <4>2, <2>8
    <3> QED
      BY <3>1, <3>2
  <2> QED
    BY <2>5, <2>6, <2>7, <2>10 DEF Passed
<1> QED
  BY <1>6, <1>7

LEMMA StepPacket == PacketInv /\ [PacketNext]_packet => PacketInv'
<1> SUFFICES ASSUME PacketInv, [PacketNext]_packet PROVE PacketInv'
  OBVIOUS
<1>1. CASE UNCHANGED packet
  BY <1>1 DEF PacketInv, Shape, Referenced, Known, Evaluated, Passed, Supports, FailedCommand
<1>2. ASSUME NEW o \in Ops, RecordOp(o) PROVE PacketInv'
  <2>1. CASE o \in CommandOps
    <3>1. o.kind = "command" /\ packet' = WithCommand(packet, o)
      BY <1>2, <2>1 DEF RecordOp, Recorded, CommandOps
    <3> QED
      BY <2>1, <3>1, CommandStep
  <2>2. CASE o \in MetricOps
    <3>1. o.kind = "metric" /\ MetricAccepted(packet, o) /\ packet' = WithMetric(packet, o)
      BY <1>2, <2>2 DEF RecordOp, Accepts, Recorded, MetricOps
    <3> QED
      BY <2>2, <3>1, HonestAssumption, MetricStep
  <2>3. CASE o \in ArtifactOps
    <3>1. o.kind = "artifact" /\ ArtifactAccepted(packet, o) /\ packet' = WithArtifact(packet, o)
      BY <1>2, <2>3 DEF RecordOp, Accepts, Recorded, ArtifactOps
    <3> QED
      BY <2>3, <3>1, HonestAssumption, ArtifactStep
  <2> QED
    BY <2>1, <2>2, <2>3, OpsAssumption
<1> QED
  BY <1>1, <1>2 DEF PacketNext

LEMMA ViableFromInv == PacketInv => ViableIsSupported
<1> SUFFICES ASSUME PacketInv, PreparedStatus(packet) = "viable", NEW c \in Claims
             PROVE  \E id \in packet.claims[c].cites : Supports(id)
  BY DEF ViableIsSupported
<1>1. ~RejectedBy(packet) /\ ~IncompleteBy(packet)
  BY DEF PreparedStatus
<1>2. c \in Claims /\ packet.claims[c].status = "pass"
  BY <1>1 DEF RejectedBy, IncompleteBy, PacketInv, Shape, Statuses
<1>3. PICK id \in packet.claims[c].cites : Supports(id) \/ FailedCommand(id)
  BY <1>2 DEF PacketInv, Passed
<1>4. ~FailedCommand(id)
  BY <1>1, <1>3 DEF RejectedBy, RequiredCommands, Cited, FailedCommand
<1> QED
  BY <1>3, <1>4

(* Whatever is recorded and replaced, a finalist that prepareDecision      *)
(* calls viable has good evidence for each of its mandatory claims.        *)
THEOREM ViableSupported == PacketSpec => []ViableIsSupported
  BY InitPacket, StepPacket, ViableFromInv, PTL DEF PacketSpec

-----------------------------------------------------------------------------
(* Sums over finite sets, as FiniteSetsExt defines them: by a choice of    *)
(* the element to add next.  The sum does not depend on the choice.        *)
LEMMA SmallestSet ==
  ASSUME NEW S, IsFiniteSet(S), NEW bad \in SUBSET SUBSET S, bad # {}
  PROVE  \E A \in bad : \A B \in SUBSET A : B # A => B \notin bad
<1> DEFINE R == StrictSubsetOrdering(S)
<1>1. IsWellFoundedOn(R, SUBSET S)
  <2>1. FiniteSubsetsOf(S) = SUBSET S
    BY FS_FiniteSubsetsOfFinite
  <2>2. IsWellFoundedOn(R, FiniteSubsetsOf(S))
    BY FS_StrictSubsetOrderingWellFounded
  <2> QED
    BY <2>1, <2>2
<1>2. \A A, B \in SUBSET S : B \subseteq A /\ B # A => <<B, A>> \in R
  BY DEF StrictSubsetOrdering
<1> HIDE DEF R
<1>3. PICK A \in bad : \A B \in bad : ~(<<B, A>> \in R)
  BY <1>1, WFMin
<1> QED
  BY <1>2, <1>3

Some(s) == CHOOSE x \in s : TRUE

(* g has the sum of each subset of S, after FoldSet's definition; and as a *)
(* sum should be.                                                          *)
Folds(g, f, S) ==
  g = [s \in SUBSET S |-> IF s = {} THEN 0 ELSE f[Some(s)].ms + g[s \ {Some(s)}]]

Adds(g, f, S) ==
  /\ g[{}] = 0
  /\ \A s \in SUBSET S : g[s] \in Int /\ \A x \in s : g[s] = f[x].ms + g[s \ {x}]

LEMMA FoldsAt ==
  ASSUME NEW g, NEW f, NEW S, Folds(g, f, S)
  PROVE  /\ g[{}] = 0
         /\ \A s \in SUBSET S : s # {} =>
              /\ Some(s) \in s /\ s \ {Some(s)} \in SUBSET S /\ s \ {Some(s)} # s
              /\ g[s] = f[Some(s)].ms + g[s \ {Some(s)}]
<1> DEFINE h == [s \in SUBSET S |-> IF s = {} THEN 0 ELSE f[Some(s)].ms + g[s \ {Some(s)}]]
<1>1. g = h
  BY DEF Folds
<1>2. h[{}] = 0 /\ \A s \in SUBSET S : s # {} => h[s] = f[Some(s)].ms + g[s \ {Some(s)}]
  OBVIOUS
<1>3. \A s : s # {} => Some(s) \in s
  BY DEF Some
<1> HIDE DEF h
<1> QED
  BY <1>1, <1>2, <1>3

LEMMA FoldsUnique ==
  ASSUME NEW g, NEW h, NEW f, NEW S, IsFiniteSet(S), NEW T \in SUBSET S, Folds(g, f, S), Folds(h, f, T)
  PROVE  \A s \in SUBSET T : g[s] = h[s]
<1> DEFINE bad == {s \in SUBSET T : g[s] # h[s]}
<1> SUFFICES ASSUME bad # {} PROVE FALSE
  OBVIOUS
<1>1. bad \in SUBSET SUBSET S
  OBVIOUS
<1>2. PICK A \in bad : \A B \in SUBSET A : B # A => B \notin bad
  <2> HIDE DEF bad
  <2> QED
    BY <1>1, SmallestSet
<1>3. A # {}
  BY FoldsAt
<1>4. /\ Some(A) \in A /\ A \ {Some(A)} # A
      /\ g[A] = f[Some(A)].ms + g[A \ {Some(A)}] /\ h[A] = f[Some(A)].ms + h[A \ {Some(A)}]
  <2>1. A \in SUBSET T /\ A \in SUBSET S
    OBVIOUS
  <2> HIDE DEF bad
  <2>2. /\ Some(A) \in A /\ A \ {Some(A)} \in SUBSET S /\ A \ {Some(A)} # A
        /\ g[A] = f[Some(A)].ms + g[A \ {Some(A)}]
    BY <1>3, <2>1, FoldsAt
  <2>3. h[A] = f[Some(A)].ms + h[A \ {Some(A)}]
    BY <1>3, <2>1, FoldsAt
  <2> QED
    BY <2>2, <2>3
<1>5. g[A \ {Some(A)}] = h[A \ {Some(A)}]
  BY <1>2, <1>4
<1> QED
  BY <1>4, <1>5

LEMMA FoldsExist ==
  ASSUME NEW f, NEW S, IsFiniteSet(S)
  PROVE  \E g : Folds(g, f, S)
<1> DEFINE bad == {T \in SUBSET S : ~\E g : Folds(g, f, T)}
<1> SUFFICES ASSUME bad # {} PROVE FALSE
  OBVIOUS
<1>1. PICK T \in bad : \A B \in SUBSET T : B # T => B \notin bad
  <2>1. bad \in SUBSET SUBSET S
    OBVIOUS
  <2> HIDE DEF bad
  <2> QED
    BY <2>1, SmallestSet
<1> DEFINE F(s) == CHOOSE g : Folds(g, f, s)
           last == IF T = {} THEN 0 ELSE f[Some(T)].ms + F(T \ {Some(T)})[T \ {Some(T)}]
           h == [s \in SUBSET T |-> IF s = T THEN last ELSE F(s)[s]]
<1>2. ASSUME NEW s \in SUBSET T, s # T PROVE Folds(F(s), f, s) /\ IsFiniteSet(s)
  <2>1. \E g : Folds(g, f, s)
    BY <1>1, <1>2
  <2> QED
    BY <2>1, FS_Subset
<1> HIDE DEF F
<1>3. ASSUME NEW s \in SUBSET T
      PROVE  h[s] = IF s = {} THEN 0 ELSE f[Some(s)].ms + h[s \ {Some(s)}]
  <2>1. s # {} => Some(s) \in s
    BY DEF Some
  <2>2. CASE s = T
    BY <2>1, <2>2
  <2>3. CASE s # T /\ s = {}
    BY <1>2, <2>3, FoldsAt
  <2>4. CASE s # T /\ s # {}
    <3> DEFINE r == s \ {Some(s)}
    <3>1. r \in SUBSET s /\ r # T /\ r \in SUBSET T
      BY <2>1, <2>4
    <3>2. F(s)[s] = f[Some(s)].ms + F(s)[r]
      BY <1>2, <2>4, FoldsAt
    <3>3. F(s)[r] = F(r)[r]
      <4> HIDE DEF r
      <4> QED
        BY <1>2, <2>4, <3>1, FoldsUnique
    <3> QED
      BY <2>4, <3>1, <3>2, <3>3
  <2> QED
    BY <2>2, <2>3, <2>4
<1>4. Folds(h, f, T)
  <2>1. h = [s \in SUBSET T |-> h[s]]
    OBVIOUS
  <2> HIDE DEF h
  <2> QED
    BY <1>3, <2>1 DEF Folds
<1> QED
  BY <1>1, <1>4

(* Whatever is added first.                                                *)
LEMMA FoldsAdd ==
  ASSUME NEW g, NEW f, NEW S, IsFiniteSet(S), \A x \in S : f[x].ms \in Int, Folds(g, f, S)
  PROVE  Adds(g, f, S)
<1>1. \A s \in SUBSET S : g[s] \in Int
  <2> DEFINE bad == {s \in SUBSET S : g[s] \notin Int}
  <2> SUFFICES ASSUME bad # {} PROVE FALSE
    OBVIOUS
  <2>1. PICK A \in bad : \A B \in SUBSET A : B # A => B \notin bad
    <3>1. bad \in SUBSET SUBSET S
      OBVIOUS
    <3> HIDE DEF bad
    <3> QED
      BY <3>1, SmallestSet
  <2>2. A # {}
    <3>1. g[{}] = 0
      BY FoldsAt
    <3> QED
      BY <3>1
  <2>3. /\ Some(A) \in A /\ A \ {Some(A)} # A /\ A \ {Some(A)} \in SUBSET S
        /\ g[A] = f[Some(A)].ms + g[A \ {Some(A)}]
    BY <2>2, FoldsAt
  <2>4. g[A \ {Some(A)}] \in Int
    BY <2>1, <2>3
  <2> QED
    BY <2>3, <2>4
<1>2. \A s \in SUBSET S : \A x \in s : g[s] = f[x].ms + g[s \ {x}]
  <2> DEFINE bad == {s \in SUBSET S : \E x \in s : g[s] # f[x].ms + g[s \ {x}]}
  <2> SUFFICES ASSUME bad # {} PROVE FALSE
    OBVIOUS
  <2>1. PICK A \in bad : \A B \in SUBSET A : B # A => B \notin bad
    <3>1. bad \in SUBSET SUBSET S
      OBVIOUS
    <3> HIDE DEF bad
    <3> QED
      BY <3>1, SmallestSet
  <2>2. PICK x \in A : g[A] # f[x].ms + g[A \ {x}]
    OBVIOUS
  <2> DEFINE c == Some(A)
  <2>3. c \in A /\ g[A] = f[c].ms + g[A \ {c}]
    BY <2>2, FoldsAt
  <2>4. c # x
    BY <2>2, <2>3
  <2> HIDE DEF c
  <2>5. A \ {c} \notin bad /\ A \ {x} \notin bad
    BY <2>1, <2>2, <2>3
  <2>6. g[A \ {c}] = f[x].ms + g[(A \ {c}) \ {x}] /\ g[A \ {x}] = f[c].ms + g[(A \ {x}) \ {c}]
    BY <2>2, <2>3, <2>4, <2>5
  <2>7. (A \ {c}) \ {x} = (A \ {x}) \ {c} /\ (A \ {c}) \ {x} \in SUBSET S
    OBVIOUS
  <2>8. f[c].ms \in Int /\ f[x].ms \in Int /\ g[(A \ {c}) \ {x}] \in Int
    BY <1>1, <2>2, <2>3, <2>7
  <2> DEFINE rest == g[(A \ {c}) \ {x}]
  <2>9. g[A] = f[c].ms + (f[x].ms + rest) /\ g[A \ {x}] = f[c].ms + rest /\ rest \in Int
    BY <2>3, <2>6, <2>7, <2>8
  <2> HIDE DEF rest
  <2>10. g[A] = f[x].ms + g[A \ {x}]
    BY <2>8, <2>9
  <2> QED
    BY <2>2, <2>10
<1> QED
  BY <1>1, <1>2, FoldsAt DEF Adds

(* Sums of the same values are the same.                                   *)
LEMMA AddsAgree ==
  ASSUME NEW g, NEW f, NEW S, IsFiniteSet(S), Adds(g, f, S),
         NEW h, NEW d, NEW T, Adds(h, d, T),
         NEW U, U \subseteq S, U \subseteq T, \A x \in U : d[x] = f[x]
  PROVE  g[U] = h[U]
<1> DEFINE bad == {s \in SUBSET U : g[s] # h[s]}
<1> SUFFICES ASSUME bad # {} PROVE FALSE
  OBVIOUS
<1>1. PICK A \in bad : \A B \in SUBSET A : B # A => B \notin bad
  <2>1. bad \in SUBSET SUBSET S
    OBVIOUS
  <2> HIDE DEF bad
  <2> QED
    BY <2>1, SmallestSet
<1>2. PICK x \in A : TRUE
  BY DEF Adds
<1>3. g[A] = f[x].ms + g[A \ {x}] /\ h[A] = d[x].ms + h[A \ {x}]
  BY DEF Adds
<1>4. g[A \ {x}] = h[A \ {x}]
  BY <1>1, <1>2
<1> QED
  BY <1>1, <1>2, <1>3, <1>4

(* The time of all commands.                                               *)
TotalTime(obs) == MapThenSumSet(LAMBDA o : obs[o].ms, DOMAIN obs)

LEMMA TotalAdds ==
  ASSUME NEW obs, IsFiniteSet(DOMAIN obs), \A o \in DOMAIN obs : obs[o].ms \in Int
  PROVE  \E g : Adds(g, obs, DOMAIN obs) /\ TotalTime(obs) = g[DOMAIN obs]
<1> DEFINE g == CHOOSE h : Folds(h, obs, DOMAIN obs)
<1>1. Folds(g, obs, DOMAIN obs)
  BY FoldsExist
<1>2. TotalTime(obs) = g[DOMAIN obs]
  BY DEF TotalTime, MapThenSumSet, MapThenFoldSet, Folds, Some
<1> HIDE DEF g
<1> QED
  BY <1>1, <1>2, FoldsAdd

(* What a recorded command does to the time of all of them.                *)
LEMMA PutTime ==
  ASSUME NEW obs, IsFiniteSet(DOMAIN obs), \A o \in DOMAIN obs : obs[o].ms \in Int,
         NEW id, NEW item, item.ms \in Int, NEW new, new = Put(obs, id, item)
  PROVE  /\ IsFiniteSet(DOMAIN new) /\ \A o \in DOMAIN new : new[o].ms \in Int
         /\ TotalTime(obs) \in Int
         /\ TotalTime(new) = TotalTime(obs) + item.ms - (IF id \in DOMAIN obs THEN obs[id].ms ELSE 0)
<1>1. /\ DOMAIN new = DOMAIN obs \cup {id} /\ new[id] = item
      /\ \A o \in DOMAIN obs \ {id} : new[o] = obs[o]
  BY DEF Put
<1>2. IsFiniteSet(DOMAIN new) /\ \A o \in DOMAIN new : new[o].ms \in Int
  BY <1>1, FS_AddElement
<1>3. PICK g : Adds(g, obs, DOMAIN obs) /\ TotalTime(obs) = g[DOMAIN obs]
  BY TotalAdds
<1>4. PICK h : Adds(h, new, DOMAIN new) /\ TotalTime(new) = h[DOMAIN new]
  BY <1>2, TotalAdds
<1> DEFINE U == DOMAIN obs \ {id}
<1>5. U \subseteq DOMAIN obs /\ U \subseteq DOMAIN new /\ \A o \in U : new[o] = obs[o]
  BY <1>1
<1> HIDE DEF U
<1>6. g[U] = h[U]
  BY <1>3, <1>4, <1>5, AddsAgree
<1>7. h[DOMAIN new] = item.ms + h[U] /\ h[U] \in Int
  <2>1. id \in DOMAIN new /\ DOMAIN new \ {id} = U
    BY <1>1 DEF U
  <2>2. h[DOMAIN new] = new[id].ms + h[DOMAIN new \ {id}] /\ h[U] \in Int
    BY <1>4, <1>5, <2>1 DEF Adds
  <2> QED
    BY <1>1, <2>1, <2>2
<1>8. g[DOMAIN obs] = g[U] + (IF id \in DOMAIN obs THEN obs[id].ms ELSE 0)
  <2>1. CASE id \in DOMAIN obs
    <3>1. g[DOMAIN obs] = obs[id].ms + g[U] /\ g[U] \in Int
      BY <1>3, <2>1 DEF Adds, U
    <3> QED
      BY <2>1, <3>1
  <2>2. CASE id \notin DOMAIN obs
    <3>1. U = DOMAIN obs /\ g[U] \in Int
      BY <1>3, <2>2 DEF Adds, U
    <3> QED
      BY <2>2, <3>1
  <2> QED
    BY <2>1, <2>2
<1>9. g[DOMAIN obs] \in Int /\ g[U] \in Int
  BY <1>3, <1>5 DEF Adds
<1> QED
  BY <1>2, <1>3, <1>4, <1>6, <1>7, <1>8, <1>9

-----------------------------------------------------------------------------
(* The bundle stays acceptable: the recorded time is that of the commands  *)
(* that are there, and samples measure the requirements they are cited by. *)
Timed ==
  /\ IsFiniteSet(DOMAIN packet.obs) /\ \A o \in DOMAIN packet.obs : packet.obs[o].ms \in Int
  /\ packet.wall = TotalTime(packet.obs)

Measured ==
  \A r \in Requirements, m \in DOMAIN packet.metrics :
    m \in packet.claims[r].cites => packet.metrics[m].criterion = r

LedgerInv == PacketInv /\ Timed /\ Measured

LEMMA InitLedger == PacketInit => LedgerInv
<1> SUFFICES ASSUME PacketInit PROVE Timed /\ Measured
  BY InitPacket DEF LedgerInv
<1>1. packet.obs = <<>> /\ packet.wall = 0 /\ DOMAIN packet.obs = {} /\ IsFiniteSet(DOMAIN packet.obs)
  BY FS_EmptySet DEF PacketInit, Template
<1>2. PICK g : Adds(g, packet.obs, DOMAIN packet.obs) /\ TotalTime(packet.obs) = g[DOMAIN packet.obs]
  BY <1>1, TotalAdds
<1>3. Timed
  BY <1>1, <1>2 DEF Timed, Adds
<1>4. Measured
  BY DEF PacketInit, Template, Measured
<1> QED
  BY <1>3, <1>4

LEMMA CommandLedger ==
  ASSUME LedgerInv, NEW o \in CommandOps, packet' = WithCommand(packet, o)
  PROVE  Timed' /\ Measured'
<1> USE EvidenceIdsAssumption
<1> DEFINE item == [ok |-> o.ok, ms |-> o.ms, required |-> o.required]
<1>1. o.id \in Observations /\ o.ms \in Int /\ o.links \in SUBSET Claims
  BY DEF CommandOps
<1>2. /\ packet'.obs = Put(packet.obs, o.id, item)
      /\ packet'.wall = packet.wall + o.ms - PriorDuration(packet, o.id)
      /\ packet'.claims = Linked(packet.claims, o.links, o.id, PassOrFail(o.ok))
      /\ packet'.metrics = packet.metrics
  BY DEF WithCommand, LedgerInv, PacketInv, Shape, Fields
<1>3. item.ms = o.ms
  OBVIOUS
<1> HIDE DEF item
<1>4. /\ IsFiniteSet(DOMAIN packet'.obs) /\ \A k \in DOMAIN packet'.obs : packet'.obs[k].ms \in Int
      /\ TotalTime(packet'.obs) = TotalTime(packet.obs) + o.ms - PriorDuration(packet, o.id)
  BY <1>1, <1>2, <1>3, PutTime DEF LedgerInv, Timed, PriorDuration
<1>5. Timed'
  BY <1>2, <1>4 DEF LedgerInv, Timed
<1>6. ASSUME NEW r \in Requirements, NEW m \in DOMAIN packet.metrics, m \in packet'.claims[r].cites
      PROVE  m \in packet.claims[r].cites
  <2>1. m # o.id
    BY <1>1 DEF LedgerInv, PacketInv, Shape
  <2> QED
    BY <1>2, <1>6, <2>1 DEF Linked, Claims
<1>7. Measured'
  BY <1>2, <1>6 DEF LedgerInv, Measured
<1> QED
  BY <1>5, <1>7

LEMMA MetricLedger ==
  ASSUME LedgerInv, NEW o \in MetricOps, MetricAccepted(packet, o), packet' = WithMetric(packet, o)
  PROVE  Timed' /\ Measured'
<1> USE EvidenceIdsAssumption
<1> DEFINE linked == o.links \cup Citing(packet, o.id)
<1>1. o.id \in Metrics /\ o.links \in SUBSET Claims /\ o.criterion \in Requirements
  BY DEF MetricOps
<1>2. /\ packet'.metrics = Put(packet.metrics, o.id, [criterion |-> o.criterion, good |-> o.good])
      /\ packet'.claims = IF o.result = NoId THEN packet.claims
                          ELSE Linked(packet.claims, linked, o.id, o.result)
      /\ packet'.obs = packet.obs /\ packet'.wall = packet.wall
  BY DEF WithMetric, LedgerInv, PacketInv, Shape, Fields
<1>3. Timed'
  BY <1>2 DEF LedgerInv, Timed
<1>4. /\ DOMAIN packet'.metrics = DOMAIN packet.metrics \cup {o.id}
      /\ packet'.metrics[o.id].criterion = o.criterion
      /\ \A k \in DOMAIN packet.metrics : k # o.id => packet'.metrics[k] = packet.metrics[k]
  BY <1>2 DEF Put
<1>5. o.id \notin DOMAIN packet.metrics => Citing(packet, o.id) = {}
  BY <1>1 DEF LedgerInv, PacketInv, Shape, Referenced, Known, Citing
<1>6. ASSUME NEW r \in Requirements, r \in Citing(packet, o.id)
      PROVE  o.criterion = r /\ o.result # NoId
  <2>1. o.id \in DOMAIN packet.metrics
    BY <1>5, <1>6
  <2>2. o.id \in packet.claims[r].cites
    BY <1>6 DEF Citing
  <2>3. packet.metrics[o.id].criterion = r
    BY <2>1, <2>2 DEF LedgerInv, Measured
  <2> QED
    BY <1>6, <2>1, <2>3 DEF MetricAccepted
<1>7. ASSUME NEW r \in Requirements, r \in o.links PROVE o.criterion = r
  BY <1>7 DEF MetricAccepted
<1>8. ASSUME NEW r \in Requirements, NEW m \in DOMAIN packet'.metrics, m \in packet'.claims[r].cites
      PROVE  packet'.metrics[m].criterion = r
  <2>0. r \in Claims
    BY DEF Claims
  <2>1. CASE m # o.id
    <3>1. m \in packet.claims[r].cites
      BY <1>2, <1>8, <2>0, <2>1 DEF Linked
    <3> QED
      BY <1>4, <2>1, <3>1 DEF LedgerInv, Measured
  <2>2. CASE m = o.id
    <3>1. r \in linked
      <4>1. CASE m \in packet.claims[r].cites
        BY <2>0, <2>2, <4>1 DEF Citing
      <4>2. CASE m \notin packet.claims[r].cites
        <5> HIDE DEF linked
        <5> QED
          BY <1>2, <1>8, <2>0, <4>2 DEF Linked
      <4> QED
        BY <4>1, <4>2
    <3> QED
      BY <1>4, <1>6, <1>7, <2>2, <3>1
  <2> QED
    BY <2>1, <2>2
<1>9. Measured'
  BY <1>8 DEF Measured
<1> QED
  BY <1>3, <1>9

LEMMA ArtifactLedger ==
  ASSUME LedgerInv, NEW o \in ArtifactOps, packet' = WithArtifact(packet, o)
  PROVE  Timed' /\ Measured'
<1> USE EvidenceIdsAssumption
<1> DEFINE linked == o.links \cup Citing(packet, o.evaluation)
<1>1. o.evaluation \in Evaluations \cup {NoId}
  BY DEF ArtifactOps
<1>2. /\ packet'.claims = IF o.evaluation = NoId THEN packet.claims
                          ELSE Linked(packet.claims, linked, o.evaluation, o.result)
      /\ packet'.obs = packet.obs /\ packet'.wall = packet.wall /\ packet'.metrics = packet.metrics
  BY DEF WithArtifact, LedgerInv, PacketInv, Shape, Fields
<1>3. Timed'
  BY <1>2 DEF LedgerInv, Timed
<1>4. ASSUME NEW r \in Requirements, NEW m \in DOMAIN packet.metrics, m \in packet'.claims[r].cites
      PROVE  m \in packet.claims[r].cites
  <2>1. o.evaluation # NoId => m # o.evaluation
    BY <1>1 DEF LedgerInv, PacketInv, Shape
  <2> HIDE DEF linked
  <2> QED
    BY <1>2, <1>4, <2>1 DEF Linked, Claims
<1>5. packet'.metrics = packet.metrics
  BY <1>2
<1>6. ASSUME NEW r \in Requirements, NEW m \in DOMAIN packet'.metrics, m \in packet'.claims[r].cites
      PROVE  packet'.metrics[m].criterion = r
  <2>1. m \in packet.claims[r].cites
    BY <1>4, <1>5, <1>6
  <2> QED
    BY <1>5, <2>1 DEF LedgerInv, Measured
<1>7. Measured'
  BY <1>6 DEF Measured
<1> QED
  BY <1>3, <1>7

LEMMA StepLedgerInv == LedgerInv /\ [PacketNext]_packet => LedgerInv'
<1> SUFFICES ASSUME LedgerInv, [PacketNext]_packet PROVE Timed' /\ Measured'
  BY StepPacket DEF LedgerInv
<1>1. CASE UNCHANGED packet
  BY <1>1 DEF LedgerInv, Timed, Measured
<1>2. ASSUME NEW o \in Ops, RecordOp(o) PROVE Timed' /\ Measured'
  <2>1. CASE o \in CommandOps
    <3>1. packet' = WithCommand(packet, o)
      BY <1>2, <2>1 DEF RecordOp, Recorded, CommandOps
    <3> QED
      BY <2>1, <3>1, CommandLedger
  <2>2. CASE o \in MetricOps
    <3>1. MetricAccepted(packet, o) /\ packet' = WithMetric(packet, o)
      BY <1>2, <2>2 DEF RecordOp, Accepts, Recorded, MetricOps
    <3> QED
      BY <2>2, <3>1, MetricLedger
  <2>3. CASE o \in ArtifactOps
    <3>1. packet' = WithArtifact(packet, o)
      BY <1>2, <2>3 DEF RecordOp, Recorded, ArtifactOps
    <3> QED
      BY <2>3, <3>1, ArtifactLedger
  <2> QED
    BY <2>1, <2>2, <2>3, OpsAssumption
<1> QED
  BY <1>1, <1>2 DEF PacketNext

LEMMA ReadableFromInv == LedgerInv => BundleStaysReadable
<1> SUFFICES ASSUME LedgerInv PROVE BundleStaysReadable
  OBVIOUS
<1>1. ASSUME NEW c \in Claims
      PROVE  /\ packet.claims[c].cites \subseteq DOMAIN packet.obs \cup DOMAIN packet.metrics \cup DOMAIN packet.evals
             /\ packet.claims[c].status = "pass" => packet.claims[c].cites # {}
  BY DEF LedgerInv, PacketInv, Referenced, Known, Passed
<1>2. \A e \in DOMAIN packet.evals : packet.evals[e].arts \subseteq DOMAIN packet.arts
  BY DEF LedgerInv, PacketInv, Referenced
<1>3. packet.wall = CommandTime(packet) /\ packet.wall \in Int
  <2>1. PICK g : Adds(g, packet.obs, DOMAIN packet.obs) /\ TotalTime(packet.obs) = g[DOMAIN packet.obs]
    BY TotalAdds DEF LedgerInv, Timed
  <2>2. CommandTime(packet) = TotalTime(packet.obs)
    BY DEF CommandTime, TotalTime
  <2> QED
    BY <2>1, <2>2 DEF LedgerInv, Timed, Adds
<1>4. ~(packet.wall < CommandTime(packet))
  BY <1>3
<1>5. ~Contradicts(packet)
  BY <1>4 DEF Contradicts, LedgerInv, Measured
<1> QED
  BY <1>1, <1>2, <1>5 DEF BundleStaysReadable

(* Whatever is recorded and replaced, the bundle stays one that the schema *)
(* of evidence packets accepts and Decide does not refuse: citations are   *)
(* to evidence that is there, metrics are cited by their own criterion,    *)
(* and the recorded time is the sum of the commands'.                      *)
THEOREM BundleReadable == PacketSpec => []BundleStaysReadable
  BY InitLedger, StepLedgerInv, ReadableFromInv, PTL DEF PacketSpec

-----------------------------------------------------------------------------
(* The file.                                                               *)

(* The inductive invariant: its types, and CopyIsCurrent.                  *)
FileInv == TypeOK /\ CopyIsCurrent

LEMMA InitFile == Init => FileInv
  BY FileAssumption DEF Init, FileInv, TypeOK, CopyIsCurrent, Stages, Holding

(* A step of one recorder leaves the packet of everybody who holds the     *)
(* lock alone, unless it is the one that holds it.                         *)
LEMMA StepFile ==
  ASSUME FileInv, [Next]_vars
  PROVE  FileInv'
<1> USE FileAssumption DEF FileInv, TypeOK, CopyIsCurrent, Stages, Holding, Goto, Alive, Forget
<1>1. CASE UNCHANGED vars
  BY <1>1 DEF vars
<1>2. ASSUME NEW p \in Recorders, Begin(p) PROVE FileInv'
  BY <1>2 DEF Begin
<1>3. ASSUME NEW p \in Recorders, Run(p) PROVE FileInv'
  BY <1>3 DEF Run
<1>4. ASSUME NEW p \in Recorders, OpenLock(p) PROVE FileInv'
  BY <1>4 DEF OpenLock
<1>5. ASSUME NEW p \in Recorders, NameLock(p) PROVE FileInv'
  BY <1>5 DEF NameLock
<1>6. ASSUME NEW p \in Recorders, NameLockFails(p) PROVE FileInv'
  BY <1>6 DEF NameLockFails
<1>7. ASSUME NEW p \in Recorders, GiveUp(p) PROVE FileInv'
  BY <1>7 DEF GiveUp
<1>8. ASSUME NEW p \in Recorders, Read(p) PROVE FileInv'
  BY <1>8 DEF Read
<1>9. ASSUME NEW p \in Recorders, RenameOver(p) PROVE FileInv'
  BY <1>9 DEF RenameOver
<1>10. ASSUME NEW p \in Recorders, Unlink(p) PROVE FileInv'
  BY <1>10 DEF Unlink
<1>11. ASSUME NEW p \in Recorders, RenameBack(p) PROVE FileInv'
  BY <1>11 DEF RenameBack
<1>12. ASSUME NEW p \in Recorders, WriteFails(p) PROVE FileInv'
  BY <1>12 DEF WriteFails
<1>13. ASSUME NEW p \in Recorders, Release(p) PROVE FileInv'
  BY <1>13 DEF Release
<1>14. ASSUME NEW p \in Recorders, Crash(p) PROVE FileInv'
  BY <1>14 DEF Crash
<1>15. CASE RemoveLock
  BY <1>15 DEF RemoveLock
<1> QED
  BY <1>1, <1>2, <1>3, <1>4, <1>5, <1>6, <1>7, <1>8, <1>9, <1>10, <1>11, <1>12, <1>13, <1>14, <1>15
     DEF Next, Step

(* Types, at every reachable state.                                        *)
THEOREM FileTypes == Spec => []TypeOK
<1>1. FileInv => TypeOK
  BY DEF FileInv
<1> QED
  BY <1>1, InitFile, StepFile, PTL DEF Spec

(* The lock excludes, and what was read under it is current when it is     *)
(* written: withEvidenceBundleLock is a critical section.                  *)
THEOREM RecorderReadsCurrent == Spec => []CopyIsCurrent
<1>1. FileInv => CopyIsCurrent
  BY DEF FileInv
<1> QED
  BY <1>1, InitFile, StepFile, PTL DEF Spec

(* Each step of the file is a step of the ledger, or none.                 *)
LEMMA StepLedger ==
  ASSUME FileInv, [Next]_vars
  PROVE  [PacketNext]_packet
<1> USE DEF FileInv, TypeOK, CopyIsCurrent, Goto
<1>1. ASSUME NEW p \in Recorders, RenameOver(p) \/ RenameBack(p)
      PROVE  PacketNext
  <2>1. op[p] \in Ops /\ copy[p] = packet /\ Accepts(packet, op[p])
    BY <1>1 DEF RenameOver, RenameBack
  <2>2. packet' = Recorded(packet, op[p])
    BY <1>1, <2>1 DEF RenameOver, RenameBack
  <2> QED
    BY <2>1, <2>2 DEF PacketNext, RecordOp
<1>2. CASE UNCHANGED packet
  BY <1>2
<1>3. ASSUME NEW p \in Recorders, Begin(p) \/ Step(p) \/ Crash(p)
      PROVE  UNCHANGED packet \/ RenameOver(p) \/ RenameBack(p)
  BY <1>3 DEF Begin, Step, Crash, Run, OpenLock, NameLock, NameLockFails, GiveUp, Read, Unlink,
              WriteFails, Release, RenameOver, RenameBack
<1> QED
  BY <1>1, <1>2, <1>3 DEF Next, RemoveLock, vars

(* Concurrent evidence writes are serialized, for any number of recorders  *)
(* and wherever they die: the file implements the ledger.                  *)
THEOREM FileImplementsLedger == Spec => ImplementsLedger
<1>1. Init => PacketInit
  BY DEF Init
<1> QED
  BY <1>1, InitFile, StepFile, StepLedger, PTL DEF Spec, ImplementsLedger, PacketSpec

(* So what holds of every serial record of evidence holds of the file: a   *)
(* viable finalist is supported, however many recorders wrote and died.    *)
THEOREM FileViableSupported == Spec => []ViableIsSupported
  BY FileImplementsLedger, ViableSupported DEF ImplementsLedger

(* And the file that concurrent, dying recorders write stays readable.     *)
THEOREM FileBundleReadable == Spec => []BundleStaysReadable
  BY FileImplementsLedger, BundleReadable DEF ImplementsLedger
=============================================================================
