--------------------------- MODULE EvidenceLedger ---------------------------
(***************************************************************************)
(* What the evidence bundle promises its users (src/docs/WORKFLOW.md):     *)
(* recordings that are accepted take effect one after the other, each of   *)
(* them whole and on the packet that the ones before it left.              *)
(***************************************************************************)
EXTENDS EvidencePacket

CONSTANT Ops   \* what callers may record

VARIABLE packet

ASSUME OpsAssumption == Ops \subseteq CommandOps \cup MetricOps \cup ArtifactOps

(* Nobody declares a pass for samples or a file that are not good.         *)
ASSUME HonestAssumption ==
  \A op \in Ops : op.kind \in {"metric", "artifact"} /\ op.result = "pass" => op.good

PacketInit == packet = Template

RecordOp(op) == Accepts(packet, op) /\ packet' = Recorded(packet, op)

PacketNext == \E op \in Ops : RecordOp(op)

PacketSpec == PacketInit /\ [][PacketNext]_packet

-----------------------------------------------------------------------------
(* The good state of a piece of evidence as it is now.                     *)
Supports(id) ==
  \/ id \in DOMAIN packet.obs /\ packet.obs[id].ok
  \/ id \in DOMAIN packet.metrics /\ packet.metrics[id].good
  \/ /\ id \in DOMAIN packet.evals /\ packet.evals[id].status = "pass"
     /\ \A a \in packet.evals[id].arts : packet.arts[a]

(* A packet is what the schema of the file says it is.                     *)
PacketTypeOK ==
  /\ DOMAIN packet.obs \subseteq Observations /\ DOMAIN packet.metrics \subseteq Metrics
  /\ DOMAIN packet.arts \subseteq Artifacts /\ DOMAIN packet.evals \subseteq Evaluations
  /\ packet.wall \in Nat /\ packet.completed \in BOOLEAN
  /\ packet.claims \in [Claims -> [status: Statuses, cites: SUBSET (Observations \cup Metrics \cup Evaluations)]]

(* evidencePacketSchema (src/src/workflow/schemas.ts): references are to   *)
(* evidence that is there, a passing claim cites some, an evaluation is    *)
(* about files that are there; otherwise writeEvidenceBundle would refuse  *)
(* the recording after its command ran.  Decide does not refuse the bundle *)
(* either: recorded time covers the commands and claims cite metrics of    *)
(* their own criterion, however often evidence was replaced.               *)
BundleStaysReadable ==
  /\ \A c \in Claims :
       /\ packet.claims[c].cites \subseteq DOMAIN packet.obs \cup DOMAIN packet.metrics \cup DOMAIN packet.evals
       /\ packet.claims[c].status = "pass" => packet.claims[c].cites # {}
  /\ \A e \in DOMAIN packet.evals : packet.evals[e].arts \subseteq DOMAIN packet.arts
  /\ ~Contradicts(packet)

(* WORKFLOW.md: a new sample or file does not inherit an old pass.  A      *)
(* finalist is viable only when each mandatory claim cites some evidence   *)
(* that is good as it stands now, after all the replacements, including    *)
(* those of commands, which do not refresh what cites them.                *)
ViableIsSupported ==
  PreparedStatus(packet) = "viable" =>
    \A c \in Claims : \E id \in packet.claims[c].cites : Supports(id)

(* artifact.ts:187 refuses to link an evaluation to a requirement that it  *)
(* does not measure.                                                       *)
EvaluationsMeasureTheirRequirement ==
  \A r \in Requirements, e \in DOMAIN packet.evals :
    e \in packet.claims[r].cites => packet.evals[e].criterion = r
=============================================================================
