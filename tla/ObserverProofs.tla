--------------------------- MODULE ObserverProofs ---------------------------
(***************************************************************************)
(* Proofs about the bridge and the session registry: for any number of     *)
(* bridges, imports and retries, recorded events of a Long session are     *)
(* audits of the loop; for any number of commands and presses, a switch    *)
(* survives the recorders that rewrite its record without a lock.          *)
(***************************************************************************)
EXTENDS SessionRegistry, FiniteSetTheorems, SequenceTheorems, TLAPS

(* Drafts that may be ingested, and the events they become.                *)
Drafts == (UNION {s.imports : s \in Scenes}) \cup {Trusted(r, d) : r \in Rounds, d \in Digests}

Events == {[key |-> d.key, payload |-> d.payload, received |-> t] : d \in Drafts, t \in Nat}

BridgeTypes ==
  /\ scene \in Scenes
  /\ audits \in Seq(Digests) /\ journal \in Seq(Events)
  /\ now \in Nat /\ at \in [Bridges -> Nat] /\ DOMAIN pc = Bridges

(* A bridge that is about to ingest has found the audit, which stays.      *)
Found(b) ==
  /\ pc[b] # "idle" => scene.jobs[b] # NoJob
  /\ pc[b] = "ingest" => AuditMatches(scene.jobs[b].round, scene.jobs[b].digest)

BridgeInv == BridgeTypes /\ (\A b \in Bridges : Found(b)) /\ TrustedEventsAreAudits

-----------------------------------------------------------------------------
LEMMA SameCardinality == \A S : Long!Cardinality(S) = Cardinality(S)
  BY DEF Long!Cardinality, Cardinality

(* A batch of one draft: nothing is appended if its key is there already,  *)
(* and otherwise the draft is.                                             *)
LEMMA AppendOne ==
  ASSUME journal \in Seq(Events), NEW d \in Drafts, NEW t \in Nat, Long!AppendBatch(<<d>>, t)
  PROVE  \/ journal' = journal
         \/ /\ journal' = Append(journal, [key |-> d.key, payload |-> d.payload, received |-> t])
            /\ \A e \in Long!Logged : e.key # d.key
<1> DEFINE places   == Long!NewPlaces(<<d>>)
           Place(k) == Long!NewPlace(<<d>>, k)
           event    == [key |-> d.key, payload |-> d.payload, received |-> t]
<1>1. journal' = journal \o Long!Stamped(Long!New(<<d>>), t)
  BY DEF Long!AppendBatch
<1>2. Long!New(<<d>>) = [k \in 1..Cardinality(places) |-> <<d>>[Place(k)]]
  BY SameCardinality DEF Long!New
<1>3. places = {} \/ (places = {1} /\ \A e \in Long!Logged : e.key # d.key)
  BY DEF Long!NewPlaces
<1> HIDE DEF places
<1>4. CASE places = {}
  <2>1. Cardinality(places) = 0
    BY <1>4, FS_EmptySet
  <2> HIDE DEF Place
  <2>2. Long!New(<<d>>) = <<>>
    BY <1>2, <2>1
  <2>3. Long!Stamped(<<>>, t) = <<>>
    BY DEF Long!Stamped
  <2> QED
    BY <1>1, <2>2, <2>3, ConcatEmptySeq
<1>5. CASE places = {1} /\ \A e \in Long!Logged : e.key # d.key
  <2>1. Cardinality({1}) = 1
    BY FS_Singleton
  <2>2. {j \in {1} : j <= 1} = {1}
    OBVIOUS
  <2>3. Place(1) = 1
    <3>1. Place(1) = CHOOSE i \in {1} : Long!Cardinality({j \in {1} : j <= i}) = 1
      BY <1>5 DEF Long!NewPlace, places
    <3>2. Long!Cardinality({j \in {1} : j <= 1}) = 1
      BY <2>1, <2>2, SameCardinality
    <3> QED
      BY <3>1, <3>2
  <2> HIDE DEF Place
  <2>4. Long!New(<<d>>) = <<d>>
    BY <1>2, <1>5, <2>1, <2>3
  <2>5. Long!Stamped(<<d>>, t) = <<event>>
    BY DEF Long!Stamped
  <2>6. event \in Events
    BY DEF Events
  <2> HIDE DEF event
  <2>7. journal \o <<event>> = Append(journal, event)
    BY <2>6
  <2> QED
    BY <1>1, <1>5, <2>4, <2>5, <2>7 DEF event
<1> QED
  BY <1>3, <1>4, <1>5

(* A draft keeps recorded events audits if it is not one, or is the audit. *)
LEMMA Appended_Keeps ==
  ASSUME BridgeInv, UNCHANGED audits, NEW d \in Drafts, NEW t \in Nat, Long!AppendBatch(<<d>>, t),
         d.payload.source = "recorded" => d.key \in DOMAIN audits /\ audits[d.key] = d.payload.digest
  PROVE  journal' \in Seq(Events) /\ TrustedEventsAreAudits'
<1> DEFINE event == [key |-> d.key, payload |-> d.payload, received |-> t]
<1>1. journal \in Seq(Events) /\ TrustedEventsAreAudits
  BY DEF BridgeInv, BridgeTypes
<1>2. CASE journal' = journal
  BY <1>1, <1>2 DEF TrustedEventsAreAudits, Long!Logged
<1>3. CASE journal' = Append(journal, event) /\ \A e \in Long!Logged : e.key # d.key
  <2>1. event \in Events /\ event.key = d.key /\ event.payload = d.payload
    BY DEF Events
  <2> HIDE DEF event
  <2>2. /\ journal' \in Seq(Events)
        /\ DOMAIN journal = 1..Len(journal) /\ DOMAIN journal' = 1..(Len(journal) + 1) /\ Len(journal) \in Nat
        /\ \A i \in 1..Len(journal) : journal'[i] = journal[i]
        /\ journal'[Len(journal) + 1] = event
    BY <1>1, <1>3, <2>1, AppendProperties
  <2>3. \A i \in 1..Len(journal) : journal[i].key # event.key
    BY <1>3, <2>1, <2>2 DEF Long!Logged
  <2>4. \A e \in Long!Logged' : e \in Long!Logged \/ e = event
    BY <2>2 DEF Long!Logged
  <2>5. \A i, j \in DOMAIN journal' : journal'[i].key = journal'[j].key => i = j
    BY <1>1, <2>2, <2>3 DEF TrustedEventsAreAudits
  <2> QED
    BY <1>1, <2>1, <2>2, <2>4, <2>5 DEF TrustedEventsAreAudits
<1> QED
  BY <1>1, <1>2, <1>3, AppendOne

LEMMA Jobs ==
  ASSUME BridgeInv, NEW b \in Bridges, scene.jobs[b] # NoJob
  PROVE  /\ scene.jobs[b].round \in Rounds /\ scene.jobs[b].digest \in Digests
         /\ Draft(b) \in Drafts
         /\ Draft(b).key = scene.jobs[b].round
         /\ Draft(b).payload.source = "recorded" /\ Draft(b).payload.digest = scene.jobs[b].digest
<1>1. scene \in Scenes
  BY DEF BridgeInv, BridgeTypes
<1>2. scene.jobs \in [Bridges -> [round: Rounds, digest: Digests] \cup {NoJob}]
  BY <1>1, BridgeAssumption
<1>3. scene.jobs[b] \in [round: Rounds, digest: Digests]
  BY <1>2
<1>4. scene.jobs[b].round \in Rounds /\ scene.jobs[b].digest \in Digests
  BY <1>3
<1> QED
  BY <1>4 DEF Draft, Trusted, Drafts

-----------------------------------------------------------------------------
LEMMA BridgeFirst == BridgeInit => BridgeInv
<1> SUFFICES ASSUME BridgeInit PROVE BridgeInv
  OBVIOUS
<1>1. BridgeTypes
  BY DEF BridgeInit, BridgeTypes, Long!Init
<1>2. \A b \in Bridges : Found(b)
  BY DEF BridgeInit, Found
<1>3. TrustedEventsAreAudits
  BY DEF BridgeInit, TrustedEventsAreAudits, Long!Logged, Long!Init
<1> QED
  BY <1>1, <1>2, <1>3 DEF BridgeInv

LEMMA Audit_Keeps ==
  ASSUME BridgeInv, Audit
  PROVE  BridgeInv'
<1>1. PICK d \in Digests : audits' = Append(audits, d)
  BY DEF Audit
<1>2. /\ audits' \in Seq(Digests) /\ \A r \in DOMAIN audits : r \in DOMAIN audits' /\ audits'[r] = audits[r]
  BY <1>1 DEF BridgeInv, BridgeTypes
<1>3. UNCHANGED <<scene, journal, now, pc, at>>
  BY DEF Audit
<1>4. TrustedEventsAreAudits'
  BY <1>2, <1>3 DEF BridgeInv, TrustedEventsAreAudits, Long!Logged
<1>5. ASSUME NEW b \in Bridges PROVE Found(b)'
  <2>1. Found(b)
    BY DEF BridgeInv
  <2> QED
    BY <1>2, <1>3, <2>1 DEF Found, AuditMatches
<1> QED
  BY <1>2, <1>3, <1>4, <1>5 DEF BridgeInv, BridgeTypes

LEMMA Import_Keeps ==
  ASSUME BridgeInv, Import
  PROVE  BridgeInv'
<1>1. PICK i \in scene.imports : Long!AppendBatch(<<i>>, now)
  BY DEF Import
<1>2. i \in Drafts /\ i.payload.source # "recorded" /\ now \in Nat
  BY BridgeAssumption DEF BridgeInv, BridgeTypes, Drafts
<1>3. UNCHANGED <<scene, audits, now, pc, at>>
  BY DEF Import
<1>4. journal' \in Seq(Events) /\ TrustedEventsAreAudits'
  BY <1>1, <1>2, <1>3, Appended_Keeps
<1>5. ASSUME NEW b \in Bridges PROVE Found(b)'
  BY <1>3 DEF BridgeInv, Found, AuditMatches
<1> QED
  BY <1>3, <1>4, <1>5 DEF BridgeInv, BridgeTypes

(* A bridge goes on, and the loop does not.                                *)
LEMMA Moved ==
  ASSUME BridgeInv, NEW b \in Bridges, NEW label, Goto(b, label), UNCHANGED <<scene, audits>>,
         scene.jobs[b] # NoJob,
         label = "ingest" => AuditMatches(scene.jobs[b].round, scene.jobs[b].digest)
  PROVE  DOMAIN pc' = Bridges /\ \A c \in Bridges : Found(c)'
<1>1. DOMAIN pc = Bridges /\ pc' = [pc EXCEPT ![b] = label]
  BY DEF BridgeInv, BridgeTypes, Goto
<1>2. ASSUME NEW c \in Bridges PROVE Found(c)'
  <2>1. Found(c)
    BY DEF BridgeInv
  <2>2. CASE c = b
    BY <1>1, <2>2 DEF Found, AuditMatches
  <2>3. CASE c # b
    BY <1>1, <2>1, <2>3 DEF Found, AuditMatches
  <2> QED
    BY <2>2, <2>3
<1> QED
  BY <1>1, <1>2

(* It goes on without writing.                                             *)
LEMMA Moved_Keeps ==
  ASSUME BridgeInv, NEW b \in Bridges, NEW label, Goto(b, label), UNCHANGED <<scene, audits, journal, now>>,
         scene.jobs[b] # NoJob, at' \in [Bridges -> Nat],
         label = "ingest" => AuditMatches(scene.jobs[b].round, scene.jobs[b].digest)
  PROVE  BridgeInv'
<1>1. DOMAIN pc' = Bridges /\ \A c \in Bridges : Found(c)'
  BY Moved
<1>2. TrustedEventsAreAudits'
  BY DEF BridgeInv, TrustedEventsAreAudits, Long!Logged
<1> QED
  BY <1>1, <1>2 DEF BridgeInv, BridgeTypes

LEMMA Ingest_Keeps ==
  ASSUME BridgeInv, NEW b \in Bridges, Ingest(b)
  PROVE  BridgeInv'
<1>1. /\ scene.jobs[b] # NoJob /\ AuditMatches(scene.jobs[b].round, scene.jobs[b].digest)
  BY DEF Ingest, BridgeInv, Found
<1>2. UNCHANGED <<scene, audits, now, at>> /\ at \in [Bridges -> Nat]
  BY DEF Ingest, Long!AppendBatch, BridgeInv, BridgeTypes
<1>3. CASE Long!AppendBatch(<<Draft(b)>>, at[b]) /\ Goto(b, "tell")
  <2>1. journal' \in Seq(Events) /\ TrustedEventsAreAudits'
    BY <1>1, <1>2, <1>3, Jobs, Appended_Keeps DEF AuditMatches
  <2>2. DOMAIN pc' = Bridges /\ \A c \in Bridges : Found(c)'
    BY <1>1, <1>2, <1>3, Moved
  <2> QED
    BY <1>2, <2>1, <2>2 DEF BridgeInv, BridgeTypes
<1>4. CASE Goto(b, "failed") /\ UNCHANGED <<scene, journal, told>>
  BY <1>1, <1>2, <1>4, Moved_Keeps
<1> QED
  BY <1>3, <1>4 DEF Ingest

LEMMA BridgeNext_Keeps ==
  ASSUME BridgeInv, BridgeNext
  PROVE  BridgeInv'
<1> USE DEF BridgeInv, BridgeTypes, Found
<1>1. ASSUME NEW b \in Bridges, CallBridge(b) PROVE BridgeInv'
  BY <1>1, Moved_Keeps DEF CallBridge
<1>2. ASSUME NEW b \in Bridges, VerifyAudit(b) PROVE BridgeInv'
  BY <1>2, Moved_Keeps DEF VerifyAudit
<1>3. ASSUME NEW b \in Bridges, Tell(b) PROVE BridgeInv'
  BY <1>3, Moved_Keeps DEF Tell, Long!Acknowledge
<1>4. ASSUME NEW b \in Bridges, BridgeFails(b) PROVE BridgeInv'
  BY <1>4, Moved_Keeps DEF BridgeFails
<1>5. CASE Tick
  BY <1>5 DEF Tick, TrustedEventsAreAudits, Long!Logged, AuditMatches
<1> QED
  BY <1>1, <1>2, <1>3, <1>4, <1>5, Audit_Keeps, Import_Keeps, Ingest_Keeps DEF BridgeNext, Bridge

-----------------------------------------------------------------------------
(* The registry.  Switches it keeps, and calls that are being made: of     *)
(* those that record, and of those that switch.                            *)
Switchings == [Monitors -> BOOLEAN]

CallOK(c) ==
  \/ /\ c \in [session: Sessions, step: {"load", "switches", "save"}, version: Nat,
               switches: Switchings \cup {NoChoice}]
     /\ c.step = "save" => c.switches \in Switchings
  \/ /\ c \in [session: Sessions, step: {"read", "patch"}, monitor: Monitors, on: BOOLEAN,
               record: Records \cup {NoRecord}]
     /\ c.step = "patch" => c.record \in Records

ScreenOK(scr) ==
  scr \in [open: BOOLEAN, busy: BOOLEAN, pending: BOOLEAN, queue: Seq(Sessions) \cup {NoChoice},
           drawn: [Sessions -> Records \cup {NoRecord}]]

RegistryTypes ==
  /\ index \in [Sessions -> Records \cup {NoRecord}]
  /\ DOMAIN calls = Callers /\ calls = [p \in Callers |-> calls[p]]
  /\ \A p \in Callers : calls[p] = NoCall \/ CallOK(calls[p])
  /\ ScreenOK(screen)
  /\ DOMAIN chosen = Sessions /\ chosen = [s \in Sessions |-> chosen[s]]

(* What was chosen is in the index, and whoever is about to save a record  *)
(* has read it from there.                                                 *)
Chosen(s) ==
  chosen[s] # NoChoice =>
    /\ index[s] # NoRecord /\ index[s].switches = chosen[s]
    /\ \A p \in Callers : Step(p, "save") /\ calls[p].session = s => calls[p].switches = chosen[s]

RegistryInv == RegistryTypes /\ \A s \in Sessions : Chosen(s)

(* The versions of the stores are numbers.                                 *)
LEMMA Versions == ASSUME BridgeInv, NEW s \in Sessions PROVE Version(s) \in Nat
  BY DEF BridgeInv, BridgeTypes, Version, Sessions, Stores

LEMMA Lists ==
  ASSUME NEW T \in SUBSET Sessions
  PROVE  SetToSeq(T) \in Seq(Sessions)
<1>1. IsFiniteSet(Sessions)
  <2>1. Sessions = {"loop"} \cup ({"long"} \cup {"host"})
    BY DEF Sessions, Stores
  <2> QED
    BY <2>1, FS_Singleton, FS_Union
<1>2. IsFiniteSet(T)
  BY <1>1, FS_Subset
<1>3. Cardinality(T) \in Nat /\ ExistsBijection(1..Cardinality(T), T)
  BY <1>2, FS_CardinalityType
<1>4. \E f \in [1..Cardinality(T) -> T] : IsInjective(f)
  BY <1>3 DEF ExistsBijection, Bijection, Injection, IsInjective
<1>5. SetToSeq(T) \in [1..Cardinality(T) -> T]
  BY <1>4 DEF SetToSeq
<1> QED
  BY <1>3, <1>5

LEMMA Refreshes ==
  ASSUME BridgeInv
  PROVE  ToRefresh \in Seq(Sessions)
<1>1. scene.found \in SUBSET Sessions
  BY RegistryAssumption DEF BridgeInv, BridgeTypes, Sessions
<1>2. {s \in Stores : index[s] # NoRecord} \in SUBSET Sessions
  BY DEF Sessions
<1> QED
  BY <1>1, <1>2, Lists, ConcatProperties DEF ToRefresh

LEMMA Renders ==
  ASSUME NEW scr, ScreenOK(scr)
  PROVE  ScreenOK(AskToRender(scr))
  BY DEF ScreenOK, AskToRender

(* A caller begins a call or goes on, the index as it is.                  *)
LEMMA Called ==
  ASSUME RegistryInv, NEW p \in Callers, NEW c, CallTo(p, c), UNCHANGED <<index, chosen>>,
         c = NoCall \/ CallOK(c),
         c # NoCall /\ c.step = "save" /\ chosen[c.session] # NoChoice =>
           c.switches = chosen[c.session],
         ScreenOK(screen')
  PROVE  RegistryInv'
<1>1. /\ DOMAIN calls' = Callers /\ calls' = [q \in Callers |-> calls'[q]]
      /\ calls'[p] = c /\ \A q \in Callers \ {p} : calls'[q] = calls[q]
  BY DEF CallTo, RegistryInv, RegistryTypes
<1>2. RegistryTypes'
  BY <1>1 DEF RegistryInv, RegistryTypes
<1>3. ASSUME NEW s \in Sessions PROVE Chosen(s)'
  <2>1. Chosen(s)
    BY DEF RegistryInv
  <2>2. ASSUME NEW q \in Callers, chosen[s] # NoChoice, Step(q, "save")', calls'[q].session = s
        PROVE  calls'[q].switches = chosen[s]
    <3>1. CASE q = p
      BY <1>1, <2>2, <3>1 DEF Step
    <3>2. CASE q # p
      BY <1>1, <2>1, <2>2, <3>2 DEF Step, Chosen
    <3> QED
      BY <3>1, <3>2
  <2> QED
    BY <2>1, <2>2 DEF Chosen
<1> QED
  BY <1>2, <1>3 DEF RegistryInv

(* A caller writes a record, of the chosen switches or of switches that    *)
(* nobody is about to overwrite, and is done.                              *)
Writes(p, s, new, choice) ==
  /\ index' = [index EXCEPT ![s] = new] /\ chosen' = [chosen EXCEPT ![s] = choice]
  /\ CallTo(p, NoCall)
  /\ choice # NoChoice => /\ new.switches = choice
                          /\ \A q \in Callers \ {p} :
                               Step(q, "save") /\ calls[q].session = s => calls[q].switches = choice

LEMMA Wrote ==
  ASSUME RegistryInv, NEW p \in Callers, NEW s \in Sessions, NEW new \in Records, NEW choice,
         Writes(p, s, new, choice), ScreenOK(screen')
  PROVE  RegistryInv'
<1>1. /\ DOMAIN calls' = Callers /\ calls' = [q \in Callers |-> calls'[q]]
      /\ calls'[p] = NoCall /\ \A q \in Callers \ {p} : calls'[q] = calls[q]
  BY DEF Writes, CallTo, RegistryInv, RegistryTypes
<1>2. /\ index' \in [Sessions -> Records \cup {NoRecord}]
      /\ index'[s] = new /\ \A r \in Sessions \ {s} : index'[r] = index[r]
  BY DEF Writes, RegistryInv, RegistryTypes
<1>3. /\ DOMAIN chosen' = Sessions /\ chosen' = [r \in Sessions |-> chosen'[r]]
      /\ chosen'[s] = choice /\ \A r \in Sessions \ {s} : chosen'[r] = chosen[r]
  BY DEF Writes, RegistryInv, RegistryTypes
<1>4. RegistryTypes'
  BY <1>1, <1>2, <1>3 DEF RegistryInv, RegistryTypes
<1>5. Chosen(s)'
  <2>1. new # NoRecord
    BY RegistryAssumption
  <2>2. ASSUME NEW q \in Callers, choice # NoChoice, Step(q, "save")', calls'[q].session = s
        PROVE  calls'[q].switches = choice
    <3>1. q # p
      BY <1>1, <2>2 DEF Step
    <3> QED
      BY <1>1, <2>2, <3>1 DEF Step, Writes
  <2> QED
    BY <1>2, <1>3, <2>1, <2>2 DEF Chosen, Writes
<1>6. ASSUME NEW r \in Sessions \ {s} PROVE Chosen(r)'
  <2>1. Chosen(r)
    BY DEF RegistryInv
  <2>2. ASSUME NEW q \in Callers, chosen[r] # NoChoice, Step(q, "save")', calls'[q].session = r
        PROVE  calls'[q].switches = chosen[r]
    <3>1. q # p
      BY <1>1, <2>2 DEF Step
    <3> QED
      BY <1>1, <2>1, <2>2, <3>1 DEF Step, Chosen
  <2> QED
    BY <1>2, <1>3, <2>1, <2>2 DEF Chosen
<1> QED
  BY <1>4, <1>5, <1>6 DEF RegistryInv

-----------------------------------------------------------------------------
(* Steps of the registry, while the stores are as BridgeInv says.          *)
LEMMA RegistryFirst == Init => RegistryInv
  BY RegistryAssumption DEF Init, BridgeInit, RegistryInv, RegistryTypes, ScreenOK, Chosen

LEMMA Commands_Keep ==
  ASSUME BridgeInv, BridgeInv', RegistryInv, NEW p \in Callers,
         LoopCommand(p) \/ StoreCommand(p) \/ RegisterCommand(p) \/ SwitchCommand(p) \/ Press(p)
  PROVE  RegistryInv'
<1>1. UNCHANGED <<index, screen, chosen>> /\ ScreenOK(screen')
  BY DEF LoopCommand, StoreCommand, RegisterCommand, SwitchCommand, Press, RegistryInv, RegistryTypes
<1>2. ASSUME NEW s \in Sessions, NEW step \in {"load", "switches"}, NEW version \in Nat,
             CallTo(p, Recording(s, step, version))
      PROVE  RegistryInv'
  <2>1. CallOK(Recording(s, step, version)) /\ Recording(s, step, version).step # "save"
    BY DEF CallOK, Recording
  <2> QED
    BY <1>1, <1>2, <2>1, Called
<1>3. ASSUME NEW s \in Sessions, NEW m \in Monitors, NEW on \in BOOLEAN, CallTo(p, Switching(s, m, on))
      PROVE  RegistryInv'
  <2>1. CallOK(Switching(s, m, on)) /\ Switching(s, m, on).step # "save"
    BY DEF CallOK, Switching
  <2> QED
    BY <1>1, <1>3, <2>1, Called
<1>4. CASE LoopCommand(p)
  <2>1. Len(audits') \in Nat
    BY DEF BridgeInv, BridgeTypes
  <2> QED
    BY <1>2, <1>4, <2>1 DEF LoopCommand, Sessions, Stores
<1>5. CASE StoreCommand(p)
  BY <1>2, <1>5 DEF StoreCommand, Sessions
<1>6. CASE RegisterCommand(p)
  BY <1>2, <1>6 DEF RegisterCommand, Sessions
<1>7. CASE SwitchCommand(p)
  <2>1. scene.sessions \subseteq Sessions
    BY RegistryAssumption DEF BridgeInv, BridgeTypes
  <2> QED
    BY <1>3, <1>7, <2>1 DEF SwitchCommand
<1>8. CASE Press(p)
  BY <1>3, <1>8 DEF Press
<1> QED
  BY <1>4, <1>5, <1>6, <1>7, <1>8

LEMMA CallStep_Keeps ==
  ASSUME BridgeInv, RegistryInv, NEW p \in Callers, CallStep(p)
  PROVE  RegistryInv'
<1> DEFINE c == calls[p]
<1>1. ScreenOK(screen)
  BY DEF RegistryInv, RegistryTypes
<1>2. c # NoCall => CallOK(c)
  BY DEF RegistryInv, RegistryTypes
<1>3. index \in [Sessions -> Records \cup {NoRecord}]
  BY DEF RegistryInv, RegistryTypes
<1>4. CASE LoadStore(p)
  <2>1. CallOK(c) /\ c.step = "load" /\ UNCHANGED <<index, screen, chosen>>
    BY <1>2, <1>4 DEF LoadStore, Step
  <2>2. PICK new : new = [c EXCEPT !.version = Version(c.session), !.step = "switches"] /\ CallTo(p, new)
    BY <1>4 DEF LoadStore
  <2>3. Version(c.session) \in Nat
    BY <2>1, Versions DEF CallOK
  <2>4. CallOK(new) /\ new.step = "switches"
    BY <2>1, <2>2, <2>3 DEF CallOK
  <2> QED
    BY <1>1, <2>1, <2>2, <2>4, Called
<1>5. CASE ReadSwitches(p)
  <2>1. CallOK(c) /\ c.step = "switches" /\ c.session \in Sessions /\ UNCHANGED <<index, screen, chosen>>
    BY <1>2, <1>5 DEF ReadSwitches, Step, CallOK
  <2>2. PICK new : new = [c EXCEPT !.switches = ExistingMonitoring(c.session), !.step = "save"] /\ CallTo(p, new)
    BY <1>5 DEF ReadSwitches
  <2>3. ExistingMonitoring(c.session) \in Switchings
    BY <1>3, <2>1 DEF ExistingMonitoring, DefaultSwitches, Switchings, Records
  <2>4. CallOK(new) /\ new.session = c.session /\ new.switches = ExistingMonitoring(c.session)
    BY <2>1, <2>2, <2>3 DEF CallOK
  <2>5. chosen[c.session] # NoChoice => ExistingMonitoring(c.session) = chosen[c.session]
    BY <2>1 DEF RegistryInv, Chosen, ExistingMonitoring
  <2> QED
    BY <1>1, <2>1, <2>2, <2>4, <2>5, Called
<1>6. CASE SaveRecord(p)
  <2>1. CallOK(c) /\ Step(p, "save") /\ c.session \in Sessions /\ c.version \in Nat /\ c.switches \in Switchings
    BY <1>2, <1>6 DEF SaveRecord, Step, CallOK
  <2> DEFINE new == [version |-> c.version, switches |-> c.switches]
  <2>2. new \in Records /\ new.switches = c.switches
    BY <2>1 DEF Records, Switchings
  <2>3. index' = [index EXCEPT ![c.session] = new] /\ CallTo(p, NoCall) /\ UNCHANGED <<screen, chosen>>
    BY <1>6 DEF SaveRecord
  <2>4. chosen' = [chosen EXCEPT ![c.session] = chosen[c.session]]
    BY <2>3 DEF RegistryInv, RegistryTypes
  <2>5. Chosen(c.session)
    BY <2>1 DEF RegistryInv
  <2>6. chosen[c.session] # NoChoice => new.switches = chosen[c.session]
    BY <2>1, <2>2, <2>5 DEF Chosen
  <2>7. ASSUME chosen[c.session] # NoChoice,
               NEW q \in Callers \ {p}, Step(q, "save"), calls[q].session = c.session
        PROVE  calls[q].switches = chosen[c.session]
    BY <2>5, <2>7 DEF Chosen
  <2>8. Writes(p, c.session, new, chosen[c.session])
    BY <2>3, <2>4, <2>6, <2>7 DEF Writes
  <2>9. ScreenOK(screen')
    BY <1>1, <2>3
  <2> HIDE DEF new, c
  <2> QED
    BY <2>1, <2>2, <2>8, <2>9, Wrote
<1>7. CASE ReadRecord(p)
  <2>1. CallOK(c) /\ c.step = "read" /\ c.session \in Sessions /\ UNCHANGED <<index, screen, chosen>>
    BY <1>2, <1>7 DEF ReadRecord, Step, CallOK
  <2>2. CASE index[c.session] = NoRecord
    BY <1>1, <1>7, <2>1, <2>2, Called DEF ReadRecord
  <2>3. CASE index[c.session] # NoRecord
    <3>1. PICK new : new = [c EXCEPT !.record = index[c.session], !.step = "patch"] /\ CallTo(p, new)
      BY <1>7, <2>3 DEF ReadRecord
    <3>2. index[c.session] \in Records
      BY <1>3, <2>1, <2>3
    <3>3. CallOK(new) /\ new.step = "patch"
      BY <2>1, <3>1, <3>2 DEF CallOK
    <3> QED
      BY <1>1, <2>1, <3>1, <3>3, Called
  <2> QED
    BY <2>2, <2>3
<1>8. CASE SaveSwitch(p)
  <2>1. CallOK(c) /\ c.step = "patch" /\ c.session \in Sessions
        /\ c.record \in Records /\ c.monitor \in Monitors /\ c.on \in BOOLEAN
    BY <1>2, <1>8 DEF SaveSwitch, Step, CallOK
  <2> DEFINE new    == [c.record EXCEPT !.switches[c.monitor] = c.on]
             choice == IF Overtaken(p) THEN NoChoice ELSE new.switches
  <2>2. new \in Records
    BY <2>1 DEF Records
  <2>3. /\ index' = [index EXCEPT ![c.session] = new] /\ CallTo(p, NoCall)
        /\ chosen' = [chosen EXCEPT ![c.session] = choice]
        /\ ScreenOK(screen')
    BY <1>1, <1>8, Renders DEF SaveSwitch
  <2>4. choice # NoChoice => /\ new.switches = choice
                             /\ \A q \in Callers \ {p} : Step(q, "save") => calls[q].session # c.session
    BY DEF Overtaken
  <2> HIDE DEF new, choice, c
  <2>5. Writes(p, c.session, new, choice)
    BY <2>3, <2>4 DEF Writes
  <2> QED
    BY <2>1, <2>2, <2>3, <2>5, Wrote
<1> QED
  BY <1>4, <1>5, <1>6, <1>7, <1>8 DEF CallStep

(* A save that fails or is given up; the faults are counted.               *)
LEMMA SaveFails_Keeps ==
  ASSUME RegistryInv, NEW p \in Callers, SaveFails(p)
  PROVE  RegistryInv'
<1>1. CallTo(p, NoCall) /\ UNCHANGED <<index, chosen>>
  BY DEF SaveFails
<1>2. ScreenOK(screen')
  BY DEF SaveFails, RegistryInv, RegistryTypes, ScreenOK
<1> QED
  BY <1>1, <1>2, Called

(* The cockpit repaints, or is asked to.                                   *)
LEMMA Painted ==
  ASSUME RegistryInv, UNCHANGED <<index, calls, chosen>>, ScreenOK(screen')
  PROVE  RegistryInv'
  BY DEF RegistryInv, RegistryTypes, Chosen, Step

LEMMA CockpitStep_Keeps ==
  ASSUME BridgeInv, RegistryInv, CockpitStep
  PROVE  RegistryInv'
<1>1. ScreenOK(screen) /\ index \in [Sessions -> Records \cup {NoRecord}]
  BY DEF RegistryInv, RegistryTypes
<1>2. CASE ListSessions
  <2>1. ScreenOK(screen')
    BY <1>1, <1>2, Refreshes DEF ListSessions, ScreenOK
  <2> QED
    BY <1>2, <2>1, Painted DEF ListSessions
<1>3. CASE Refresh
  <2>1. screen.queue \in Seq(Sessions) /\ screen.queue # <<>>
    BY <1>1, <1>3 DEF Refresh, ScreenOK
  <2>2. Head(screen.queue) \in Sessions /\ Tail(screen.queue) \in Seq(Sessions)
    BY <2>1, HeadTailProperties
  <2>3. PICK call : call = Recording(Head(screen.queue), "load", 0) /\ CallTo(Cockpit, call)
    BY <1>3 DEF Refresh
  <2>4. CallOK(call) /\ call.step # "save"
    BY <2>2, <2>3 DEF CallOK, Recording
  <2>5. ScreenOK(screen') /\ UNCHANGED <<index, chosen>>
    BY <1>1, <1>3, <2>2 DEF Refresh, ScreenOK
  <2>6. Cockpit \in Callers
    BY DEF Callers
  <2> QED
    BY <2>3, <2>4, <2>5, <2>6, Called
<1>4. CASE Draw
  <2> DEFINE done == [screen EXCEPT !.busy = FALSE, !.pending = FALSE, !.drawn = index]
  <2>1. ScreenOK(done)
    BY <1>1 DEF ScreenOK
  <2>2. screen' = IF screen.pending THEN AskToRender(done) ELSE done
    BY <1>4 DEF Draw
  <2> HIDE DEF done
  <2>3. ScreenOK(screen')
    BY <2>1, <2>2, Renders
  <2> QED
    BY <1>4, <2>3, Painted DEF Draw
<1> QED
  BY <1>2, <1>3, <1>4 DEF CockpitStep

-----------------------------------------------------------------------------
(* Both together: the registry's steps leave the bridge alone but for the  *)
(* audit that a loop command appends.                                      *)
ObserverInv == BridgeInv /\ RegistryInv

LEMMA BridgeStill ==
  ASSUME BridgeInv, UNCHANGED <<scene, audits, journal, now, pc, at>>
  PROVE  BridgeInv'
  BY DEF BridgeInv, BridgeTypes, Found, AuditMatches, TrustedEventsAreAudits, Long!Logged

LEMMA ObserverInit == Init => ObserverInv
  BY BridgeFirst, RegistryFirst DEF Init, ObserverInv

LEMMA ObserverStep == ObserverInv /\ [Next]_vars => ObserverInv'
<1> SUFFICES ASSUME BridgeInv, RegistryInv, [Next]_vars
             PROVE  BridgeInv' /\ RegistryInv'
  BY DEF ObserverInv
<1>1. scene.commands \subseteq Callers /\ scene.presses \subseteq Callers
  BY RegistryAssumption DEF BridgeInv, BridgeTypes, Callers
<1>2. ASSUME NEW p \in scene.commands,
             LoopCommand(p) \/ StoreCommand(p) \/ RegisterCommand(p) \/ SwitchCommand(p)
      PROVE  BridgeInv' /\ RegistryInv'
  <2>1. BridgeInv'
    <3>1. CASE LoopCommand(p)
      BY <3>1, Audit_Keeps DEF LoopCommand
    <3>2. CASE StoreCommand(p) \/ RegisterCommand(p) \/ SwitchCommand(p)
      BY <3>2, BridgeStill DEF StoreCommand, RegisterCommand, SwitchCommand, bridgeVars
    <3> QED
      BY <1>2, <3>1, <3>2
  <2> QED
    BY <1>1, <1>2, <2>1, Commands_Keep
<1>3. ASSUME NEW p \in Callers, CallStep(p)
      PROVE  BridgeInv' /\ RegistryInv'
  <2>1. UNCHANGED bridgeVars
    BY <1>3 DEF CallStep, LoadStore, ReadSwitches, SaveRecord, ReadRecord, SaveSwitch
  <2> QED
    BY <1>3, <2>1, BridgeStill, CallStep_Keeps DEF bridgeVars
<1>4. ASSUME NEW p \in Callers, SaveFails(p)
      PROVE  BridgeInv' /\ RegistryInv'
  BY <1>4, BridgeStill, SaveFails_Keeps DEF SaveFails
<1>5. ASSUME NEW k \in scene.presses, Press(k)
      PROVE  BridgeInv' /\ RegistryInv'
  <2>1. BridgeInv'
    BY <1>5, BridgeStill DEF Press, bridgeVars
  <2> QED
    BY <1>1, <1>5, <2>1, Commands_Keep
<1>6. CASE Timer
  <2>1. BridgeInv'
    BY <1>6, BridgeStill DEF Timer, bridgeVars
  <2>2. ScreenOK(screen')
    BY <1>6, Renders DEF Timer, RegistryInv, RegistryTypes
  <2> QED
    BY <1>6, <2>1, <2>2, Painted DEF Timer
<1>7. CASE CockpitStep
  <2>1. UNCHANGED bridgeVars
    BY <1>7 DEF CockpitStep, ListSessions, Refresh, Draw
  <2> QED
    BY <1>7, <2>1, BridgeStill, CockpitStep_Keeps DEF bridgeVars
<1>8. CASE BridgeNext /\ UNCHANGED registryVars
  <2>1. UNCHANGED <<index, calls, screen, chosen>>
    BY <1>8 DEF registryVars
  <2>2. RegistryInv'
    BY <2>1, Painted DEF RegistryInv, RegistryTypes
  <2> QED
    BY <1>8, <2>2, BridgeNext_Keeps
<1>9. CASE UNCHANGED vars
  <2>1. UNCHANGED bridgeVars /\ UNCHANGED <<index, calls, screen, chosen>>
    BY <1>9 DEF vars, registryVars
  <2>2. RegistryInv'
    BY <2>1, Painted DEF RegistryInv, RegistryTypes
  <2> QED
    BY <2>1, <2>2, BridgeStill DEF bridgeVars
<1> QED
  BY <1>2, <1>3, <1>4, <1>5, <1>6, <1>7, <1>8, <1>9 DEF Next

LEMMA ObserverInvariant == Spec => []ObserverInv
  BY ObserverInit, ObserverStep, PTL DEF Spec

(* What stands in a Long session as recorded is the audit of that round of *)
(* the loop, and there once, whoever bridged it, retried it or imported    *)
(* beside it (bridge.ts:17-45).                                            *)
THEOREM RecordedAreAudits == Spec => []TrustedEventsAreAudits
<1>1. ObserverInv => TrustedEventsAreAudits
  BY DEF ObserverInv, BridgeInv
<1> QED
  BY <1>1, ObserverInvariant, PTL

(* Switches that were set while nobody was about to save older ones stay   *)
(* as they were set, however often commands and the cockpit rewrite the    *)
(* record without a lock (sessions.ts:15-45).                              *)
THEOREM SwitchesSurvive == Spec => []QuietSwitchPersists
<1>1. ObserverInv => QuietSwitchPersists
  BY DEF ObserverInv, RegistryInv, Chosen, QuietSwitchPersists
<1> QED
  BY <1>1, ObserverInvariant, PTL
=============================================================================
