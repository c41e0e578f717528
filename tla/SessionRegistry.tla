--------------------------- MODULE SessionRegistry ---------------------------
(***************************************************************************)
(* The index of sessions (src/src/tui/store.ts, sessions.ts): one record   *)
(* for each session, a summary of its store and the user's monitoring      *)
(* switches.  Commands write it after they have run, the cockpit           *)
(* (src/src/tui/app.ts) before each repaint and when a switch is pressed.  *)
(* Records are read, merged and renamed into place without a lock.         *)
(*                                                                         *)
(* The sessions are a loop, the Long session into which it is bridged      *)
(* (LoopLongBridge), and one without a store: that of a host, a ranking or *)
(* a campaign.  Of a store the summary has the number of audits, or of     *)
(* events.                                                                 *)
(***************************************************************************)
EXTENDS LoopLongBridge, SequencesExt

CONSTANTS
  Commands,      \* processes of the command line
  Presses,       \* switches pressed in the cockpit
                 \* a scene also has the commands, presses and sessions there are, the sessions
                 \* found below the working directory, whether the cockpit is open, and runs, a
                 \* bound on commands and presses
  NoRecord, NoCall, NoChoice

Stores   == {"loop", "long"}
Sessions == Stores \cup {"host"}
Monitors == {"loop", "long"}
Records  == [version: Nat, switches: [Monitors -> BOOLEAN]]
Cockpit  == "cockpit"
Callers  == Commands \cup Presses \cup {Cockpit}

ASSUME RegistryAssumption ==
  /\ \A s \in Scenes : /\ s.commands \subseteq Commands /\ s.presses \subseteq Presses
                       /\ s.sessions \subseteq Sessions /\ s.found \subseteq s.sessions \cap Stores
                       /\ s.open \in BOOLEAN
  /\ Commands \cap Presses = {} /\ Cockpit \notin Commands \cup Presses
  /\ NoRecord \notin Records

VARIABLES
  index,    \* the record of each session: [version, switches]
  calls,    \* what each caller is doing to a record
  ran,      \* commands that were run
  screen,   \* the cockpit: [open, busy, pending, queue (sessions still to refresh), drawn]
  chosen    \* history: the switches as they were last set while nobody was about to save older ones

registryVars == <<index, calls, ran, screen, chosen>>
vars == <<bridgeVars, registryVars>>

Version(s) ==
  CASE s = "loop" -> Len(audits)
    [] s = "long" -> Len(journal)
    [] s = "host" -> 0

DefaultSwitches(s) == [m \in Monitors |-> m = s]

Init ==
  /\ BridgeInit
  /\ index = [s \in Sessions |-> NoRecord]
  /\ calls = [p \in Callers |-> NoCall] /\ ran = 0
  /\ screen = [open |-> scene.open, busy |-> FALSE, pending |-> FALSE, queue |-> <<>>,
               drawn |-> [s \in Sessions |-> NoRecord]]
  /\ chosen = [s \in Sessions |-> NoChoice]

Recording(s, step, version) == [session |-> s, step |-> step, version |-> version, switches |-> NoChoice]

Switching(s, m, on) == [session |-> s, step |-> "read", monitor |-> m, on |-> on, record |-> NoRecord]

CallTo(p, call) == calls' = [calls EXCEPT ![p] = call]

Step(p, step) == calls[p] # NoCall /\ calls[p].step = step

-----------------------------------------------------------------------------
(* The command line.                                                       *)

(* A loop command records the loop it has just appended to.                *)
LoopCommand(p) ==
  /\ calls[p] = NoCall /\ ran < scene.runs
  /\ Audit
  /\ ran' = ran + 1 /\ CallTo(p, Recording("loop", "switches", Len(audits')))
  /\ UNCHANGED <<index, screen, chosen>>

(* status, next and the long commands load the store again to record it.   *)
StoreCommand(p) ==
  /\ calls[p] = NoCall /\ ran < scene.runs
  /\ \E s \in scene.sessions \cap Stores : CallTo(p, Recording(s, "load", 0))
  /\ ran' = ran + 1
  /\ UNCHANGED <<bridgeVars, index, screen, chosen>>

(* session register, and what a ranking, a campaign or a decision records. *)
RegisterCommand(p) ==
  /\ calls[p] = NoCall /\ ran < scene.runs
  /\ "host" \in scene.sessions /\ CallTo(p, Recording("host", "switches", 0))
  /\ ran' = ran + 1
  /\ UNCHANGED <<bridgeVars, index, screen, chosen>>

(* jevrev session monitor.                                                 *)
SwitchCommand(p) ==
  /\ calls[p] = NoCall /\ ran < scene.runs
  /\ \E s \in scene.sessions, m \in Monitors, on \in BOOLEAN : CallTo(p, Switching(s, m, on))
  /\ ran' = ran + 1
  /\ UNCHANGED <<bridgeVars, index, screen, chosen>>

-----------------------------------------------------------------------------
(* recordLoopSession, recordLongSession and the like.                      *)
LoadStore(p) ==
  /\ Step(p, "load")
  /\ CallTo(p, [calls[p] EXCEPT !.version = Version(calls[p].session), !.step = "switches"])
  /\ UNCHANGED <<bridgeVars, index, ran, screen, chosen>>

(* Mutant: a record is made with the default switches.                     *)
ExistingMonitoring_Default(s) == DefaultSwitches(s)

ExistingMonitoring(s) == IF index[s] = NoRecord THEN DefaultSwitches(s) ELSE index[s].switches

ReadSwitches(p) ==
  /\ Step(p, "switches")
  /\ CallTo(p, [calls[p] EXCEPT !.switches = ExistingMonitoring(calls[p].session), !.step = "save"])
  /\ UNCHANGED <<bridgeVars, index, ran, screen, chosen>>

(* saveTuiSession: the record is renamed into place.                       *)
SaveRecord(p) ==
  /\ Step(p, "save")
  /\ index' = [index EXCEPT ![calls[p].session] =
                 [version |-> calls[p].version, switches |-> calls[p].switches]]
  /\ CallTo(p, NoCall)
  /\ UNCHANGED <<bridgeVars, ran, screen, chosen>>

-----------------------------------------------------------------------------
(* setSessionMonitoring.                                                   *)
ReadRecord(p) ==
  /\ Step(p, "read")
  /\ CallTo(p, IF index[calls[p].session] = NoRecord THEN NoCall
               ELSE [calls[p] EXCEPT !.record = index[calls[p].session], !.step = "patch"])
  /\ UNCHANGED <<bridgeVars, index, ran, screen, chosen>>

(* Somebody else has read switches and will save them.                     *)
Overtaken(p) ==
  \E q \in Callers \ {p} : /\ Step(q, "save") \/ Step(q, "patch")
                           /\ calls[q].session = calls[p].session

(* render: one at a time, and one more if it was asked for meanwhile.      *)
AskToRender(scr) == IF scr.busy THEN [scr EXCEPT !.pending = TRUE]
                    ELSE [scr EXCEPT !.busy = TRUE, !.queue = NoChoice]

SaveSwitch(p) ==
  /\ Step(p, "patch")
  /\ LET call == calls[p]
         new  == [call.record EXCEPT !.switches[call.monitor] = call.on]
     IN  /\ index'  = [index EXCEPT ![call.session] = new]
         /\ chosen' = [chosen EXCEPT ![call.session] = IF Overtaken(p) THEN NoChoice ELSE new.switches]
  /\ CallTo(p, NoCall)
  /\ screen' = IF p \in Presses THEN AskToRender(screen) ELSE screen
  /\ UNCHANGED <<bridgeVars, ran>>

(* The record cannot be written, or the command is ended: a command warns  *)
(* or fails, a repaint goes on, a press ends the cockpit (but not the      *)
(* repaint under way).                                                     *)
SaveFails(p) ==
  /\ Step(p, "save") \/ Step(p, "patch")
  /\ faults < scene.faults
  /\ faults' = faults + 1 /\ CallTo(p, NoCall)
  /\ screen' = [screen EXCEPT !.open = @ /\ p \notin Presses]
  /\ UNCHANGED <<scene, audits, journal, told, now, pc, at, index, ran, chosen>>

-----------------------------------------------------------------------------
(* The cockpit.                                                            *)
Timer ==
  /\ screen.open
  /\ screen' = AskToRender(screen)
  /\ UNCHANGED <<bridgeVars, index, calls, ran, chosen>>

(* Mutant: only sessions that are in the index are refreshed.              *)
ToRefresh_Indexed == SetToSeq({s \in Stores : index[s] # NoRecord})

(* refreshRegisteredSessions: first the sessions of the index, then those  *)
(* whose stores are found.                                                 *)
ToRefresh == SetToSeq({s \in Stores : index[s] # NoRecord}) \o SetToSeq(scene.found)

ListSessions ==
  /\ screen.busy /\ screen.queue = NoChoice
  /\ screen' = [screen EXCEPT !.queue = ToRefresh]
  /\ UNCHANGED <<bridgeVars, index, calls, ran, chosen>>

Refresh ==
  /\ screen.busy /\ screen.queue \notin {NoChoice, <<>>} /\ calls[Cockpit] = NoCall
  /\ CallTo(Cockpit, Recording(Head(screen.queue), "load", 0))
  /\ screen' = [screen EXCEPT !.queue = Tail(@)]
  /\ UNCHANGED <<bridgeVars, index, ran, chosen>>

Draw ==
  /\ screen.busy /\ screen.queue = <<>> /\ calls[Cockpit] = NoCall
  /\ LET done == [screen EXCEPT !.busy = FALSE, !.pending = FALSE, !.drawn = index]
     IN  screen' = IF screen.pending THEN AskToRender(done) ELSE done
  /\ UNCHANGED <<bridgeVars, index, calls, ran, chosen>>

(* Space: the opposite of what is drawn.                                   *)
Press(k) ==
  /\ screen.open /\ calls[k] = NoCall /\ ran < scene.runs
  /\ \E s \in Sessions, m \in Monitors :
       /\ screen.drawn[s] # NoRecord
       /\ CallTo(k, Switching(s, m, ~screen.drawn[s].switches[m]))
  /\ ran' = ran + 1
  /\ UNCHANGED <<bridgeVars, index, screen, chosen>>

-----------------------------------------------------------------------------
CallStep(p) == LoadStore(p) \/ ReadSwitches(p) \/ SaveRecord(p) \/ ReadRecord(p) \/ SaveSwitch(p)

CockpitStep == ListSessions \/ Refresh \/ Draw

Next ==
  \/ \E p \in scene.commands : LoopCommand(p) \/ StoreCommand(p) \/ RegisterCommand(p) \/ SwitchCommand(p)
  \/ \E p \in Callers : CallStep(p) \/ SaveFails(p)
  \/ \E k \in scene.presses : Press(k)
  \/ Timer \/ CockpitStep
  \/ BridgeNext /\ UNCHANGED registryVars

Spec == Init /\ [][Next]_vars

(* Calls run to their end, and the user does not quit the cockpit.         *)
FairSpec ==
  /\ Spec /\ BridgeFairness
  /\ \A p \in Callers : WF_vars(CallStep(p))
  /\ WF_vars(Timer) /\ WF_vars(CockpitStep)

-----------------------------------------------------------------------------
(* TUI_DESIGN.md:78: switches are kept.  Recorders rewrite a record all    *)
(* the time; what was set while nobody was about to save older switches    *)
(* stays until it is set again (sessions.ts:15-17).                        *)
QuietSwitchPersists ==
  \A s \in Sessions : chosen[s] # NoChoice => index[s] # NoRecord /\ index[s].switches = chosen[s]

(* The same, whoever is about to save.                                     *)
SwitchPersists ==
  [][\A p \in Callers, s \in Sessions :
       Step(p, "save") /\ calls'[p] = NoCall /\ index[s] # NoRecord /\ index'[s] # index[s] =>
         index'[s].switches = index[s].switches]_vars

(* TUI_DESIGN.md:99-103: summaries are refreshed before each repaint.      *)
(* Commands may overwrite them with older ones, but when the stores have   *)
(* come to rest a cockpit that is open shows them as they are.             *)
CockpitCatchesUp ==
  \A s \in Sessions :
    <>[](screen.open /\ (index[s] # NoRecord \/ s \in scene.found) =>
           screen.drawn[s] # NoRecord /\ screen.drawn[s].version = Version(s))
=============================================================================
