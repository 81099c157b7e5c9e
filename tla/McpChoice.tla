------------------------------- MODULE McpChoice -------------------------------
(***************************************************************************)
(* Which MCP servers one session sees: the choice it keeps and the list an *)
(* open turn runs with (mcp-choice.ts), the tool mask and the prompt       *)
(* sections of its agents (mcp-tool-exclusion.ts), and the events that     *)
(* drive them (sandbox-manager.ts).  The session has a root agent and      *)
(* subagents, whose turns overlap and who share the root's choice.         *)
(*                                                                         *)
(* Event listeners run synchronously, so a change and the notice that      *)
(* follows it are one action.  A tool name stands for all tools of its     *)
(* server; "resources" is the three shared resource tools.                 *)
(***************************************************************************)
EXTENDS Naturals, FiniteSets

CONSTANTS Servers,   \* names the operator may configure
          Agents,    \* the root agent and its subagents
          TurnIds,   \* turns that may be open together
          MaxTurns,  \* bound: turns of the session's log
          MaxEdits   \* bound: settings edits

ASSUME ChoiceAssumption == "resources" \notin Servers

VARIABLES config,   \* the stored entries in memory
          editing,  \* a settings edit is between the memory write and its notice
          edits,    \* settings edits so far
          choice,   \* SessionStore.disabledMcpServers in memory
          saved,    \* the same on disk
          live,     \* McpChoice.live: the list the open turns run with
          open,     \* the open turns, as the idle schedule counts them
          begun,    \* turns the session's log has begun
          up,       \* servers whose tools are in the registry
          preset,   \* what each agent composes; "gone" for an agent not alive
          mask,     \* names denied to each agent
          ran,      \* ghost: the list the latest turn began with
          paged     \* ghost: the page set a list that no turn has begun with yet

choiceVars == <<config, editing, edits, choice, saved, live, open, begun, up,
                preset, mask, ran, paged>>

Entries == [known : BOOLEAN, on : BOOLEAN, off : BOOLEAN]
Lists == [set : BOOLEAN, off : SUBSET Servers]
NoList == [set |-> FALSE, off |-> {}]

-----------------------------------------------------------------------------

enabled == {s \in Servers : config[s].known /\ config[s].on}

defaults == {s \in enabled : config[s].off}

chosen == IF choice.set THEN choice.off ELSE defaults

hiddenServers == IF open # {} /\ live.set THEN live.off ELSE chosen

everyServer == hiddenServers # {} /\ enabled \subseteq hiddenServers

\* The names in the registry: a mounted server brings the shared tools along.
registered == up \cup (IF up = {} THEN {} ELSE {"resources"})

excludedPreset(a) == preset[a] = "minimal"

\* hiddenMcpToolNames for one agent.
denied(a) ==
  CASE preset[a] = "gone" -> {}
    [] excludedPreset(a) -> registered
    [] OTHER -> {n \in registered :
                   IF n = "resources" THEN everyServer ELSE n \in hiddenServers}

\* The servers whose instructions stay in an assembled prompt, and the names
\* left in the resource section, which goes when none is left.
sections == up \ hiddenServers
resourceSection == IF everyServer THEN {} ELSE up \ hiddenServers

\* The hook on a prompt's assembly: an excluded preset is left alone, since
\* its own persona replaces every section.
assembled(a) == IF excludedPreset(a) THEN up ELSE sections

\* McpToolExclusion.reconcile: every agent's mask from what holds now.
Reconcile == mask' = [a \in Agents |-> denied(a)']

-----------------------------------------------------------------------------

\* A session that never chose records the defaults at its first turn; one
\* that ran before it had a record keeps every server.
freeze ==
  choice' = CASE choice.set -> choice
              [] ~choice.set /\ begun > 0 -> [set |-> TRUE, off |-> {}]
              [] OTHER -> [set |-> TRUE, off |-> defaults]

\* mutant: every turn takes the current list.
beginTurnAnew == live' = [set |-> TRUE, off |-> chosen']

\* The first open turn owns the list the others run with.
beginTurn == live' = IF live.set THEN live ELSE [set |-> TRUE, off |-> chosen']

\* mutant: the freeze is not announced.
TurnStartSilent(t) ==
  /\ t \notin open
  /\ begun < MaxTurns
  /\ open' = open \cup {t}
  /\ begun' = begun + 1
  /\ UNCHANGED <<config, editing, edits, saved, up, preset>>
  /\ freeze
  /\ beginTurn
  /\ ran' = hiddenServers'
  /\ paged' = (open # {} /\ paged)
  /\ UNCHANGED mask

TurnStart(t) ==
  /\ t \notin open
  /\ begun < MaxTurns
  /\ open' = open \cup {t}
  /\ begun' = begun + 1
  /\ UNCHANGED <<config, editing, edits, saved, up, preset>>
  /\ freeze
  /\ beginTurn
  /\ ran' = hiddenServers'
  /\ paged' = (open # {} /\ paged)
  /\ IF choice.set THEN UNCHANGED mask ELSE Reconcile

\* The last turn to end lets a list set meanwhile take effect.
TurnEnd(t) ==
  /\ t \in open
  /\ open' = open \ {t}
  /\ live' = IF open' = {} THEN NoList ELSE live
  /\ UNCHANGED <<config, editing, edits, choice, saved, begun, up, preset, ran, paged>>
  /\ IF open' = {} /\ live.off # chosen THEN Reconcile ELSE UNCHANGED mask

\* The page sets the list; unknown names are refused.
setSessionMcp(off) ==
  /\ off \subseteq {s \in Servers : config[s].known}
  /\ choice' = [set |-> TRUE, off |-> off]
  /\ live' = IF open = {} THEN NoList ELSE live
  /\ paged' = TRUE
  /\ UNCHANGED <<config, editing, edits, saved, open, begun, up, preset, ran>>
  /\ IF open = {} THEN Reconcile ELSE UNCHANGED mask

\* The write of the choice reaches the file.
ChoiceSaved ==
  /\ saved # choice
  /\ saved' = choice
  /\ UNCHANGED <<config, editing, edits, choice, live, open, begun, up, preset, mask, ran, paged>>

\* A server's entry is changed or removed: in memory at once, announced when
\* the file is written and the mounts are reconciled.
EditServer(s, e) ==
  /\ edits < MaxEdits
  /\ edits' = edits + 1
  /\ config[s] # e
  /\ config' = [config EXCEPT ![s] = e]
  /\ editing' = TRUE
  /\ UNCHANGED <<choice, saved, live, open, begun, up, preset, mask, ran, paged>>

EditAnnounced ==
  /\ editing
  /\ editing' = FALSE
  /\ up' = up \cap enabled
  /\ UNCHANGED <<config, edits, choice, saved, live, open, begun, preset, ran, paged>>
  /\ Reconcile

\* A client connects or loses its server: tools/change.
ToolsChange(s) ==
  /\ s \in enabled \/ s \in up
  /\ up' = IF s \in up THEN up \ {s} ELSE up \cup {s}
  /\ UNCHANGED <<config, editing, edits, choice, saved, live, open, begun, preset, ran, paged>>
  /\ Reconcile

AgentCreated(a, p) ==
  /\ preset[a] = "gone"
  /\ preset' = [preset EXCEPT ![a] = p]
  /\ UNCHANGED <<config, editing, edits, choice, saved, live, open, begun, up, ran, paged>>
  /\ mask' = [mask EXCEPT ![a] = denied(a)']

AgentDisposed(a) ==
  /\ preset[a] # "gone"
  /\ preset' = [preset EXCEPT ![a] = "gone"]
  /\ mask' = [mask EXCEPT ![a] = {}]
  /\ UNCHANGED <<config, editing, edits, choice, saved, live, open, begun, up, ran, paged>>

\* A blank session is given another preset: tools/change.
SelectPreset(a, p) ==
  /\ begun = 0
  /\ preset[a] \notin {"gone", p}
  /\ preset' = [preset EXCEPT ![a] = p]
  /\ UNCHANGED <<config, editing, edits, choice, saved, live, open, begun, up, ran, paged>>
  /\ Reconcile

\* The host restarts once its writes have landed.
Restart ==
  /\ saved = choice /\ ~editing
  /\ open' = {}
  /\ live' = NoList
  /\ up' = {}
  /\ preset' = [a \in Agents |-> "gone"]
  /\ mask' = [a \in Agents |-> {}]
  /\ UNCHANGED <<config, editing, edits, choice, saved, begun, ran, paged>>

-----------------------------------------------------------------------------

\* A new session, or one whose first turn ran before choices were recorded.
ChoiceInit ==
  /\ config = [s \in Servers |-> [known |-> TRUE, on |-> TRUE, off |-> FALSE]]
  /\ editing = FALSE
  /\ edits = 0
  /\ choice = NoList
  /\ saved = NoList
  /\ live = NoList
  /\ open = {}
  /\ begun \in 0 .. 1
  /\ up = {}
  /\ preset = [a \in Agents |-> "gone"]
  /\ mask = [a \in Agents |-> {}]
  /\ ran = {}
  /\ paged = FALSE

ChoiceNext ==
  \/ \E t \in TurnIds : TurnStart(t) \/ TurnEnd(t)
  \/ \E off \in SUBSET Servers : setSessionMcp(off)
  \/ ChoiceSaved
  \/ \E s \in Servers, e \in Entries : EditServer(s, e)
  \/ EditAnnounced
  \/ \E s \in Servers : ToolsChange(s)
  \/ \E a \in Agents, p \in {"standard", "minimal"} : AgentCreated(a, p) \/ SelectPreset(a, p)
  \/ \E a \in Agents : AgentDisposed(a)
  \/ Restart

ChoiceSpec == ChoiceInit /\ [][ChoiceNext]_choiceVars

-----------------------------------------------------------------------------

\* The list of servers an agent works with does not change while a turn of
\* the session is open, whatever the page, the settings or other turns do, and
\* a conversation goes on with the servers it ran with: between two turns only
\* the session's own page changes its list, not a server's default.
\* The open turns are those the host has seen begin and end; the repaired end
\* of a turn a crash left open, which ends another one early (SessionRoots), is
\* left out.
TurnStable ==
  [][/\ open # {} /\ open' # {} => hiddenServers' = hiddenServers
     /\ begun' > begun /\ begun > 0 /\ ~paged => hiddenServers' = ran]_choiceVars

\* Outside a settings edit in flight, the tools an agent is offered are those
\* of the servers its prompt speaks of, and a prompt that names resource
\* servers comes with the tools to read them: never a mix.
NeverAMix ==
  ~editing =>
    \A a \in Agents :
      preset[a] = "standard" =>
        /\ up \ mask[a] = assembled(a)
        /\ resourceSection # {} => "resources" \in registered \ mask[a]
=============================================================================
