----------------------------- MODULE SessionTools -----------------------------
(***************************************************************************)
(* The tools with which a session manages other sessions                   *)
(* (session-tools.ts): which agents have them, as agents come, go and move *)
(* to another preset; and the tools themselves, called by a parent session *)
(* against one child, while an operator edits profiles and models in the   *)
(* web client.  The session controller is dsh's; only what the tools ask   *)
(* of it is here.  A registration that throws is only logged and leaves the *)
(* agent without its tools; registrations succeed here.                    *)
(***************************************************************************)
EXTENDS Naturals, FiniteSets

CONSTANTS Crew,      \* agents
          Subagents, \* those whose session's origin is a subagent
          Presets,   \* agent presets
          Excluded,  \* Config.excludedPresets
          Offers,    \* sandbox profiles; models are offered alike
          MaxMoves,  \* bound: changes of presets and offers
          MaxTold    \* bound: messages

VARIABLES
  alive,     \* agents.list()
  presetOf,  \* the preset each agent runs
  installed, \* agents with the tools
  scheduled, \* a reconcile waits in the microtask queue
  offered,   \* profiles and models that can be chosen now
  moves,
  order,     \* the create_session call
  kid,       \* the child session
  tellings,  \* messages sent
  wait       \* the wait_session call

crewVars == <<alive, presetOf, installed, scheduled>>
kidVars == <<order, kid, tellings, wait>>
toolVars == <<crewVars, offered, moves, kidVars>>

AnyOffer == "default"
NoKid == [there |-> FALSE, profile |-> AnyOffer, model |-> AnyOffer, inbox |-> 0, running |-> FALSE]
NoOrder == [at |-> "idle", profile |-> AnyOffer, model |-> AnyOffer, prompt |-> FALSE, failed |-> FALSE]
NoWait == [at |-> "idle", checks |-> 0, seen |-> FALSE, late |-> FALSE]

-----------------------------------------------------------------------------
(* Who has the tools. *)

allowed(a) == a \notin Subagents /\ presetOf[a] \notin Excluded

AgentJoins(a, p) ==
  /\ a \notin alive
  /\ alive' = alive \cup {a}
  /\ presetOf' = [presetOf EXCEPT ![a] = p]
  /\ installed' = IF a \notin Subagents /\ p \notin Excluded THEN installed \cup {a} ELSE installed
  /\ UNCHANGED <<scheduled, offered, moves, kidVars>>

AgentLeaves(a) ==
  /\ a \in alive
  /\ alive' = alive \ {a}
  /\ installed' = installed \ {a}
  /\ UNCHANGED <<presetOf, scheduled, offered, moves, kidVars>>

\* A blank session moves to another preset: tools/change, which schedules one
\* reconcile however often it comes.
Rebind(a, p) ==
  /\ a \in alive /\ p # presetOf[a] /\ moves < MaxMoves
  /\ moves' = moves + 1
  /\ presetOf' = [presetOf EXCEPT ![a] = p]
  /\ scheduled' = TRUE
  /\ UNCHANGED <<alive, installed, offered, kidVars>>

\* mutant: reconcile only adds.
reconcileAdds ==
  /\ scheduled
  /\ scheduled' = FALSE
  /\ installed' = installed \cup {a \in alive : allowed(a)}
  /\ UNCHANGED <<alive, presetOf, offered, moves, kidVars>>

reconcile ==
  /\ scheduled
  /\ scheduled' = FALSE
  /\ installed' = {a \in alive : allowed(a)}
  /\ UNCHANGED <<alive, presetOf, offered, moves, kidVars>>

\* The bundle is unloaded and loaded again.
Reload ==
  /\ moves < MaxMoves
  /\ moves' = moves + 1
  /\ installed' = {a \in alive : allowed(a)}
  /\ scheduled' = FALSE
  /\ UNCHANGED <<alive, presetOf, offered, kidVars>>

-----------------------------------------------------------------------------
(* create_session. *)

Offer(o) ==
  /\ moves < MaxMoves
  /\ moves' = moves + 1
  /\ offered' = IF o \in offered THEN offered \ {o} ELSE offered \cup {o}
  /\ UNCHANGED <<crewVars, kidVars>>

\* Where the session is to live: a workspace named once and found once, a
\* directory, or the scratch workspace; anything else throws.
resolvePlacement(named, cwd, found) == IF cwd THEN named = 0 ELSE named = 0 \/ (named = 1 /\ found = 1)

CreateSession(profile, model, prompt) ==
  /\ order.at = "idle" /\ ~kid.there
  /\ \E named, found \in 0 .. 2, cwd \in BOOLEAN : resolvePlacement(named, cwd, found)
  /\ order' = [at |-> "check", profile |-> profile, model |-> model, prompt |-> prompt, failed |-> FALSE]
  /\ UNCHANGED <<crewVars, offered, moves, kid, tellings, wait>>

\* listSandboxProfiles and modelCatalog: what is asked for must be offered.
CheckOffers ==
  /\ order.at = "check"
  /\ order' = IF {order.profile, order.model} \subseteq offered \cup {AnyOffer}
            THEN [order EXCEPT !.at = "create"] ELSE NoOrder
  /\ UNCHANGED <<crewVars, offered, moves, kid, tellings, wait>>

Create ==
  /\ order.at = "create"
  /\ kid' = [NoKid EXCEPT !.there = TRUE]
  /\ order' = [order EXCEPT !.at = "profile"]
  /\ UNCHANGED <<crewVars, offered, moves, tellings, wait>>

\* setSessionProfile checks again: what was offered may be gone.
SetProfile ==
  /\ order.at = "profile"
  /\ LET ok == order.profile \in offered \cup {AnyOffer}
     IN  /\ kid' = IF ok THEN [kid EXCEPT !.profile = order.profile] ELSE kid
         /\ order' = [order EXCEPT !.at = "model", !.failed = ~ok]
  /\ UNCHANGED <<crewVars, offered, moves, tellings, wait>>

\* selectModel, then the title, whose failure is only reported.
SelectModel ==
  /\ order.at = "model"
  /\ LET ok == order.model \in offered \cup {AnyOffer}
     IN  /\ kid' = IF ok THEN [kid EXCEPT !.model = order.model] ELSE kid
         /\ order' = [order EXCEPT !.at = "prompt", !.failed = @ \/ ~ok]
  /\ UNCHANGED <<crewVars, offered, moves, tellings, wait>>

\* A steering message ends the turn it finds.
sendMessage(steer) == kid' = [kid EXCEPT !.inbox = @ + 1, !.running = @ /\ ~steer]

\* The first message, if every setting holds; its failure is only reported.
FirstPrompt ==
  /\ order.at = "prompt"
  /\ order' = [order EXCEPT !.at = "done"]
  /\ \/ order.prompt /\ ~order.failed /\ sendMessage(FALSE)
     \/ UNCHANGED kid
  /\ UNCHANGED <<crewVars, offered, moves, tellings, wait>>

-----------------------------------------------------------------------------
(* The other tools. *)

\* message_session with mode queue or steer, and interrupt_session, which
\* keeps what is queued.
MessageSession(steer) ==
  /\ order.at = "done" /\ tellings < MaxTold
  /\ tellings' = tellings + 1
  /\ sendMessage(steer)
  /\ UNCHANGED <<crewVars, offered, moves, order, wait>>

InterruptSession ==
  /\ order.at = "done" /\ kid.running
  /\ kid' = [kid EXCEPT !.running = FALSE]
  /\ UNCHANGED <<crewVars, offered, moves, order, tellings, wait>>

\* The child's turns.
KidTurn ==
  /\ kid.there
  /\ \/ ~kid.running /\ kid.inbox > 0 /\ kid' = [kid EXCEPT !.running = TRUE, !.inbox = @ - 1]
     \/ kid.running /\ kid' = [kid EXCEPT !.running = FALSE]
  /\ UNCHANGED <<crewVars, offered, moves, order, tellings, wait>>

WaitSession ==
  /\ order.at = "done" /\ wait.at = "idle"
  /\ wait' = [NoWait EXCEPT !.at = "poll"]
  /\ UNCHANGED <<crewVars, offered, moves, order, kid, tellings>>

\* One poll: idle is believed at the second look, or after a turn was seen.
Poll ==
  /\ wait.at = "poll"
  /\ wait' = IF ~kid.running /\ (wait.seen \/ wait.checks > 0) THEN [wait EXCEPT !.at = "idleResult"]
             ELSE IF wait.late THEN [wait EXCEPT !.at = "timedOut"]
             ELSE [wait EXCEPT !.at = "sleep", !.checks = 1, !.seen = @ \/ kid.running]
  /\ UNCHANGED <<crewVars, offered, moves, order, kid, tellings>>

\* The deadline passes in a sleep; the loop looks once more.
Sleep ==
  /\ wait.at = "sleep"
  /\ \E late \in BOOLEAN : wait' = [wait EXCEPT !.at = "poll", !.late = @ \/ late]
  /\ UNCHANGED <<crewVars, offered, moves, order, kid, tellings>>

\* The tool returns, with the last message when the child was idle.
WaitReturns ==
  /\ wait.at \in {"idleResult", "timedOut"}
  /\ wait' = NoWait
  /\ UNCHANGED <<crewVars, offered, moves, order, kid, tellings>>

ToolsInit ==
  /\ alive = {} /\ presetOf = [a \in Crew |-> CHOOSE p \in Presets : TRUE]
  /\ installed = {} /\ scheduled = FALSE
  /\ offered = Offers /\ moves = 0
  /\ order = NoOrder /\ kid = NoKid /\ tellings = 0 /\ wait = NoWait

ToolsNext ==
  \/ \E a \in Crew, p \in Presets : AgentJoins(a, p) \/ Rebind(a, p)
  \/ \E a \in Crew : AgentLeaves(a)
  \/ reconcile \/ Reload
  \/ \E o \in Offers : Offer(o)
  \/ \E profile, model \in Offers \cup {AnyOffer}, prompt \in BOOLEAN : CreateSession(profile, model, prompt)
  \/ CheckOffers \/ Create \/ SetProfile \/ SelectModel \/ FirstPrompt
  \/ \E steer \in BOOLEAN : MessageSession(steer)
  \/ InterruptSession \/ KidTurn \/ WaitSession \/ Poll \/ Sleep \/ WaitReturns

ToolsSpec == ToolsInit /\ [][ToolsNext]_toolVars

-----------------------------------------------------------------------------

\* A child that works on its creator's prompt has the profile and the model
\* that were asked for, although both are checked before the session exists
\* and may be withdrawn until they are set.
SettingsFirst ==
  kid.running /\ tellings = 0 => kid.profile = order.profile /\ kid.model = order.model

\* Between two microtasks the agents with the tools are exactly the live ones
\* that may have them, however they were moved.
ToolsFollow == ~scheduled => installed = {a \in alive : allowed(a)}
=============================================================================
