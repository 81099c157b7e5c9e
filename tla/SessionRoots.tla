----------------------------- MODULE SessionRoots -----------------------------
(***************************************************************************)
(* Which sandbox a session's work goes to: a subagent's session is served   *)
(* from its root session's sandbox (root-session.ts), and the sandbox       *)
(* manager remembers the root it found (rootSessions) because it reads the  *)
(* live agents, which come and go.  The live-turn counts that protect a     *)
(* sandbox from the idle schedule are kept under the same id.               *)
(*                                                                         *)
(* Sessions are numbered in the order they were made, so that a parent      *)
(* comes before its children and no header forms a cycle.                   *)
(***************************************************************************)
EXTENDS Naturals, FiniteSets

CONSTANTS Family,     \* the sessions
          Parent,     \* header.parentSession, 0 for none
          Delegated,  \* sessions whose header.origin is "subagent"; the others
                      \* with a parent are forks
          MaxComings, \* bound: agents created, restarts
          MaxOpened   \* bound: turns started

ASSUME FamilyAssumption ==
  /\ Family \subseteq Nat \ {0} /\ IsFiniteSet(Family)
  /\ Parent \in [Family -> Family \cup {0}]
  /\ \A a \in Family : Parent[a] < a
  /\ Delegated \subseteq Family
  /\ {MaxComings, MaxOpened} \subseteq Nat

VARIABLES known,    \* sessions that exist
          agents,   \* ctx.agents: sessions with a live agent
          memo,     \* rootSessions, 0 for none
          counts,   \* IdleSchedule.liveTurns
          opened,   \* sessions with an open turn
          dangling, \* sessions whose turn a restart left open in the log
          repairs,  \* ghost: repaired ends that met open turns of a root, since
                    \* it last had none
          served,   \* ghost: the roots each session was served from since boot
          comings, opens

rootVars == <<known, agents, memo, counts, opened, dangling, repairs, served, comings, opens>>

Roots == Family

-----------------------------------------------------------------------------

\* rootSessionId of root-session.ts: up the subagent links, as far as the
\* ancestors are live.
walk[a \in Family] ==
  IF a \in Delegated /\ Parent[a] # 0 /\ Parent[a] \in agents THEN walk[Parent[a]] ELSE a

\* SandboxManager.rootSessionId: once resolved, a session keeps its root.
rootSessionId(a) == IF memo[a] # 0 THEN memo[a] ELSE walk[a]

remember(a) == memo' = [memo EXCEPT ![a] = rootSessionId(a)]

\* mutant: the memo is not consulted first.
rootSessionIdOfLive(a) == IF a \in agents THEN rootSessionId(a) ELSE a

\* The same for a session event, whose agent may be gone.
rootSessionIdOfSession(a) ==
  IF memo[a] # 0 THEN memo[a] ELSE IF a \in agents THEN rootSessionId(a) ELSE a

\* The open turns whose work goes to a root.
openAt(r) == {a \in opened : memo[a] = r}

\* IdleSchedule.endTurn
endTurn(r) == counts' = [counts EXCEPT ![r] = IF @ > 0 THEN @ - 1 ELSE 0]

-----------------------------------------------------------------------------

Created(a) ==
  /\ a \notin agents /\ Parent[a] \in known \cup {0}
  /\ comings < MaxComings /\ comings' = comings + 1
  /\ known' = known \cup {a}
  /\ agents' = agents \cup {a}
  /\ UNCHANGED <<memo, counts, opened, dangling, repairs, served, opens>>

\* A disposed agent's turn may still have to report its end.
Disposed(a) ==
  /\ a \in agents
  /\ agents' = agents \ {a}
  /\ UNCHANGED <<known, memo, counts, opened, dangling, repairs, served, comings, opens>>

\* ensureRunning, noteActivity, the status and prompt reads: the agent's
\* work goes to its root's sandbox.
Served(a) ==
  /\ a \in agents
  /\ remember(a)
  /\ served' = [served EXCEPT ![a] = @ \cup {rootSessionId(a)}]
  /\ UNCHANGED <<known, agents, counts, opened, dangling, repairs, comings, opens>>

\* turn/start comes from a running agent, whose log was repaired first.
TurnStarts(a) ==
  /\ a \in agents /\ a \notin opened \cup dangling
  /\ opens < MaxOpened /\ opens' = opens + 1
  /\ remember(a)
  /\ opened' = opened \cup {a}
  /\ counts' = [counts EXCEPT ![rootSessionIdOfSession(a)] = @ + 1]
  /\ UNCHANGED <<known, agents, dangling, repairs, served, comings>>

\* turn/end
TurnEnds(a) ==
  /\ a \in opened
  /\ opened' = opened \ {a}
  /\ endTurn(rootSessionIdOfSession(a))
  /\ repairs' = [repairs EXCEPT ![memo[a]] = IF openAt(memo[a]) = {a} THEN 0 ELSE @]
  /\ IF a \in agents THEN remember(a) ELSE UNCHANGED memo
  /\ UNCHANGED <<known, agents, dangling, served, comings, opens>>

\* The turn/end that repairs the log of a turn a restart left open (external:
\* dsh-session writes it before the session's next turn).  Its start was
\* never counted here.
RepairedEnd(a) ==
  /\ a \in dangling
  /\ dangling' = dangling \ {a}
  /\ endTurn(rootSessionIdOfSession(a))
  /\ LET r == rootSessionIdOfSession(a)
     IN  repairs' = [repairs EXCEPT ![r] = IF openAt(r) = {} THEN 0 ELSE @ + 1]
  /\ IF a \in agents THEN remember(a) ELSE UNCHANGED memo
  /\ UNCHANGED <<known, agents, opened, served, comings, opens>>

\* choiceSessionId, agent/status: the root is looked up for something else than
\* the sandbox.
Resolved(a) ==
  /\ a \in agents
  /\ remember(a)
  /\ UNCHANGED <<known, agents, counts, opened, dangling, repairs, served, comings, opens>>

\* The host restarts: agents and the manager's memory are gone, and open turns
\* stay open in the log.
Restarts ==
  /\ comings < MaxComings /\ comings' = comings + 1
  /\ agents' = {} /\ opened' = {}
  /\ dangling' = dangling \cup opened
  /\ memo' = [a \in Family |-> 0]
  /\ counts' = [r \in Roots |-> 0] /\ repairs' = counts'
  /\ served' = [a \in Family |-> {}]
  /\ UNCHANGED <<known, opens>>

RootsInit ==
  /\ known = {} /\ agents = {} /\ opened = {} /\ dangling = {}
  /\ memo = [a \in Family |-> 0]
  /\ counts = [r \in Roots |-> 0] /\ repairs = counts
  /\ served = [a \in Family |-> {}]
  /\ comings = 0 /\ opens = 0

RootsNext ==
  \/ \E a \in Family :
       \/ Created(a) \/ Disposed(a) \/ Served(a) \/ Resolved(a)
       \/ TurnStarts(a) \/ TurnEnds(a) \/ RepairedEnd(a)
  \/ Restarts

RootsSpec == RootsInit /\ [][RootsNext]_rootVars

-----------------------------------------------------------------------------

\* The live-turn count that keeps a sandbox from hibernating never exceeds the
\* open turns whose work goes there: a turn that ends after its agent or an
\* ancestor is gone strands no count (sandbox-manager.ts:1307-1312).  And it
\* falls short of them only by repaired ends, of turns a restart left open
\* there, that came while such a turn was open: without one it is their
\* number, again as soon as the root had no open turn, and no root pays for
\* the repairs of another.
CountsMatch ==
  \A r \in Roots :
    /\ counts[r] <= Cardinality(openAt(r))
    /\ Cardinality(openAt(r)) <= counts[r] + repairs[r]

\* As long as the host runs, a session's work goes to one sandbox, though
\* its ancestors are disposed and come back in the middle of it.
OneSandbox == \A a \in Family : \A r, q \in served[a] : r = q

lineage[a \in Family] ==
  {a} \cup IF a \in Delegated /\ Parent[a] # 0 THEN lineage[Parent[a]] ELSE {}

\* A fork owns its working copy: no session is served from a sandbox it does
\* not reach through subagent links alone.
ForksApart == \A a \in Family : served[a] \subseteq lineage[a]
=============================================================================
