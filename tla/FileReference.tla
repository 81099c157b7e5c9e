----------------------------- MODULE FileReference -----------------------------
(***************************************************************************)
(* The file picker behind "@" in one session: each agent's snapshot of the *)
(* workspace tree with its shared refresh and its count of invalidations   *)
(* (file-reference.ts), and the index of the tree that is saved as the     *)
(* sandbox is put away and served while it is (file-index.ts,              *)
(* file-index-hooks.ts).                                                   *)
(*                                                                         *)
(* The tree is a number that grows with every write.  What a query makes   *)
(* of a snapshot (directories, fragments, ranks) is left out: a query asks *)
(* for a refresh or changes nothing.  The lifecycle is reduced to the      *)
(* record's state and to the lock its operations hold.                     *)
(***************************************************************************)
EXTENDS Naturals

CONSTANTS Askers,      \* the session's agents
          MaxTree,     \* bound: writes to the workspace
          MaxNaps,     \* bound: suspensions
          MaxSetbacks  \* bound: failures, restarts and agents disposed

VARIABLES tree,      \* the workspace's files
          nap,       \* the session's record: "none", "running" or "away"
          naps,      \* suspensions begun
          linked,    \* RunnerAttachment has the sandbox's client
          index,     \* the file FileIndexStore keeps for the session
          capture,   \* the suspension that holds the lock, and the tree it walked
          tool,      \* what each agent's tool wrote, its result not yet logged
          invalid,   \* SandboxFileReferenceService.invalidations
          snaps,     \* SandboxFileReferenceService.snapshots
          fetchOf,   \* SandboxFileReferenceService.refreshes
          wrote,     \* ghost: what the agent's logged tool results left
          setbacks   \* failures so far

referenceVars == <<tree, nap, naps, linked, index, capture, tool, invalid, snaps,
                   fetchOf, wrote, setbacks>>

NoIndex == [has |-> FALSE, tree |-> 0, nap |-> 0]
NoCapture == [at |-> "no", tree |-> 0]
\* leftover: it came from an index an earlier suspension saved.
NoSnapshot == [has |-> FALSE, tree |-> 0, startedAt |-> 0, leftover |-> FALSE]
NoFetch == [at |-> "no", startedAt |-> 0, tree |-> 0, leftover |-> FALSE]

Unlocked == capture.at = "no"
Setback == setbacks < MaxSetbacks /\ setbacks' = setbacks + 1

stale(a) == ~snaps[a].has \/ snaps[a].startedAt < invalid[a]

-----------------------------------------------------------------------------
(* The agents' tools. *)

\* A tool wakes or provisions the sandbox and writes in it.
ToolWrites(a) ==
  /\ tool[a] = 0 /\ Unlocked /\ tree < MaxTree
  /\ tree' = tree + 1
  /\ tool' = [tool EXCEPT ![a] = tree']
  /\ nap' = "running" /\ linked' = TRUE
  /\ UNCHANGED <<naps, index, capture, invalid, snaps, fetchOf, wrote, setbacks>>

invalidate(a) == invalid' = [invalid EXCEPT ![a] = @ + 1]

ToolResult(a) ==
  /\ tool[a] # 0
  /\ invalidate(a)
  /\ wrote' = [wrote EXCEPT ![a] = tool[a]]
  /\ tool' = [tool EXCEPT ![a] = 0]
  /\ UNCHANGED <<tree, nap, naps, linked, index, capture, snaps, fetchOf, setbacks>>

\* A background process or a terminal writes, whoever holds the lock.
ProcessTouches ==
  /\ nap = "running" /\ tree < MaxTree
  /\ tree' = tree + 1
  /\ UNCHANGED <<nap, naps, linked, index, capture, tool, invalid, snaps, fetchOf, wrote, setbacks>>

-----------------------------------------------------------------------------
(* A refresh. *)

\* A query that finds the snapshot stale starts a refresh or joins the one in
\* flight; the count is taken before the first await.
Refresh(a) ==
  /\ stale(a) /\ fetchOf[a].at = "no"
  /\ fetchOf' = [fetchOf EXCEPT ![a] = [NoFetch EXCEPT !.at = "state", !.startedAt = invalid[a]]]
  /\ UNCHANGED <<tree, nap, naps, linked, index, capture, tool, invalid, snaps, wrote, setbacks>>

\* The store's record decides whether the saved index answers ...
hibernatedFileIndex(a) ==
  /\ fetchOf[a].at = "state"
  /\ fetchOf' = [fetchOf EXCEPT ![a].at = IF nap = "away" THEN "load" ELSE "has"]
  /\ UNCHANGED <<tree, nap, naps, linked, index, capture, tool, invalid, snaps, wrote, setbacks>>

\* ... and the file is read after that.
Load(a) ==
  /\ fetchOf[a].at = "load"
  /\ fetchOf' = [fetchOf EXCEPT ![a] =
       IF index.has THEN [@ EXCEPT !.at = "land", !.tree = index.tree, !.leftover = index.nap # naps]
       ELSE [@ EXCEPT !.at = "has"]]
  /\ UNCHANGED <<tree, nap, naps, linked, index, capture, tool, invalid, snaps, wrote, setbacks>>

\* A session without a sandbox answers nothing, and that is not kept.
hasSandbox(a) ==
  /\ fetchOf[a].at = "has"
  /\ fetchOf' = [fetchOf EXCEPT ![a] = IF nap = "none" THEN NoFetch ELSE [@ EXCEPT !.at = "ensure"]]
  /\ UNCHANGED <<tree, nap, naps, linked, index, capture, tool, invalid, snaps, wrote, setbacks>>

\* ensureRunning waits for the lock, and starts whatever is needed by then.
EnsureForWalk(a) ==
  /\ fetchOf[a].at = "ensure" /\ Unlocked
  /\ nap' = "running" /\ linked' = TRUE
  /\ fetchOf' = [fetchOf EXCEPT ![a].at = "walk"]
  /\ UNCHANGED <<tree, naps, index, capture, tool, invalid, snaps, wrote, setbacks>>

\* captureFileIndex through the client at hand, which the runner answers while
\* the sandbox runs.
Walk(a) ==
  /\ fetchOf[a].at = "walk" /\ nap = "running"
  /\ fetchOf' = [fetchOf EXCEPT ![a].at = "land", ![a].tree = tree]
  /\ UNCHANGED <<tree, nap, naps, linked, index, capture, tool, invalid, snaps, wrote, setbacks>>

\* ensureRunning or the walk fails: the refresh rejects.
FetchFails(a) ==
  /\ \/ fetchOf[a].at \in {"ensure", "walk"} /\ Setback
     \/ fetchOf[a].at = "walk" /\ nap # "running" /\ UNCHANGED setbacks
  /\ fetchOf' = [fetchOf EXCEPT ![a] = NoFetch]
  /\ UNCHANGED <<tree, nap, naps, linked, index, capture, tool, invalid, snaps, wrote>>

\* mutant: the count is taken when the answer is there.
LandCountsLate(a) ==
  /\ fetchOf[a].at = "land"
  /\ snaps' = [snaps EXCEPT ![a] = [has |-> TRUE, tree |-> fetchOf[a].tree,
                                    startedAt |-> invalid[a], leftover |-> fetchOf[a].leftover]]
  /\ fetchOf' = [fetchOf EXCEPT ![a] = NoFetch]
  /\ UNCHANGED <<tree, nap, naps, linked, index, capture, tool, invalid, wrote, setbacks>>

Land(a) ==
  /\ fetchOf[a].at = "land"
  /\ snaps' = [snaps EXCEPT ![a] = [has |-> TRUE, tree |-> fetchOf[a].tree,
                                    startedAt |-> fetchOf[a].startedAt,
                                    leftover |-> fetchOf[a].leftover]]
  /\ fetchOf' = [fetchOf EXCEPT ![a] = NoFetch]
  /\ UNCHANGED <<tree, nap, naps, linked, index, capture, tool, invalid, wrote, setbacks>>

\* agent/disposed: its entries go.  A refresh in flight lands under the old
\* agent, whom nobody asks any more.
AgentGone(a) ==
  /\ Setback
  /\ tool[a] = 0
  /\ snaps' = [snaps EXCEPT ![a] = NoSnapshot]
  /\ fetchOf' = [fetchOf EXCEPT ![a] = NoFetch]
  /\ invalid' = [invalid EXCEPT ![a] = 0]
  /\ UNCHANGED <<tree, nap, naps, linked, index, capture, tool, wrote>>

-----------------------------------------------------------------------------
(* The sandbox is put away. *)

\* A suspension takes the lock when no turn is open.  Without a client at hand
\* a hibernation captures nothing, and leaves the file as it is.
SuspendBegins ==
  /\ Unlocked /\ nap = "running" /\ naps < MaxNaps
  /\ \A a \in Askers : tool[a] = 0
  /\ naps' = naps + 1
  /\ capture' = [NoCapture EXCEPT !.at = IF linked THEN "walk" ELSE "stop"]
  /\ UNCHANGED <<tree, nap, linked, index, tool, invalid, snaps, fetchOf, wrote, setbacks>>

CaptureWalks ==
  /\ capture.at = "walk"
  /\ capture' = [at |-> "save", tree |-> tree]
  /\ UNCHANGED <<tree, nap, naps, linked, index, tool, invalid, snaps, fetchOf, wrote, setbacks>>

CaptureSaves ==
  /\ capture.at = "save"
  /\ capture' = [capture EXCEPT !.at = "stop"]
  /\ index' = [has |-> TRUE, tree |-> capture.tree, nap |-> naps]
  /\ UNCHANGED <<tree, nap, naps, linked, tool, invalid, snaps, fetchOf, wrote, setbacks>>

\* A failed capture removes the file, if that does not fail too, and goes on.
CaptureFails ==
  /\ capture.at \in {"walk", "save"} /\ Setback
  /\ index' \in {NoIndex, index}
  /\ capture' = [NoCapture EXCEPT !.at = "stop"]
  /\ UNCHANGED <<tree, nap, naps, linked, tool, invalid, snaps, fetchOf, wrote>>

Stopped ==
  /\ capture.at = "stop"
  /\ capture' = NoCapture
  /\ nap' = "away" /\ linked' = FALSE
  /\ UNCHANGED <<tree, naps, index, tool, invalid, snaps, fetchOf, wrote, setbacks>>

StopFails ==
  /\ capture.at = "stop" /\ Setback
  /\ capture' = NoCapture
  /\ UNCHANGED <<tree, nap, naps, linked, index, tool, invalid, snaps, fetchOf, wrote>>

\* The session is released, or its sandbox is found lost: the file goes.
Forgotten ==
  /\ Unlocked /\ nap # "none"
  /\ nap' = "none" /\ linked' = FALSE
  /\ index' = NoIndex
  /\ wrote' = [a \in Askers |-> 0]
  /\ UNCHANGED <<tree, naps, capture, tool, invalid, snaps, fetchOf, setbacks>>

\* An attach that fails evicts the client and leaves the record running.
Unlinked ==
  /\ Unlocked /\ linked /\ Setback
  /\ linked' = FALSE
  /\ UNCHANGED <<tree, nap, naps, index, capture, tool, invalid, snaps, fetchOf, wrote>>

HostReboots ==
  /\ Setback
  /\ linked' = FALSE /\ capture' = NoCapture
  /\ tool' = [a \in Askers |-> 0]
  /\ invalid' = [a \in Askers |-> 0]
  /\ snaps' = [a \in Askers |-> NoSnapshot]
  /\ fetchOf' = [a \in Askers |-> NoFetch]
  /\ UNCHANGED <<tree, nap, naps, index, wrote>>

-----------------------------------------------------------------------------

ReferenceInit ==
  /\ tree = 0 /\ nap = "none" /\ naps = 0 /\ linked = FALSE
  /\ index = NoIndex /\ capture = NoCapture
  /\ tool = [a \in Askers |-> 0]
  /\ invalid = [a \in Askers |-> 0]
  /\ snaps = [a \in Askers |-> NoSnapshot]
  /\ fetchOf = [a \in Askers |-> NoFetch]
  /\ wrote = [a \in Askers |-> 0]
  /\ setbacks = 0

ReferenceNext ==
  \/ HostReboots
  \/ \E a \in Askers :
       \/ ToolWrites(a) \/ ToolResult(a)
       \/ Refresh(a) \/ hibernatedFileIndex(a) \/ Load(a) \/ hasSandbox(a)
       \/ EnsureForWalk(a) \/ Walk(a) \/ FetchFails(a) \/ Land(a)
       \/ AgentGone(a)
  \/ ProcessTouches
  \/ SuspendBegins \/ CaptureWalks \/ CaptureSaves \/ CaptureFails
  \/ Stopped \/ StopFails
  \/ Forgotten \/ Unlinked

ReferenceSpec == ReferenceInit /\ [][ReferenceNext]_referenceVars

-----------------------------------------------------------------------------

\* A snapshot the service takes for current shows what the agent's own tools
\* wrote, by the tool results in its log, however the refresh raced with tool
\* calls, suspensions and wakes of the other agents: a result counted while
\* the refresh was under way makes the snapshot stale.  The exception is an
\* index that was left by an earlier suspension.
SnapshotCurrent ==
  \A a \in Askers :
    ~stale(a) => snaps[a].tree >= wrote[a] \/ snaps[a].leftover
=============================================================================
