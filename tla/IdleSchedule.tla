---------------------------- MODULE IdleSchedule ----------------------------
(***************************************************************************)
(* When a session's sandbox may be put away: IdleSchedule (idle.ts),       *)
(* ArchiveRelease (archive-release.ts) and the event wiring of             *)
(* sandbox-manager.ts that drives them, for one root session and the       *)
(* subagent sessions that share its sandbox, its idle countdown and its    *)
(* lock.                                                                   *)
(*                                                                         *)
(* Turns, browser reads, countdowns and archiving only queue operations on *)
(* the session's lock (SandboxLifecycle.serialize); what an operation does *)
(* to the sandbox is module SandboxLifecycle, and here it is its effect on *)
(* the record's state.                                                     *)
(*                                                                         *)
(* The activity counter is kept as what it is compared for: the armed      *)
(* countdown always carries the current count, and a tick in flight is     *)
(* `fresh' until the next markActive makes it `stale'.                     *)
(***************************************************************************)
EXTENDS Integers, Sequences

CONSTANTS
    Sessions,     \* the root session and its subagents
    MaxQueue,     \* bound: operations waiting for the lock
    MaxCrash,     \* bound: host crashes
    Fails,        \* the operations that can throw; "ensure" is a session's
                  \* ensureRunning, "read" a browser's
    Viewers       \* browser reads: of a session with a record, or in a live turn

ASSUME SessionsAssumption == /\ Sessions # {}
                             /\ {"onRecord", "inTurn"} \cap Sessions = {}
ASSUME BoundsAssumption   == MaxQueue \in Nat /\ MaxCrash \in Nat
ASSUME FailsAssumption    == Fails \subseteq {"ensure", "read", "tick", "release"}
ASSUME ViewersAssumption  == Viewers \subseteq {"onRecord", "inTurn"}

VARIABLES
    record,    \* state of the session's record
    archived,  \* "yes" once the user archived the session
    timer,     \* IdleSchedule.timers: the countdown
    liveTurns, \* IdleSchedule.liveTurns: the count kept under the root's id
    queue,     \* operations waiting for the session's lock, first come first
    holder,    \* the operation that holds it
    starting,  \* sessions whose agent runs and whose turn/start is to come
    open,      \* sessions with an open turn
    served,    \* open turns that were handed the runner
    asking,    \* callers with an ensureRunning in the queue or under way
    dangling,  \* sessions whose turn a crash left open in the log
    crashes

vars == <<record, archived, timer, liveTurns, queue, holder, starting, open,
          served, asking, dangling, crashes>>

-----------------------------------------------------------------------------

Callers == Sessions \cup Viewers

\* An operation: an ensureRunning of a caller, a tick of the countdown, or a
\* release.
Ops == [op : {"ensure"}, by : Callers] \cup [op : {"tick"}, by : {"fresh", "stale"}]
         \cup [op : {"release"}, by : {"archive"}]
Nobody == [op |-> "none", by |-> "none"]

Ensure(c) == [op |-> "ensure", by |-> c]
Tick(a)   == [op |-> "tick", by |-> a]
Release   == [op |-> "release", by |-> "archive"]

TypeOK ==
    /\ record \in {"absent", "running", "suspended"}
    /\ archived \in {"no", "yes"}
    /\ timer \in {"armed", "off"}
    /\ liveTurns \in Nat
    /\ queue \in Seq(Ops)
    /\ holder \in Ops \cup {Nobody}
    /\ starting \subseteq Sessions /\ open \subseteq Sessions
    /\ served \subseteq open /\ dangling \subseteq Sessions
    /\ asking \subseteq Callers
    /\ crashes \in Nat

Init ==
    /\ record = "absent" /\ archived = "no" /\ timer = "off" /\ liveTurns = 0
    /\ queue = <<>> /\ holder = Nobody
    /\ starting = {} /\ open = {} /\ served = {} /\ asking = {}
    /\ dangling = {} /\ crashes = 0

-----------------------------------------------------------------------------
(* IdleSchedule *)

\* The activity counter moves on: what an earlier countdown captured is stale.
Stale(o)   == IF o = Tick("fresh") THEN Tick("stale") ELSE o
Outdate(q) == [i \in DOMAIN q |-> Stale(q[i])]

\* markActive, followed by joining the lock's queue with the operations ops.
markActive(ops) ==
    /\ timer' = "off"
    /\ queue' = Outdate(queue) \o ops
    /\ holder' = Stale(holder)

\* schedule arms, or re-arms, the countdown.
schedule == timer' = "armed"

\* endTurn: one turn fewer, and a countdown.
endTurn == /\ liveTurns' = IF liveTurns > 0 THEN liveTurns - 1 ELSE 0
           /\ schedule

isTurnLive == liveTurns > 0

\* The guards the lock re-checks before it suspends or releases.
suspendGuard(o) == o.by = "fresh" /\ ~isTurnLive
releaseUnguarded == record # "absent"  \* mutant
releaseGuard    == record # "absent" /\ ~isTurnLive

\* Mutant: the live turn is consulted before the lock, not in it.
reconcileIdle(a) == queue' = IF a = "yes" /\ record # "absent" /\ ~isTurnLive
                             THEN Append(queue, Release) ELSE queue

\* reconcileArchived reads the archive set and the records outside the lock.
reconcile(a) == queue' = IF a = "yes" /\ record # "absent"
                         THEN Append(queue, Release) ELSE queue

Room == Len(queue) < MaxQueue

-----------------------------------------------------------------------------
(* Events *)

\* agent/status "running": the agent is about to open a turn.  An archived
\* session never runs again.
AgentRuns(s) ==
    /\ s \notin starting \cup open \cup dangling /\ archived = "no"
    /\ starting' = starting \cup {s}
    /\ markActive(<<>>)
    /\ UNCHANGED <<record, archived, liveTurns, open, served, asking, dangling,
                   crashes>>

\* turn/start
TurnStart(s) ==
    /\ s \in starting
    /\ starting' = starting \ {s}
    /\ open' = open \cup {s}
    /\ liveTurns' = liveTurns + 1
    /\ UNCHANGED <<record, archived, timer, queue, holder, served, asking,
                   dangling, crashes>>

\* SandboxManager.ensureRunning up to the lock; c is a session in a turn, or a
\* browser read through clientForCurrentAgent, which asks only for a session
\* with a record or a live turn.
Ask(c) ==
    /\ \/ c \in open
       \/ c = "onRecord" /\ record # "absent"
       \/ c = "inTurn" /\ isTurnLive
    /\ c \notin asking /\ Room
    /\ asking' = asking \cup {c}
    /\ markActive(<<Ensure(c)>>)
    /\ UNCHANGED <<record, archived, liveTurns, starting, open, served, dangling,
                   crashes>>

\* noteActivity and markPreviewed: a keystroke or a previewed page keeps a
\* running sandbox awake.
NoteActivity ==
    /\ record = "running"
    /\ queue' = Outdate(queue) /\ holder' = Stale(holder)
    /\ schedule
    /\ UNCHANGED <<record, archived, liveTurns, starting, open, served, asking,
                   dangling, crashes>>

\* turn/end: the turn has settled what it asked for.
TurnEnd(s) ==
    /\ s \in open /\ s \notin asking /\ Room
    /\ open' = open \ {s} /\ served' = served \ {s}
    /\ endTurn /\ reconcile(archived)
    /\ UNCHANGED <<record, archived, holder, starting, asking, dangling, crashes>>

\* A turn/end that repairs the log of a session whose turn a crash left open
\* (external: dsh-session writes it before the session's next turn).
RepairedEnd(s) ==
    /\ s \in dangling /\ Room
    /\ dangling' = dangling \ {s}
    /\ endTurn /\ reconcile(archived)
    /\ UNCHANGED <<record, archived, holder, starting, open, served, asking,
                   crashes>>

\* The user archives the session, or the workspace registry writes anything else.
WorkspaceWrite ==
    /\ Room
    /\ archived' \in {archived, "yes"}
    /\ reconcile(archived')
    /\ UNCHANGED <<record, timer, liveTurns, holder, starting, open, served,
                   asking, dangling, crashes>>

\* The countdown ends: tick joins the lock's queue.
Fire ==
    /\ timer = "armed" /\ Room
    /\ timer' = "off"
    /\ queue' = Append(queue, Tick("fresh"))
    /\ UNCHANGED <<record, archived, liveTurns, holder, starting, open, served,
                   asking, dangling, crashes>>

-----------------------------------------------------------------------------
(* The lock *)

Take == /\ holder = Nobody /\ queue # <<>> /\ queue' = Tail(queue)
        /\ UNCHANGED <<record, archived, liveTurns, starting, open, served,
                       asking, dangling, crashes>>

\* The operation passes its guard and begins.
Begin ==
    /\ Take
    /\ LET o == Head(queue) IN
       /\ o.op = "tick" => suspendGuard(o)
       /\ o.op = "release" => releaseGuard
       /\ holder' = o
    /\ UNCHANGED timer

\* A tick the guard refuses retries while a turn is live; a refused release
\* waits for the next trigger.
Refuse ==
    /\ Take
    /\ LET o == Head(queue) IN
       \/ /\ o.op = "tick" /\ ~suspendGuard(o)
          /\ timer' = IF isTurnLive THEN "armed" ELSE timer
       \/ o.op = "release" /\ ~releaseGuard /\ UNCHANGED timer
    /\ UNCHANGED holder

\* What the operation o may have made of the record by now: a new or woken
\* sandbox or a forgotten one, a sandbox put away or found missing, no record.
Effects(o) ==
    {record} \cup
    CASE o.op = "ensure"  -> {"running", "absent"}
      [] o.op = "tick"    -> IF record = "running" THEN {"suspended", "absent"} ELSE {}
      [] o.op = "release" -> {"absent"}
      [] o.op = "none"    -> {}

\* The record changes before the operation ends.
Effect ==
    /\ holder # Nobody
    /\ record' \in Effects(holder) \ {record}
    /\ UNCHANGED <<archived, timer, liveTurns, queue, holder, starting, open,
                   served, asking, dangling, crashes>>

Free == /\ holder' = Nobody
        /\ UNCHANGED <<archived, liveTurns, queue, starting, open, dangling,
                       crashes>>

\* ensureRunning ends: the countdown is re-armed, unless it threw.
Ensured ==
    /\ holder.op = "ensure"
    /\ asking' = asking \ {holder.by}
    /\ \/ /\ record' = "running" /\ schedule
          /\ served' = served \cup ({holder.by} \cap open)
       \/ /\ (IF holder.by \in Sessions THEN "ensure" ELSE "read") \in Fails
          /\ record' \in Effects(holder)
          /\ UNCHANGED <<timer, served>>
    /\ Free

\* The suspension ends; a record that was not running had nothing to suspend.
Suspended ==
    /\ holder.op = "tick"
    /\ record' \in Effects(holder) \ {"running"}
    /\ Free /\ UNCHANGED <<timer, served, asking>>

\* Mutant: a failed suspension is not retried.
SuspendThrowsForGood ==
    /\ holder.op = "tick" /\ "tick" \in Fails
    /\ record' \in Effects(holder)
    /\ Free /\ UNCHANGED <<timer, served, asking>>

\* ... or it throws, and is retried after another idle delay unless something
\* happened meanwhile.
SuspendThrows ==
    /\ holder.op = "tick" /\ "tick" \in Fails
    /\ record' \in Effects(holder)
    /\ timer' = IF holder.by = "fresh" THEN "armed" ELSE timer
    /\ Free /\ UNCHANGED <<served, asking>>

Released ==
    /\ holder.op = "release"
    /\ record' = "absent"
    /\ Free /\ UNCHANGED <<timer, served, asking>>

ReleaseThrows ==
    /\ holder.op = "release" /\ "release" \in Fails
    /\ record' \in Effects(holder)
    /\ Free /\ UNCHANGED <<timer, served, asking>>

\* The host crashes and boots: the countdown of a running record is armed, and
\* the workspace registry triggers a reconcile once the records are read.
Restart ==
    /\ crashes < MaxCrash /\ MaxQueue > 0
    /\ crashes' = crashes + 1
    /\ dangling' = dangling \cup open
    /\ starting' = {} /\ open' = {} /\ served' = {} /\ asking' = {}
    /\ liveTurns' = 0 /\ holder' = Nobody
    /\ record' \in Effects(holder)
    /\ timer' = IF record' = "running" THEN "armed" ELSE "off"
    /\ queue' = IF archived = "yes" /\ record' # "absent" THEN <<Release>> ELSE <<>>
    /\ UNCHANGED archived

-----------------------------------------------------------------------------

Events == \/ \E s \in Sessions : AgentRuns(s) \/ TurnStart(s) \/ TurnEnd(s)
                                   \/ RepairedEnd(s)
          \/ \E c \in Callers : Ask(c)
          \/ NoteActivity \/ WorkspaceWrite \/ Restart
Lock   == Begin \/ Refuse \/ Effect \/ Ensured \/ Suspended \/ SuspendThrows \/ Released
            \/ ReleaseThrows

Next == Events \/ Fire \/ Lock

Spec == Init /\ [][Next]_vars

\* Every operation ends, a countdown fires, and an agent that runs opens its turn
\* and closes it.
Fair ==
    /\ WF_vars(Begin \/ Refuse)
    /\ WF_vars(Ensured \/ Suspended \/ SuspendThrows \/ Released \/ ReleaseThrows)
    /\ WF_vars(Fire)
    /\ \A s \in Sessions : WF_vars(TurnStart(s)) /\ SF_vars(TurnEnd(s))

\* Somebody uses the session, or a suspension fails.
Disturbance == \/ \E s \in Sessions : AgentRuns(s)
               \/ \E c \in Callers : Ask(c)
               \/ NoteActivity \/ WorkspaceWrite \/ SuspendThrows

FairSpec  == Spec /\ Fair
QuietSpec == FairSpec /\ <>[][~Disturbance]_vars

-----------------------------------------------------------------------------
(* Properties *)

\* Neither the countdown nor an archive puts the sandbox away under a turn that
\* works in it: a turn that opens after the guard let a suspension or release
\* through is served only after that operation has ended.
NoTurnCut == holder.op \in {"tick", "release"} => served = {}

\* A running record carries a timer (idle.ts:24, sandbox-manager.ts:1177) once
\* nothing is under way that would arm one: no operation, no turn.
TimerCarried ==
    /\ record = "running" /\ holder = Nobody /\ queue = <<>>
    /\ starting = {} /\ ~isTurnLive
    => timer = "armed"

\* A session nobody uses any more is put away, whatever ticks, turns, failed
\* suspensions and crashes came before.
PutAway == <>[](record # "running")

\* An archived session loses its sandbox and its record, also when it was
\* archived in the middle of a turn, of a wake or of a suspension.
ArchivedGone == archived = "yes" ~> record = "absent"

=============================================================================
