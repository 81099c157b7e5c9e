------------------------- MODULE IdleScheduleProofs -------------------------
(***************************************************************************)
(* Proofs about IdleSchedule, for any number of sessions and any length of *)
(* the lock's queue.                                                       *)
(***************************************************************************)
EXTENDS IdleSchedule, FiniteSetTheorems, TLAPS

\* Without a crash the count is the number of open turns, so the guards tell the
\* truth.
CountExact == /\ dangling = {} /\ starting \cap open = {}
              /\ IsFiniteSet(open) /\ liveTurns = Cardinality(open)

-----------------------------------------------------------------------------
(* Types *)

\* The operations that can wait for the lock, and that nobody is none of them.
LEMMA OpsShape ==
  /\ Nobody \notin Ops
  /\ \A o \in Ops : o.op \in {"ensure", "tick", "release"}
  /\ \A c \in Callers : Ensure(c) \in Ops
  /\ \A a \in {"fresh", "stale"} : Tick(a) \in Ops
  /\ Release \in Ops
  BY DEF Ops, Nobody, Ensure, Tick, Release

\* markActive only makes ticks stale: nobody leaves the queue.
LEMMA OutdateType == ASSUME NEW q \in Seq(Ops)
                     PROVE  /\ Outdate(q) \in Seq(Ops) /\ Len(Outdate(q)) = Len(q)
                            /\ \A i \in 1..Len(q) : Outdate(q)[i] = Stale(q[i])
<1>1. \A o \in Ops : Stale(o) \in Ops
  BY OpsShape DEF Stale
<1>2. DOMAIN q = 1..Len(q) /\ Len(q) \in Nat /\ \A i \in 1..Len(q) : q[i] \in Ops
  OBVIOUS
<1>3. Outdate(q) = [i \in 1..Len(q) |-> Stale(q[i])]
  BY <1>2 DEF Outdate
<1>4. Outdate(q) \in Seq(Ops)
  BY <1>1, <1>2, <1>3
<1> QED BY <1>2, <1>3, <1>4

\* ... and the lock keeps its holder.
LEMMA StaleHolder == ASSUME holder \in Ops \cup {Nobody}
                     PROVE  /\ Stale(holder) \in Ops \cup {Nobody}
                            /\ Stale(holder).op = holder.op
  BY OpsShape DEF Stale, Tick, Nobody

\* What an operation leaves is a state of the record.
LEMMA EffectsType ==
  ASSUME TypeOK PROVE Effects(holder) \subseteq {"absent", "running", "suspended"}
  BY OpsShape DEF TypeOK, Effects, Nobody

\* Types, for any number of sessions: in particular the count of live turns never
\* goes below zero, whatever turn/end events a repaired log brings.
THEOREM TypeCorrect == Spec => []TypeOK
<1>1. Init => TypeOK
  BY DEF Init, TypeOK
<1>2. TypeOK /\ [Next]_vars => TypeOK'
  <2> SUFFICES ASSUME TypeOK, [Next]_vars PROVE TypeOK'
    OBVIOUS
  <2> USE OpsShape DEF TypeOK
  <2>1. ASSUME NEW s \in Sessions, AgentRuns(s) PROVE TypeOK'
    BY <2>1, OutdateType, StaleHolder DEF AgentRuns, markActive
  <2>2. ASSUME NEW s \in Sessions, TurnStart(s) PROVE TypeOK'
    BY <2>2 DEF TurnStart
  <2>3. ASSUME NEW s \in Sessions, TurnEnd(s) PROVE TypeOK'
    BY <2>3 DEF TurnEnd, endTurn, schedule, reconcile
  <2>4. ASSUME NEW s \in Sessions, RepairedEnd(s) PROVE TypeOK'
    BY <2>4 DEF RepairedEnd, endTurn, schedule, reconcile
  <2>5. ASSUME NEW c \in Callers, Ask(c) PROVE TypeOK'
    BY <2>5, OutdateType, StaleHolder DEF Ask, markActive
  <2>6. CASE NoteActivity
    BY <2>6, OutdateType, StaleHolder DEF NoteActivity, schedule
  <2>7. CASE WorkspaceWrite
    BY <2>7 DEF WorkspaceWrite, reconcile
  <2>8. CASE Restart
    BY <2>8, EffectsType, BoundsAssumption DEF Restart
  <2>9. CASE Fire
    BY <2>9 DEF Fire
  <2>10. CASE Begin
    BY <2>10 DEF Begin, Take
  <2>11. CASE Refuse
    BY <2>11 DEF Refuse, Take
  <2>12. CASE Effect
    BY <2>12, EffectsType DEF Effect
  <2>13. CASE Ensured
    BY <2>13, EffectsType DEF Ensured, Free, schedule
  <2>14. CASE Suspended
    BY <2>14, EffectsType DEF Suspended, Free
  <2>15. CASE SuspendThrows
    BY <2>15, EffectsType DEF SuspendThrows, Free
  <2>16. CASE Released
    BY <2>16 DEF Released, Free
  <2>17. CASE ReleaseThrows
    BY <2>17, EffectsType DEF ReleaseThrows, Free
  <2>18. CASE UNCHANGED vars
    BY <2>18 DEF vars
  <2> QED
    BY <2>1, <2>2, <2>3, <2>4, <2>5, <2>6, <2>7, <2>8, <2>9, <2>10, <2>11,
       <2>12, <2>13, <2>14, <2>15, <2>16, <2>17, <2>18
    DEF Next, Events, Lock
<1> QED
  BY <1>1, <1>2, PTL DEF Spec

-----------------------------------------------------------------------------
(* No turn is cut *)

\* The guards let nothing through while a turn is open.
LEMMA GuardsHold ==
  ASSUME TypeOK, CountExact, ~isTurnLive PROVE served = {}
<1>1. Cardinality(open) = 0
  BY DEF CountExact, TypeOK, isTurnLive
<1>2. open = {}
  BY <1>1, FS_EmptySet DEF CountExact
<1> QED BY <1>2 DEF TypeOK

\* On a host that does not restart, neither the countdown nor an archive puts the
\* sandbox away under a turn it serves, for any number of subagents: the live-turn
\* guard that suspend and release re-check inside the lock counts every open turn,
\* and a turn that opens later is served only after the operation has ended.
THEOREM NoTurnIsCut == ASSUME MaxCrash = 0 PROVE Spec => []NoTurnCut
<1>1. Init => CountExact /\ NoTurnCut
  BY FS_EmptySet DEF Init, CountExact, NoTurnCut, Nobody
<1>2. TypeOK /\ CountExact /\ NoTurnCut /\ [Next]_vars => (CountExact /\ NoTurnCut)'
  <2> SUFFICES ASSUME TypeOK, CountExact, NoTurnCut, [Next]_vars
               PROVE  (CountExact /\ NoTurnCut)'
    OBVIOUS
  <2>1. ASSUME NEW s \in Sessions, AgentRuns(s) PROVE (CountExact /\ NoTurnCut)'
    BY <2>1, StaleHolder DEF TypeOK, AgentRuns, markActive, CountExact, NoTurnCut
  <2>2. ASSUME NEW s \in Sessions, TurnStart(s) PROVE (CountExact /\ NoTurnCut)'
    <3>1. s \notin open
      BY <2>2 DEF TurnStart, CountExact
    <3>2. IsFiniteSet(open') /\ Cardinality(open') = Cardinality(open) + 1
      BY <2>2, <3>1, FS_AddElement DEF TurnStart, CountExact
    <3> QED BY <2>2, <3>2 DEF TurnStart, CountExact, NoTurnCut
  <2>3. ASSUME NEW s \in Sessions, TurnEnd(s) PROVE (CountExact /\ NoTurnCut)'
    <3>1. IsFiniteSet(open') /\ Cardinality(open') = Cardinality(open) - 1
      BY <2>3, FS_RemoveElement DEF TurnEnd, CountExact
    <3>2. Cardinality(open') \in Nat
      BY <3>1, FS_CardinalityType
    <3> QED BY <2>3, <3>1, <3>2 DEF TurnEnd, endTurn, TypeOK, CountExact, NoTurnCut
  <2>4. ASSUME NEW s \in Sessions, RepairedEnd(s) PROVE (CountExact /\ NoTurnCut)'
    BY <2>4 DEF RepairedEnd, CountExact
  <2>5. ASSUME NEW c \in Callers, Ask(c) PROVE (CountExact /\ NoTurnCut)'
    BY <2>5, StaleHolder DEF TypeOK, Ask, markActive, CountExact, NoTurnCut
  <2>6. CASE NoteActivity
    BY <2>6, StaleHolder DEF TypeOK, NoteActivity, CountExact, NoTurnCut
  <2>7. CASE WorkspaceWrite
    BY <2>7 DEF WorkspaceWrite, CountExact, NoTurnCut
  <2>8. CASE Restart
    BY <2>8, MaxCrash = 0 DEF Restart, TypeOK
  <2>9. CASE Fire
    BY <2>9 DEF Fire, CountExact, NoTurnCut
  <2>10. CASE Begin
    <3>1. UNCHANGED <<dangling, open, liveTurns, served>> /\ holder' = Head(queue)
      BY <2>10 DEF Begin, Take
    <3>2. holder'.op \in {"tick", "release"} => ~isTurnLive
      BY <2>10, <3>1 DEF Begin, suspendGuard, releaseGuard
    <3>3. holder'.op \in {"tick", "release"} => served' = {}
      BY <3>1, <3>2, GuardsHold
    <3> QED BY <2>10, <3>1, <3>3 DEF Begin, Take, CountExact, NoTurnCut
  <2>11. CASE Refuse
    BY <2>11 DEF Refuse, Take, CountExact, NoTurnCut
  <2>12. CASE Effect
    BY <2>12 DEF Effect, CountExact, NoTurnCut
  <2>13. CASE Ensured \/ Suspended \/ SuspendThrows \/ Released \/ ReleaseThrows
    BY <2>13 DEF Ensured, Suspended, SuspendThrows, Released, ReleaseThrows, Free,
                 CountExact, NoTurnCut, Nobody
  <2>14. CASE UNCHANGED vars
    BY <2>14 DEF vars, CountExact, NoTurnCut
  <2> QED
    BY <2>1, <2>2, <2>3, <2>4, <2>5, <2>6, <2>7, <2>8, <2>9, <2>10, <2>11,
       <2>12, <2>13, <2>14
    DEF Next, Events, Lock
<1> QED
  BY <1>1, <1>2, TypeCorrect, PTL DEF Spec

-----------------------------------------------------------------------------
(* A running record carries a timer *)

Queued(q, o) == \E i \in 1..Len(q) : q[i] = o
Waiting(o)   == holder = o \/ Queued(queue, o)

\* Somebody is going to arm the countdown of a running record, if nobody has.
AskWaits  == \E c \in Callers : Waiting(Ensure(c))
WillRearm == record = "running" => \/ timer = "armed" \/ isTurnLive
                                   \/ starting # {} \/ AskWaits
                                   \/ Waiting(Tick("fresh"))

\* Joining the queue: who waits goes on waiting ...
LEMMA QueuedAppend ==
  ASSUME NEW q \in Seq(Ops), NEW p \in Ops, NEW o, Queued(q, o)
  PROVE  Queued(Append(q, p), o)
  BY DEF Queued

\* ... and the newcomer waits too.
LEMMA AppendQueued ==
  ASSUME NEW q \in Seq(Ops), NEW p \in Ops PROVE Queued(Append(q, p), p)
<1>1. Len(Append(q, p)) = Len(q) + 1 /\ Append(q, p)[Len(q) + 1] = p
  OBVIOUS
<1> QED BY <1>1 DEF Queued

\* Serving the head of the queue leaves the others in it.
LEMMA QueuedTail ==
  ASSUME NEW q \in Seq(Ops), q # <<>>, NEW o, Queued(q, o)
  PROVE  Head(q) = o \/ Queued(Tail(q), o)
<1>1. PICK i \in 1..Len(q) : q[i] = o
  BY DEF Queued
<1>2. CASE i = 1
  BY <1>1, <1>2
<1>3. CASE i # 1
  <2>1. i - 1 \in 1..Len(Tail(q)) /\ Tail(q)[i - 1] = o
    BY <1>1, <1>3
  <2> QED BY <2>1 DEF Queued
<1> QED BY <1>2, <1>3

\* An ensureRunning under way still has its countdown to arm.
LEMMA HolderAsks ==
  ASSUME TypeOK, holder.op = "ensure" PROVE AskWaits
<1>1. holder \in [op : {"ensure"}, by : Callers]
  BY DEF TypeOK, Ops, Nobody
<1>2. holder = Ensure(holder.by) /\ holder.by \in Callers
  BY <1>1 DEF Ensure
<1> QED BY <1>2 DEF AskWaits, Waiting

\* An operation more in the queue leaves everyone in it.
LEMMA AppendKeeps ==
  ASSUME TypeOK, NEW o, Waiting(o), holder' = holder,
         queue' = queue \/ \E p \in Ops : queue' = Append(queue, p)
  PROVE  holder' = o \/ Queued(queue', o)
  BY QueuedAppend DEF Waiting, TypeOK

\* So does the lock's next holder.
LEMMA BeginKeeps ==
  ASSUME TypeOK, NEW o, o # Nobody, Waiting(o), Begin
  PROVE  holder' = o \/ Queued(queue', o)
  BY QueuedTail DEF Begin, Take, Waiting, TypeOK

\* A running record carries a timer once nothing is under way, for any number of
\* sessions, operations and crashes: ensureRunning, endTurn, a refused or failed
\* tick and boot between them always re-arm it, if ensureRunning does not throw.
THEOREM RunningCarriesTimer ==
  ASSUME "ensure" \notin Fails, "read" \notin Fails PROVE Spec => []TimerCarried
<1>1. Init => WillRearm
  BY DEF Init, WillRearm
<1>2. TypeOK /\ TypeOK' /\ WillRearm /\ [Next]_vars => WillRearm'
  <2> SUFFICES ASSUME TypeOK, TypeOK', WillRearm, [Next]_vars PROVE WillRearm'
    OBVIOUS
  <2> USE OpsShape
  <2>1. ASSUME NEW s \in Sessions, AgentRuns(s) PROVE WillRearm'
    BY <2>1 DEF AgentRuns, WillRearm
  <2>2. ASSUME NEW s \in Sessions, TurnStart(s) PROVE WillRearm'
    BY <2>2 DEF TurnStart, isTurnLive, TypeOK, WillRearm
  <2>3. ASSUME NEW s \in Sessions, TurnEnd(s) \/ RepairedEnd(s) PROVE WillRearm'
    BY <2>3 DEF TurnEnd, RepairedEnd, endTurn, schedule, WillRearm
  <2>4. ASSUME NEW c \in Callers, Ask(c) PROVE WillRearm'
    <3>1. /\ Outdate(queue) \in Seq(Ops) /\ Ensure(c) \in Ops
          /\ queue' = Outdate(queue) \o <<Ensure(c)>>
      BY <2>4, OutdateType DEF Ask, markActive, TypeOK
    <3>2. queue' = Append(Outdate(queue), Ensure(c))
      BY <3>1
    <3>3. Queued(queue', Ensure(c))
      BY <3>1, <3>2, AppendQueued
    <3> QED BY <3>3 DEF AskWaits, WillRearm, Waiting, Ensure
  <2>5. CASE NoteActivity
    BY <2>5 DEF NoteActivity, schedule, WillRearm
  <2>6. CASE WorkspaceWrite
    <3>1. /\ UNCHANGED <<record, timer, liveTurns, starting, holder>>
          /\ queue' = queue \/ \E p \in Ops : queue' = Append(queue, p)
      BY <2>6 DEF WorkspaceWrite, reconcile
    <3>2. AskWaits => AskWaits'
      BY <3>1, AppendKeeps DEF AskWaits, Waiting, Ensure
    <3> QED BY <3>1, <3>2, AppendKeeps DEF WillRearm, Waiting, isTurnLive, Tick
  <2>7. CASE Restart
    BY <2>7 DEF Restart, WillRearm
  <2>8. CASE Fire
    <3>1. queue' = Append(queue, Tick("fresh"))
      BY <2>8 DEF Fire
    <3>2. Queued(queue', Tick("fresh"))
      BY <3>1, AppendQueued DEF TypeOK
    <3> QED BY <3>2 DEF WillRearm, Waiting, Tick
  <2>9. CASE Begin
    <3>1. UNCHANGED <<record, timer, liveTurns, starting>>
      BY <2>9 DEF Begin, Take
    <3>2. \A c : Ensure(c) # Nobody /\ Tick("fresh") # Nobody
      BY DEF Ensure, Tick, Nobody
    <3>3. AskWaits => AskWaits'
      BY <2>9, <3>2, BeginKeeps DEF AskWaits, Waiting, Ensure
    <3>4. Waiting(Tick("fresh")) => Waiting(Tick("fresh"))'
      BY <2>9, <3>2, BeginKeeps DEF Waiting, Tick
    <3> QED BY <3>1, <3>3, <3>4 DEF WillRearm, isTurnLive
  <2>10. CASE Refuse
    <3>1. /\ UNCHANGED <<record, liveTurns, starting, holder>>
          /\ queue # <<>> /\ queue' = Tail(queue)
      BY <2>10 DEF Refuse, Take
    <3>2. Head(queue).op # "ensure" /\ (timer = "armed" => timer' = "armed")
      BY <2>10 DEF Refuse
    <3>3. \A c \in Callers : Head(queue) # Ensure(c)
      <4>1. \A c \in Callers : Ensure(c).op = "ensure"
        BY DEF Ensure
      <4> QED BY <3>2, <4>1
    <3>4. AskWaits => AskWaits'
      BY <3>1, <3>3, QueuedTail DEF AskWaits, Waiting, TypeOK, Ensure
    <3>5. Head(queue) = Tick("fresh") => isTurnLive
      BY <2>10 DEF Refuse, Tick, Release, suspendGuard
    <3>6. Waiting(Tick("fresh")) => isTurnLive \/ Waiting(Tick("fresh"))'
      BY <3>1, <3>5, QueuedTail DEF Waiting, TypeOK, Tick
    <3> QED BY <3>1, <3>2, <3>4, <3>6 DEF WillRearm, isTurnLive
  <2>11. CASE Effect
    <3>1. UNCHANGED <<timer, liveTurns, queue, holder, starting>>
      BY <2>11 DEF Effect
    <3>2. record' = "running" /\ record # "running" => holder.op = "ensure"
      BY <2>11 DEF Effect, Effects, TypeOK
    <3>3. AskWaits => AskWaits'
      BY <3>1 DEF AskWaits, Waiting
    <3> QED BY <3>1, <3>2, <3>3, HolderAsks DEF WillRearm, Waiting, isTurnLive
  <2>12. CASE Ensured
    BY <2>12, "ensure" \notin Fails, "read" \notin Fails DEF Ensured, schedule, WillRearm
  <2>13. CASE Suspended \/ SuspendThrows \/ Released \/ ReleaseThrows
    <3>1. UNCHANGED <<queue, starting, liveTurns>>
      BY <2>13 DEF Suspended, SuspendThrows, Released, ReleaseThrows, Free
    <3>2. \A c : holder # Ensure(c)
      BY <2>13 DEF Suspended, SuspendThrows, Released, ReleaseThrows, Ensure
    <3>3. AskWaits => AskWaits'
      BY <3>1, <3>2 DEF AskWaits, Waiting
    <3>4. record' = "running" => record = "running"
      BY <2>13 DEF Suspended, SuspendThrows, Released, ReleaseThrows, Effects
    <3>5. record' = "running" /\ holder = Tick("fresh") => timer' = "armed"
      BY <2>13 DEF Suspended, SuspendThrows, Released, ReleaseThrows, Tick
    <3>6. timer = "armed" => timer' = "armed"
      BY <2>13 DEF Suspended, SuspendThrows, Released, ReleaseThrows
    <3> QED BY <3>1, <3>3, <3>4, <3>5, <3>6 DEF WillRearm, Waiting, isTurnLive
  <2>14. CASE UNCHANGED vars
    BY <2>14 DEF vars, AskWaits, WillRearm, Waiting, isTurnLive
  <2> QED
    BY <2>1, <2>2, <2>3, <2>4, <2>5, <2>6, <2>7, <2>8, <2>9, <2>10, <2>11,
       <2>12, <2>13, <2>14
    DEF Next, Events, Lock
<1>3. WillRearm => TimerCarried
  <2> SUFFICES ASSUME WillRearm, holder = Nobody, queue = <<>>
               PROVE  ~AskWaits /\ ~Waiting(Tick("fresh"))
    BY DEF WillRearm, TimerCarried
  <2>1. \A o : ~Queued(queue, o)
    BY DEF Queued
  <2>2. Nobody.op = "none" /\ Tick("fresh").op = "tick"
    BY DEF Nobody, Tick
  <2>3. \A c \in Callers : Ensure(c).op = "ensure"
    BY DEF Ensure
  <2> QED BY <2>1, <2>2, <2>3 DEF AskWaits, Waiting
<1> QED
  BY <1>1, <1>2, <1>3, TypeCorrect, PTL DEF Spec

=============================================================================
