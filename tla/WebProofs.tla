------------------------------ MODULE WebProofs ------------------------------
(***************************************************************************)
(* Proofs about the remote MCP servers and their settings page, a preview   *)
(* request, the workspaces, and the sandbox a session is served from.       *)
(***************************************************************************)
EXTENDS McpServers, McpPage, PreviewRelay, Workspaces, SessionRoots, FiniteSetTheorems,
        WellFoundedInduction, TLAPS

(***************************************************************************)
(* McpServers: the clients of a server, for any number of fibers.           *)
(***************************************************************************)

FiberStates == {"none", "starting", "up", "failed", "closing", "closing-unsettled"}

\* The live mount owns the fibers that run, and the fibers that close belong
\* to the disposal the pool awaits, during which there is no mount.
FibersOwned ==
  /\ fiber \in [Fibers -> FiberStates]
  /\ mount.fibers \subseteq Fibers
  /\ mount = [live |-> mount.live, fibers |-> mount.fibers, url |-> mount.url, tok |-> mount.tok]
  /\ \A f \in mount.fibers : fiber[f] \in {"starting", "up", "failed"}
DisposalAlone ==
  /\ ~mount.live => mount.fibers = {}
  /\ pool.at = "dispose" => ~mount.live
  /\ \A f \in Fibers : fiber[f] \in {"closing", "closing-unsettled"} => pool.at = "dispose"
ClientsInv == FibersOwned /\ DisposalAlone /\ NoOrphanClient /\ OneClient

\* A new client runs in a fiber no client runs in.
LEMMA NewFiberIsFree == ASSUME FreeFibers # {} PROVE NewFiber \in Fibers /\ fiber[NewFiber] = "none"
  BY DEF NewFiber, FreeFibers

\* A mount made when no fiber runs or closes is the owner of its one client.
LEMMA MountEntryKeeps ==
  ASSUME ClientsInv, NEW s, mountEntry(s), mount.fibers = {}, pool'.at = "idle",
         \A f \in Fibers : fiber[f] \notin {"closing", "closing-unsettled"}
  PROVE  ClientsInv'
<1> USE DEF ClientsInv, FibersOwned, DisposalAlone, NoOrphanClient, OneClient, FiberStates
<1>1. \A f \in Fibers : fiber[f] = "none"
  OBVIOUS
<1>2. CASE FreeFibers # {} /\ fiber' = [fiber EXCEPT ![NewFiber] = "starting"]
             /\ mount' = [live |-> TRUE, fibers |-> {NewFiber}, url |-> s.url, tok |-> tokenFor(mem')]
  BY <1>1, <1>2, NewFiberIsFree
<1>3. CASE UNCHANGED fiber
             /\ mount' = [live |-> TRUE, fibers |-> {}, url |-> s.url, tok |-> tokenFor(mem')]
  BY <1>1, <1>3
<1> QED BY <1>2, <1>3 DEF mountEntry

\* A retired mount leaves only fibers that close, for a disposal to await.
LEMMA UnmountKeeps ==
  ASSUME ClientsInv, unmount, pool'.at = "dispose"
  PROVE  ClientsInv'
<1> USE DEF ClientsInv, FibersOwned, DisposalAlone, NoOrphanClient, OneClient, FiberStates
<1>1. mount' = NoMount /\ mount'.fibers = {} /\ ~mount'.live
  BY DEF unmount, NoMount
<1>2. fiber' \in [Fibers -> FiberStates]
  BY DEF unmount
<1>3. \A f \in Fibers : fiber'[f] \in {"none", "closing", "closing-unsettled"}
  BY DEF unmount
<1> QED BY <1>1, <1>2, <1>3 DEF NoMount

\* A client that fails is followed by at most one, of the same mount.
LEMMA RetryKeeps ==
  ASSUME ClientsInv, NEW f \in Fibers, NEW st, retryAfterFailure(f, st), UNCHANGED pool,
         \/ fiber[f] = "starting" /\ st = "failed"
         \/ fiber[f] = "closing-unsettled" /\ st = "closing"
  PROVE  ClientsInv'
<1> USE DEF ClientsInv, FibersOwned, DisposalAlone, NoOrphanClient, OneClient, FiberStates
<1>1. CASE /\ f \in mount.fibers
           /\ FreeFibers # {}
           /\ fiber' = [fiber EXCEPT ![f] = st, ![NewFiber] = "up"]
           /\ mount' = [mount EXCEPT !.fibers = @ \cup {NewFiber}]
  <2>1. st = "failed" /\ fiber[f] = "starting" /\ mount.live
    BY <1>1
  <2>2. NewFiber \in Fibers /\ fiber[NewFiber] = "none" /\ NewFiber # f
    BY <1>1, <2>1, NewFiberIsFree
  <2>3. \A g \in Fibers : fiber'[g] = IF g = NewFiber THEN "up" ELSE IF g = f THEN "failed" ELSE fiber[g]
    BY <1>1, <2>1, <2>2
  <2>4. mount'.fibers = mount.fibers \cup {NewFiber} /\ mount'.live = mount.live
          /\ mount' = [live |-> mount'.live, fibers |-> mount'.fibers, url |-> mount'.url, tok |-> mount'.tok]
    BY <1>1
  <2>5. \A g \in Fibers : g # f => fiber[g] \in {"none", "failed"}
    BY <2>1
  <2>6. fiber' \in [Fibers -> FiberStates]
    BY <1>1, <2>1, <2>2
  <2>7. FibersOwned' /\ DisposalAlone'
    BY <2>1, <2>2, <2>3, <2>4, <2>6
  <2>8. NoOrphanClient'
    BY <2>3, <2>4, <1>1
  <2>9. OneClient'
    BY <2>3, <2>5
  <2> QED BY <2>7, <2>8, <2>9
<1>2. CASE fiber' = [fiber EXCEPT ![f] = st] /\ UNCHANGED mount
  BY <1>2
<1> QED BY <1>1, <1>2 DEF retryAfterFailure

\* ClientsInv is inductive.
LEMMA ClientsInvStep == ClientsInv /\ [McpNext]_mcpVars => ClientsInv'
<1> SUFFICES ASSUME ClientsInv, [McpNext]_mcpVars PROVE ClientsInv'
  OBVIOUS
<1>0. ASSUME UNCHANGED clients, UNCHANGED pool PROVE ClientsInv'
  BY <1>0 DEF ClientsInv, FibersOwned, DisposalAlone, NoOrphanClient, OneClient, clients
<1>1. ASSUME NEW s, PoolReconcile(s) PROVE ClientsInv'
  <2>1. CASE unmount /\ pool' = [at |-> "dispose", want |-> publicEntry(s)]
    BY <2>1, UnmountKeeps
  <2>2. CASE ~mount.live /\ mountEntry(s) /\ jobDone
    <3>1. mount.fibers = {} /\ pool'.at = "idle"
      BY <2>2 DEF jobDone, Idle, ClientsInv, DisposalAlone
    <3>2. \A f \in Fibers : fiber[f] \notin {"closing", "closing-unsettled"}
      BY <1>1 DEF PoolReconcile, ClientsInv, DisposalAlone
    <3> QED BY <2>2, <3>1, <3>2, MountEntryKeeps
  <2>3. CASE UNCHANGED clients /\ jobDone
    <3>1. \A f \in Fibers : fiber[f] \notin {"closing", "closing-unsettled"}
      BY <1>1 DEF PoolReconcile, ClientsInv, DisposalAlone
    <3> QED BY <2>3, <3>1
            DEF ClientsInv, FibersOwned, DisposalAlone, NoOrphanClient, OneClient, clients, jobDone, Idle
  <2> QED BY <1>1, <2>1, <2>2, <2>3 DEF PoolReconcile
<1>2. CASE PoolBegin
  <2>1. CASE UNCHANGED clients /\ pool' = [Idle EXCEPT !.at = "read"]
    <3>1. \A f \in Fibers : fiber[f] \notin {"closing", "closing-unsettled"}
      BY <1>2 DEF PoolBegin, ClientsInv, DisposalAlone
    <3> QED BY <2>1, <3>1
            DEF ClientsInv, FibersOwned, DisposalAlone, NoOrphanClient, OneClient, clients, Idle
  <2>2. CASE unmount /\ pool' = [Idle EXCEPT !.at = "dispose"]
    BY <2>2, UnmountKeeps DEF Idle
  <2> QED BY <1>2, <2>1, <2>2 DEF PoolBegin
<1>3. CASE PoolDisposed
  <2>1. mount.fibers = {} /\ pool'.at = "idle"
          /\ \A f \in Fibers : fiber[f] \notin {"closing", "closing-unsettled"}
    BY <1>3 DEF PoolDisposed, jobDone, Idle, ClientsInv, DisposalAlone
  <2>2. ASSUME NEW s, mountEntry(s) PROVE ClientsInv'
    BY <2>1, <2>2, MountEntryKeeps
  <2>3. CASE UNCHANGED clients
    BY <2>1, <2>3 DEF ClientsInv, FibersOwned, DisposalAlone, NoOrphanClient, OneClient, clients
  <2> QED BY <1>3, <2>2, <2>3 DEF PoolDisposed
<1>4. ASSUME NEW f \in Fibers, FiberConnects(f) PROVE ClientsInv'
  BY <1>4 DEF FiberConnects, ClientsInv, FibersOwned, DisposalAlone, NoOrphanClient, OneClient, FiberStates
<1>5. ASSUME NEW f \in Fibers, FiberFails(f) PROVE ClientsInv'
  BY <1>5, RetryKeeps DEF FiberFails
<1>6. ASSUME NEW f \in Fibers, FiberDisposed(f) PROVE ClientsInv'
  BY <1>6 DEF FiberDisposed, ClientsInv, FibersOwned, DisposalAlone, NoOrphanClient, OneClient, FiberStates
<1>7. ASSUME NEW t \in Tasks, ReadsEnd(t) PROVE ClientsInv'
  BY <1>0, <1>1, <1>7 DEF ReadsEnd, RenewAll, ReplaceOAuth, StartEnds, SaveOAuth
<1>8. CASE WriteLands \/ Renew \/ Tick \/ Expire \/ RetryAt
  BY <1>0, <1>8 DEF WriteLands, Renew, Tick, Expire, RetryAt, clients
<1>9. CASE Operator
  BY <1>0, <1>9 DEF Operator, setMcpServer, deleteMcpServer, retryMcpServer, listMcpServers,
                    Start, Finish, clients
<1>10. CASE UNCHANGED mcpVars
  BY <1>0, <1>10 DEF mcpVars, clients
<1> QED
  BY <1>2, <1>3, <1>4, <1>5, <1>6, <1>7, <1>8, <1>9, <1>10 DEF McpNext, HostSteps

\* Every client fiber that runs is one the live mount will dispose: a
\* handshake that fails while its mount is disposed starts no replacement.
THEOREM NoOrphanClientHolds == McpSpec => []NoOrphanClient
<1>1. McpInit => ClientsInv
  BY DEF McpInit, ClientsInv, FibersOwned, DisposalAlone, NoOrphanClient, OneClient,
         FiberStates, NoMount, Idle
<1>2. ClientsInv => NoOrphanClient
  BY DEF ClientsInv
<1> QED BY <1>1, <1>2, ClientsInvStep, PTL DEF McpSpec

\* A client of the server starts only when every other one has failed or is
\* gone, so that a disposal is never interleaved with a mount.
THEOREM OneClientHolds == McpSpec => []OneClient
<1>1. McpInit => ClientsInv
  BY DEF McpInit, ClientsInv, FibersOwned, DisposalAlone, NoOrphanClient, OneClient,
         FiberStates, NoMount, Idle
<1>2. ClientsInv => OneClient
  BY DEF ClientsInv
<1> QED BY <1>1, <1>2, ClientsInvStep, PTL DEF McpSpec
-----------------------------------------------------------------------------
(***************************************************************************)
(* McpPage, for any servers, tabs and bounds.                               *)
(***************************************************************************)

\* A test in flight tests the fields as they stand, in a dialog that nothing
\* can close under it: a save waits for the test and the test for a save.
TestHeld ==
  /\ test.at \in {"idle", "sent"}
  /\ test.at = "sent" => dlg.open /\ test.entry = tested /\ ~pending
TestInv == TestHeld /\ TestHonest

\* TestInv is inductive.
LEMMA TestInvStep == TestInv /\ [PageNext]_pageVars => TestInv'
<1> SUFFICES ASSUME TestInv, [PageNext]_pageVars PROVE TestInv'
  OBVIOUS
<1> USE DEF TestInv, TestHeld, TestHonest, tested, pending, busy
<1>1. ASSUME UNCHANGED <<dlg, test, result, write>> PROVE TestInv'
  BY <1>1
<1>2. ASSUME NEW s \in Cards, CardWrites(s) PROVE TestInv'
  <2>1. ~dlg.open /\ ~pending
    BY <1>2 DEF CardWrites, cardControls
  <2>2. UNCHANGED <<dlg, test, result>>
    BY <1>2 DEF CardWrites
  <2> QED BY <2>1, <2>2
<1>3. ASSUME NEW t \in TabIds \cup {NoTab}, Save(t) PROVE TestInv'
  <2>1. dlg.open /\ ~busy
    BY <1>3 DEF Save, dialogControls
  <2>2. UNCHANGED <<dlg, test, result>>
    BY <1>3 DEF Save
  <2> QED BY <2>1, <2>2
<1>4. CASE OpenDialog
  <2>1. ~dlg.open /\ result' = NoEntry /\ UNCHANGED <<test, write>>
    BY <1>4 DEF OpenDialog, cardControls
  <2> QED BY <2>1
<1>5. CASE Change \/ CancelDialog
  <2>1. test.at = "idle" /\ result' = NoEntry /\ UNCHANGED <<test, write>>
    BY <1>5 DEF Change, Fields, CancelDialog, dialogControls
  <2> QED BY <2>1
<1>6. CASE Test
  <2>1. dlg.open /\ ~busy
    BY <1>6 DEF Test, dialogControls
  <2> QED BY <1>6, <2>1 DEF Test
<1>7. CASE TestAnswered
  <2>1. test' = NoTest /\ test'.at = "idle" /\ UNCHANGED <<dlg, write>>
    BY <1>7 DEF TestAnswered, NoTest
  <2>2. result' = test.entry \/ UNCHANGED result
    BY <1>7 DEF TestAnswered
  <2> QED BY <1>7, <2>1, <2>2 DEF TestAnswered
<1>8. CASE Written
  <2>1. pending /\ UNCHANGED <<dlg, test, result>>
    BY <1>8 DEF Written
  <2> QED BY <2>1
<1>9. CASE WriteFailed
  <2>1. pending /\ UNCHANGED <<dlg, test, result>>
    BY <1>9 DEF WriteFailed
  <2> QED BY <2>1
<1>10. CASE WriteAnswered
  <2>1. pending /\ UNCHANGED test /\ result' = IF dlg.open THEN NoEntry ELSE result
    BY <1>10 DEF WriteAnswered
  <2> QED BY <2>1
<1>11. CASE UNCHANGED pageVars
  BY <1>1, <1>11 DEF pageVars
<1>12. ASSUME NEW s \in Cards, Confirm(s) \/ Settles(s) \/ Worsens(s) PROVE TestInv'
  BY <1>1, <1>12 DEF Confirm, Settles, Worsens
<1>13. ASSUME NEW s \in Cards, NEW t \in TabIds \cup {NoTab}, Connect(s, t) PROVE TestInv'
  BY <1>1, <1>13 DEF Connect
<1>14. ASSUME NEW t \in TabIds, TabMoves(t) PROVE TestInv'
  BY <1>1, <1>14 DEF TabMoves
<1>15. ASSUME NEW c \in reads, Listed(c) \/ ListAnswered(c) PROVE TestInv'
  BY <1>1, <1>15 DEF Listed, ListAnswered
<1>16. ASSUME NEW c \in connects, Started(c) \/ ConnectAnswered(c) PROVE TestInv'
  BY <1>1, <1>16 DEF Started, ConnectAnswered
<1>17. CASE PollStarting \/ PollSignIn \/ WaitOverdue
  BY <1>1, <1>17 DEF PollStarting, PollSignIn, WaitOverdue
<1> QED
  BY <1>2, <1>3, <1>4, <1>5, <1>6, <1>7, <1>8, <1>9, <1>10, <1>11, <1>12, <1>13, <1>14,
     <1>15, <1>16, <1>17 DEF PageNext, Operates, Answers

\* The result of a connection test stands beside the fields it was made with.
THEOREM TestHonestHolds == PageSpec => []TestHonest
<1>1. PageInit => TestInv
  <2>1. PageInit => test = NoTest /\ result = NoEntry
    BY DEF PageInit
  <2> QED BY <2>1 DEF TestInv, TestHeld, TestHonest, NoTest
<1>2. TestInv => TestHonest
  BY DEF TestInv
<1> QED BY <1>1, <1>2, TestInvStep, PTL DEF PageSpec

-----------------------------------------------------------------------------

\* The dialog is about a server there is, or a name still to be entered.
DialogKnown ==
  /\ dlg = [open |-> dlg.open, edit |-> dlg.edit, on |-> dlg.on, keeps |-> dlg.keeps,
            s |-> dlg.s, url |-> dlg.url, auth |-> dlg.auth, token |-> dlg.token]
  /\ dlg.s \in Cards \cup {NoCard}
\* Every tab is in the browser's table, and a sign-in start has one.
TabsKnown ==
  /\ tabs = [t \in TabIds |-> [at |-> tabs[t].at, s |-> tabs[t].s, url |-> tabs[t].url]]
  /\ write.tab \in TabIds \cup {NoTab}
  /\ write = [at |-> write.at, op |-> write.op, s |-> write.s, entry |-> write.entry,
              tab |-> write.tab, opens |-> write.opens, ans |-> write.ans]
  /\ write.s \in Cards \cup {NoCard}
  /\ \A c \in connects :
       /\ DOMAIN c = {"at", "s", "before", "tab", "url"}
       /\ c.s \in Cards \cup {NoCard} /\ c.tab \in TabIds
BlankInv == TabsKnown /\ DialogKnown /\ NoBlankTab

\* BlankInv is inductive.
LEMMA BlankInvStep == BlankInv /\ [PageNext]_pageVars => BlankInv'
<1> SUFFICES ASSUME BlankInv, [PageNext]_pageVars PROVE BlankInv'
  OBVIOUS
<1> USE TabsAssumption DEF BlankInv, TabsKnown, NoBlankTab, pending, NoTab
<1>0. ASSUME UNCHANGED dlg PROVE DialogKnown'
  BY <1>0 DEF DialogKnown
<1>1. ASSUME UNCHANGED <<tabs, connects, write, dlg>> PROVE BlankInv'
  BY <1>0, <1>1
<1>2. ASSUME NEW s \in Cards, CardWrites(s) PROVE BlankInv'
  <2>1. ~pending /\ UNCHANGED <<tabs, connects, dlg>>
    BY <1>2 DEF CardWrites, cardControls
  <2>2. \E op, e : Send(op, s, e, NoTab, FALSE)
    BY <1>2 DEF CardWrites
  <2> QED BY <1>0, <2>1, <2>2 DEF Send
<1>3. ASSUME NEW t \in TabIds \cup {NoTab}, Save(t) PROVE BlankInv'
  <2>1. ~pending /\ UNCHANGED <<connects, dlg>>
    BY <1>3 DEF Save, dialogControls, busy
  <2>2. UNCHANGED tabs \/ (t \in TabIds /\ tabs' = [tabs EXCEPT ![t].at = "blank"])
    BY <1>3 DEF Save, OpenTab
  <2>3. \E n : Send("set", dlg.s, draft, t, n)
    BY <1>3 DEF Save
  <2>4. dlg.s \in Cards \cup {NoCard}
    BY DEF DialogKnown
  <2> QED BY <1>0, <2>1, <2>2, <2>3, <2>4 DEF Send
<1>4. CASE OpenDialog
  <2>1. UNCHANGED <<tabs, connects, write>>
    BY <1>4 DEF OpenDialog
  <2>2. DialogKnown'
    BY <1>4 DEF OpenDialog, NoDialog, DialogKnown
  <2> QED BY <2>1, <2>2
<1>5. CASE Change
  <2>1. UNCHANGED <<tabs, connects, write>>
    BY <1>5 DEF Change, Fields
  <2>2. DialogKnown'
    BY <1>5 DEF Change, Fields, DialogKnown
  <2> QED BY <2>1, <2>2
<1>6. CASE CancelDialog
  BY <1>6 DEF CancelDialog, NoDialog, DialogKnown
<1>7. CASE Test \/ TestAnswered
  BY <1>1, <1>7 DEF Test, TestAnswered
<1>8. CASE Written
  <2>1. pending /\ UNCHANGED <<tabs, connects, dlg>>
    BY <1>8 DEF Written
  <2>2. write' = [at |-> write'.at, op |-> write.op, s |-> write.s, entry |-> write.entry,
                  tab |-> write.tab, opens |-> write.opens, ans |-> write'.ans]
          /\ write'.at # "idle"
    BY <1>8 DEF Written
  <2> QED BY <1>0, <2>1, <2>2
<1>9. ASSUME NEW t \in TabIds \cup {NoTab}, t = write.tab, write' = NoWrite, UNCHANGED connects,
             tabs' = IF t = NoTab THEN tabs ELSE moveTab(t, "closed", NoCard, NoUrl),
             DialogKnown'
      PROVE BlankInv'
  <2>1. tabs' = [u \in TabIds |-> [at |-> tabs'[u].at, s |-> tabs'[u].s, url |-> tabs'[u].url]]
    BY <1>9 DEF moveTab
  <2>2. \A u \in TabIds : tabs'[u].at = "blank" => u # t /\ tabs[u].at = "blank"
    BY <1>9 DEF moveTab
  <2> QED BY <1>9, <2>1, <2>2 DEF NoWrite
<1>10. CASE WriteFailed
  BY <1>0, <1>9, <1>10 DEF WriteFailed
<1>11. CASE WriteAnswered
  <2>0. DialogKnown'
    BY <1>11 DEF WriteAnswered, NoDialog, DialogKnown
  <2>1. CASE write.tab # NoTab /\ UNCHANGED tabs
               /\ connects' = connects \cup {Starting(write.ans[write.s], write.s, write.tab)}
    <3>1. UNCHANGED tabs /\ write' = NoWrite
      BY <1>11, <2>1 DEF WriteAnswered
    <3> DEFINE c == Starting(write.ans[write.s], write.s, write.tab)
    <3>2. connects' = connects \cup {c}
      BY <2>1
    <3>3. /\ DOMAIN c = {"at", "s", "before", "tab", "url"}
          /\ c.s = write.s /\ c.tab = write.tab
      BY DEF Starting
    <3> HIDE DEF c
    <3> QED BY <2>0, <2>1, <3>1, <3>2, <3>3 DEF NoWrite
  <2>2. CASE UNCHANGED connects
               /\ tabs' = IF write.tab = NoTab THEN tabs ELSE moveTab(write.tab, "closed", NoCard, NoUrl)
    BY <1>9, <1>11, <2>0, <2>2 DEF WriteAnswered
  <2> QED BY <1>11, <2>1, <2>2 DEF WriteAnswered
<1>12. CASE UNCHANGED pageVars
  BY <1>1, <1>12 DEF pageVars
<1>13. ASSUME NEW s \in Cards, Confirm(s) \/ Settles(s) \/ Worsens(s) PROVE BlankInv'
  BY <1>1, <1>13 DEF Confirm, Settles, Worsens
<1>14. ASSUME NEW s \in Cards, NEW t \in TabIds \cup {NoTab}, Connect(s, t) PROVE BlankInv'
  <2>1. UNCHANGED <<write, dlg>>
    BY <1>14 DEF Connect
  <2>2. CASE t = NoTab
    BY <1>1, <1>14, <2>2 DEF Connect, OpenTab
  <2>3. CASE t \in TabIds
    <3>1. tabs' = [tabs EXCEPT ![t].at = "blank"]
      BY <1>14, <2>3 DEF Connect, OpenTab
    <3> DEFINE c == Starting(shown[s], s, t)
    <3>2. connects' = connects \cup {c}
      BY <1>14, <2>3 DEF Connect
    <3>3. /\ DOMAIN c = {"at", "s", "before", "tab", "url"}
          /\ c.s = s /\ c.tab = t
      BY DEF Starting
    <3> HIDE DEF c
    <3> QED BY <1>0, <2>1, <2>3, <3>1, <3>2, <3>3
  <2> QED BY <2>2, <2>3
<1>15. ASSUME NEW t \in TabIds, TabMoves(t) PROVE BlankInv'
  <2>1. PICK at \in {"done", "closed"} : tabs' = moveTab(t, at, NoCard, NoUrl)
    BY <1>15 DEF TabMoves
  <2>2. tabs' = [u \in TabIds |-> [at |-> tabs'[u].at, s |-> tabs'[u].s, url |-> tabs'[u].url]]
    BY <2>1 DEF moveTab
  <2>3. \A u \in TabIds : tabs'[u].at = "blank" => tabs[u].at = "blank"
    BY <2>1 DEF moveTab
  <2> QED BY <1>0, <1>15, <2>2, <2>3 DEF TabMoves
<1>16. ASSUME NEW c \in reads, Listed(c) \/ ListAnswered(c) PROVE BlankInv'
  BY <1>1, <1>16 DEF Listed, ListAnswered
<1>17. ASSUME NEW c \in connects, Started(c) PROVE BlankInv'
  <2> DEFINE got == [c EXCEPT !.at = "url", !.url = host[c.s].url]
             refused == [c EXCEPT !.at = "failed"]
  <2>1. \A d \in {got, refused} : DOMAIN d = DOMAIN c /\ d.s = c.s /\ d.tab = c.tab
    <3>1. DOMAIN c = {"at", "s", "before", "tab", "url"}
      OBVIOUS
    <3>2. DOMAIN got = DOMAIN c /\ got.s = c.s /\ got.tab = c.tab
      BY <3>1
    <3>3. DOMAIN refused = DOMAIN c /\ refused.s = c.s /\ refused.tab = c.tab
      BY <3>1
    <3> HIDE DEF got, refused
    <3> QED BY <3>2, <3>3
  <2>2. PICK d \in {got, refused} : connects' = (connects \ {c}) \cup {d}
    <3>1. connects' = (connects \ {c}) \cup {got} \/ connects' = (connects \ {c}) \cup {refused}
      BY <1>17 DEF Started
    <3> HIDE DEF got, refused
    <3> QED BY <3>1
  <2> HIDE DEF got, refused
  <2>3. UNCHANGED <<tabs, write, dlg>>
    BY <1>17 DEF Started
  <2> QED BY <1>0, <2>1, <2>2, <2>3
<1>18. ASSUME NEW c \in connects, ConnectAnswered(c) PROVE BlankInv'
  <2>1. PICK at, s, url : at \in {"signin", "closed"} /\ tabs' = moveTab(c.tab, at, s, url)
    BY <1>18 DEF ConnectAnswered
  <2>2. tabs' = [u \in TabIds |-> [at |-> tabs'[u].at, s |-> tabs'[u].s, url |-> tabs'[u].url]]
    BY <2>1 DEF moveTab
  <2>3. \A u \in TabIds : tabs'[u].at = "blank" => tabs[u].at = "blank" /\ u # c.tab
    BY <2>1 DEF moveTab
  <2>4. connects' = connects \ {c} /\ UNCHANGED <<write, dlg>>
    BY <1>18 DEF ConnectAnswered
  <2> QED BY <1>0, <2>2, <2>3, <2>4
<1>19. CASE PollStarting \/ PollSignIn \/ WaitOverdue
  BY <1>1, <1>19 DEF PollStarting, PollSignIn, WaitOverdue
<1> QED
  BY <1>2, <1>3, <1>4, <1>5, <1>6, <1>7, <1>8, <1>10, <1>11, <1>12, <1>13, <1>14,
     <1>15, <1>16, <1>17, <1>18, <1>19 DEF PageNext, Operates, Answers

\* A blank sign-in tab is never left behind by a failed, refused or needless
\* sign-in: some call in flight is going to point it somewhere or close it.
THEOREM NoBlankTabHolds == PageSpec => []NoBlankTab
<1>1. PageInit => BlankInv
  <2>1. PageInit => /\ tabs = [t \in TabIds |-> [at |-> "unused", s |-> NoCard, url |-> NoUrl]]
                    /\ connects = {} /\ write = NoWrite /\ dlg = NoDialog
    BY DEF PageInit
  <2> QED BY <2>1 DEF BlankInv, TabsKnown, DialogKnown, NoBlankTab, NoWrite, NoDialog
<1>2. BlankInv => NoBlankTab
  BY DEF BlankInv
<1> QED BY <1>1, <1>2, BlankInvStep, PTL DEF PageSpec
-----------------------------------------------------------------------------
(***************************************************************************)
(* PreviewRelay, for bodies and streams of any size.                        *)
(***************************************************************************)

Messages == {"head", "body", "end", "error"}

UploadType == upload = [chunks |-> upload.chunks, whole |-> upload.whole] /\ upload.chunks \in Nat
StateTypes ==
  /\ method \in {"GET", "HEAD"}
  /\ relay \in {"none", "waiting", "relaying", "writing", "done"}
  /\ rpc \in {"none", "open", "aborted", "broken", "ended"}
ReadType == read \in [at : {"head", "body", "end"}, chunks : Nat]
WireTypes == up \in Seq(Messages) /\ down \in Seq(Messages)
RunnerType ==
  runner \in [at : {"head", "body", "dial", "copy", "done"}, body : Nat, sent : Nat]
ServerType ==
  /\ server = [at |-> server.at, got |-> server.got, head |-> server.head, made |-> server.made]
  /\ server.at \in {"idle", "serving", "ended", "broken", "dropped"}
  /\ server.got \in Nat /\ server.made \in Nat
ReplyType ==
  reply \in [status : {0, 200, 404, 502, 503}, got : Nat, at : {"open", "ended", "destroyed"}]
PreviewTypes ==
  UploadType /\ StateTypes /\ ReadType /\ WireTypes /\ RunnerType /\ ServerType /\ ReplyType

\* Before the call there is nothing of the request beyond the relay.
Untouched ==
  /\ browser = "none" => relay = "none"
  /\ relay \in {"none", "waiting"} => rpc = "none" /\ reply = NoReply
  /\ rpc = "none" => /\ up = <<>> /\ down = <<>>
                     /\ read.at = "head" /\ read.chunks = 0
                     /\ runner.at = "head" /\ runner.body = 0 /\ runner.sent = 0
                     /\ server.at = "idle" /\ server.made = 0

\* Messages of the request sent by the relay and taken by the runner so far.
SentUp == IF read.at = "head" THEN 0 ELSE IF read.at = "body" THEN 1 + read.chunks ELSE 2 + read.chunks
TakenUp == IF runner.at = "head" THEN 0 ELSE IF runner.at = "body" THEN 1 + runner.body
           ELSE 2 + runner.body

\* The k-th message of a request: its head, its body, and last its end.
UpMessage(k) == IF k = 1 THEN "head" ELSE IF read.at = "end" /\ k = SentUp THEN "end" ELSE "body"

\* What is under way to the runner is what it has not taken yet, in order.
UpInOrder ==
  /\ read.chunks <= upload.chunks
  /\ read.at = "head" => read.chunks = 0
  /\ read.at = "end" => upload.whole /\ read.chunks = upload.chunks
  /\ runner.at = "head" => runner.body = 0
  /\ runner.at # "done" => /\ SentUp = TakenUp + Len(up)
                           /\ \A i \in 1 .. Len(up) : up[i] = UpMessage(TakenUp + i)
  /\ runner.at \in {"dial", "copy"} => read.at = "end" /\ runner.body = read.chunks

RequestInv == Untouched /\ UpInOrder /\ RequestWhole

\* The types are kept by every step.
LEMMA PreviewTypesStep == PreviewTypes /\ [PreviewNext]_previewVars => PreviewTypes'
<1> SUFFICES ASSUME PreviewTypes, [PreviewNext]_previewVars PROVE PreviewTypes'
  OBVIOUS
<1> USE DEF PreviewTypes, ends, front
<1>0. /\ UNCHANGED upload => UploadType'
      /\ UNCHANGED <<method, relay, rpc>> => StateTypes'
      /\ UNCHANGED read => ReadType'
      /\ UNCHANGED <<up, down>> => WireTypes'
      /\ UNCHANGED runner => RunnerType'
      /\ UNCHANGED server => ServerType'
      /\ UNCHANGED reply => ReplyType'
  BY DEF UploadType, StateTypes, ReadType, WireTypes, RunnerType, ServerType, ReplyType
<1>1. CASE UNCHANGED previewVars
  BY <1>0, <1>1 DEF previewVars
<1>2. ASSUME NEW kind, NEW m \in {"GET", "HEAD"}, Arrive(kind, m) PROVE PreviewTypes'
  <2>1. StateTypes' /\ ReplyType'
    BY <1>2 DEF Arrive, Whole, StateTypes, ReplyType
  <2> QED BY <1>0, <1>2, <2>1 DEF Arrive
<1>3. CASE Upload
  <2>1. upload' = [upload EXCEPT !.chunks = @ + 1] \/ upload' = [upload EXCEPT !.whole = TRUE]
    BY <1>3 DEF Upload
  <2>2. UploadType'
    BY <2>1 DEF UploadType
  <2> QED BY <1>0, <1>3, <2>2 DEF Upload
<1>4. CASE BrowserLeaves \/ Close
  <2>1. StateTypes'
    BY <1>4 DEF BrowserLeaves, Close, Leave, StateTypes
  <2> QED BY <1>0, <1>4, <2>1 DEF BrowserLeaves, Close
<1>5. CASE Closed
  BY <1>0, <1>5 DEF Closed
<1>6. CASE TunnelLost
  <2>1. StateTypes'
    BY <1>6 DEF TunnelLost, StateTypes
  <2> QED BY <1>0, <1>6, <2>1 DEF TunnelLost
<1>7. CASE Serve
  <2>1. server' \in {[server EXCEPT !.head = TRUE], [server EXCEPT !.made = @ + 1],
                    [server EXCEPT !.at = "ended"], [server EXCEPT !.at = "broken", !.head = TRUE]}
    BY <1>7 DEF Serve
  <2>2. ASSUME server' = [server EXCEPT !.at = "broken", !.head = TRUE] PROVE ServerType'
    <3>1. server'.at = "broken" /\ server'.got = server.got /\ server'.made = server.made
      BY <2>2 DEF ServerType
    <3>2. server' = [at |-> server'.at, got |-> server'.got, head |-> server'.head, made |-> server'.made]
      BY <2>2 DEF ServerType
    <3> QED BY <3>1, <3>2 DEF ServerType
  <2>3. ServerType'
    BY <2>1, <2>2 DEF ServerType
  <2> QED BY <1>0, <1>7, <2>3 DEF Serve
<1>8. CASE Waited
  <2>1. StateTypes' /\ ReplyType'
    BY <1>8 DEF Waited, Whole, StateTypes, ReplyType
  <2> QED BY <1>0, <1>8, <2>1 DEF Waited
<1>9. CASE previewMessages
  <2>1. StateTypes'
    BY <1>9 DEF previewMessages, StateTypes
  <2>2. ReadType'
    BY <1>9 DEF previewMessages, ReadType
  <2>3. WireTypes'
    BY <1>9 DEF previewMessages, WireTypes, Messages
  <2> QED BY <1>0, <1>9, <2>1, <2>2, <2>3 DEF previewMessages
<1>10. ASSUME Fail PROVE relay' = "done" /\ rpc' \in {"none", "aborted", "broken", "ended"} /\ ReplyType'
  BY <1>10 DEF Fail, Whole, StateTypes, ReplyType
<1>11. CASE RelayTakes
  <2>1. StateTypes' /\ ReplyType'
    BY <1>10, <1>11 DEF RelayTakes, StateTypes, ReplyType
  <2>2. WireTypes'
    BY <1>11 DEF RelayTakes, WireTypes
  <2> QED BY <1>0, <1>11, <2>1, <2>2 DEF RelayTakes
<1>12. CASE Wrote \/ RelayFails
  <2>1. StateTypes' /\ ReplyType'
    BY <1>10, <1>12 DEF Wrote, RelayFails, StateTypes, ReplyType
  <2> QED BY <1>0, <1>12, <2>1 DEF Wrote, RelayFails
<1>13. \A m \in Messages : Down(m) => down' \in Seq(Messages)
  BY DEF Down, WireTypes
<1>14. CASE ProxyReceive
  <2>1. RunnerType'
    BY <1>14 DEF ProxyReceive, RunnerType
  <2>2. up' \in Seq(Messages)
    BY <1>14 DEF ProxyReceive, WireTypes
  <2>3. down' \in Seq(Messages)
    BY <1>13, <1>14 DEF ProxyReceive, WireTypes, Messages
  <2> QED BY <1>0, <1>14, <2>1, <2>2, <2>3 DEF ProxyReceive, WireTypes
<1>15. CASE Dial \/ SendHead
  <2>1. RunnerType'
    BY <1>15 DEF Dial, SendHead, RunnerType
  <2>2. ServerType'
    BY <1>15 DEF Dial, SendHead, ServerType, RunnerType
  <2>3. WireTypes'
    BY <1>13, <1>15 DEF Dial, SendHead, WireTypes, Messages
  <2> QED BY <1>0, <1>15, <2>1, <2>2, <2>3 DEF Dial, SendHead
<1>16. CASE Copy \/ ProxyCancelled
  <2>1. RunnerType'
    BY <1>16 DEF Copy, ProxyCancelled, RunnerType
  <2>2. ServerType'
    BY <1>16 DEF Copy, ProxyCancelled, ServerType
  <2>3. WireTypes'
    BY <1>13, <1>16 DEF Copy, ProxyCancelled, WireTypes, Messages
  <2> QED BY <1>0, <1>16, <2>1, <2>2, <2>3 DEF Copy, ProxyCancelled
<1> QED
  BY <1>1, <1>2, <1>3, <1>4, <1>5, <1>6, <1>7, <1>8, <1>9, <1>11, <1>12, <1>14, <1>15, <1>16
     DEF PreviewNext, RelaySteps, RunnerSteps
\* The relay appends the message that comes next.
LEMMA UpGrows ==
  ASSUME PreviewTypes, UpInOrder, UNCHANGED runner, NEW m \in Messages, up' = Append(up, m),
         ReadType', read.at # "end", SentUp' = SentUp + 1, m = UpMessage(SentUp)',
         runner.at # "done" => runner.at \in {"head", "body"}
  PROVE  runner'.at # "done" => /\ SentUp' = TakenUp' + Len(up')
                                /\ \A i \in 1 .. Len(up') : up'[i] = UpMessage(TakenUp + i)'
<1> SUFFICES ASSUME runner.at # "done"
             PROVE  /\ SentUp' = TakenUp' + Len(up')
                    /\ \A i \in 1 .. Len(up') : up'[i] = UpMessage(TakenUp + i)'
  OBVIOUS
<1>0. TakenUp \in Nat /\ SentUp \in Nat /\ TakenUp' = TakenUp /\ Len(up) \in Nat
  BY DEF PreviewTypes, RunnerType, ReadType, WireTypes, TakenUp, SentUp
<1>1. Len(up') = Len(up) + 1 /\ SentUp = TakenUp + Len(up)
  BY DEF PreviewTypes, WireTypes, UpInOrder
<1>2. ASSUME NEW i \in 1 .. Len(up) PROVE up'[i] = UpMessage(TakenUp + i)'
  <2>1. up'[i] = up[i] /\ up[i] = UpMessage(TakenUp + i)
    BY DEF PreviewTypes, WireTypes, UpInOrder
  <2>2. TakenUp + i < SentUp'
    BY <1>0, <1>1
  <2> QED BY <1>0, <2>1, <2>2 DEF UpMessage
<1>3. ASSUME NEW i \in Nat, i = Len(up) + 1 PROVE up'[i] = UpMessage(TakenUp + i)'
  <2>1. up'[i] = m
    BY <1>3 DEF PreviewTypes, WireTypes
  <2>2. TakenUp' + i = SentUp'
    BY <1>0, <1>1, <1>3
  <2> QED BY <1>0, <2>1, <2>2 DEF UpMessage
<1>4. ASSUME NEW i \in 1 .. Len(up') PROVE up'[i] = UpMessage(TakenUp + i)'
  <2>1. i \in 1 .. Len(up) \/ i = Len(up) + 1
    BY <1>0, <1>1
  <2> QED BY <1>0, <1>2, <1>3, <2>1
<1> QED BY <1>0, <1>1, <1>4

\* The runner takes the message at the head.
LEMMA UpShrinks ==
  ASSUME PreviewTypes, UpInOrder, UNCHANGED <<read, upload>>, up # <<>>, up' = Tail(up),
         RunnerType', runner.at # "done", TakenUp' = TakenUp + 1
  PROVE  /\ SentUp' = TakenUp' + Len(up')
         /\ \A i \in 1 .. Len(up') : up'[i] = UpMessage(TakenUp + i)'
<1>a. TakenUp \in Nat /\ Len(up) \in Nat
  BY DEF PreviewTypes, RunnerType, WireTypes, TakenUp
<1>b. SentUp \in Nat /\ SentUp' = SentUp
  BY DEF PreviewTypes, ReadType, SentUp
<1>0. TakenUp \in Nat /\ SentUp \in Nat /\ SentUp' = SentUp /\ Len(up) \in Nat
  BY <1>a, <1>b
<1>1. Len(up') = Len(up) - 1 /\ \A i \in 1 .. Len(up') : up'[i] = up[i + 1] /\ i + 1 \in 1 .. Len(up)
  BY DEF PreviewTypes, WireTypes
<1>2. SentUp = TakenUp + Len(up) /\ \A i \in 1 .. Len(up) : up[i] = UpMessage(TakenUp + i)
  BY DEF UpInOrder
<1>3. ASSUME NEW i \in 1 .. Len(up') PROVE up'[i] = UpMessage(TakenUp + i)'
  <2>1. up'[i] = UpMessage(TakenUp + (i + 1))
    BY <1>1, <1>2
  <2>2. TakenUp + (i + 1) = TakenUp' + i
    BY <1>0
  <2> QED BY <1>0, <2>1, <2>2 DEF UpMessage
<1> QED BY <1>0, <1>1, <1>2, <1>3

\* The first message under way is the one after those taken.
LEMMA UpFirst ==
  ASSUME PreviewTypes, UpInOrder, up # <<>>, runner.at # "done"
  PROVE  Head(up) = UpMessage(TakenUp + 1) /\ SentUp >= TakenUp + 1
<1>1. Head(up) = up[1] /\ Len(up) \in Nat /\ Len(up) >= 1
  BY DEF PreviewTypes, WireTypes
<1>2. TakenUp \in Nat /\ SentUp \in Nat
  BY DEF PreviewTypes, RunnerType, ReadType, TakenUp, SentUp
<1> QED BY <1>1, <1>2 DEF UpInOrder

\* RequestInv is inductive.
LEMMA RequestInvStep == PreviewTypes /\ RequestInv /\ [PreviewNext]_previewVars => RequestInv'
<1> SUFFICES ASSUME PreviewTypes, RequestInv, [PreviewNext]_previewVars PROVE RequestInv'
  OBVIOUS
<1>0. PreviewTypes'
  BY PreviewTypesStep
<1> USE DEF RequestInv, ends, front
<1>1. ASSUME UNCHANGED <<upload, read, up, runner>> PROVE UpInOrder'
  BY <1>1 DEF UpInOrder, SentUp, TakenUp, UpMessage
<1>2. ASSUME UNCHANGED <<upload, server>> PROVE RequestWhole'
  BY <1>2 DEF RequestWhole
<1>3. CASE UNCHANGED previewVars
  BY <1>1, <1>2, <1>3 DEF previewVars, Untouched
<1>4. ASSUME NEW kind, NEW m \in {"GET", "HEAD"}, Arrive(kind, m) PROVE RequestInv'
  <2>1. Untouched'
    BY <1>4 DEF Arrive, Untouched
  <2> QED BY <1>1, <1>2, <1>4, <2>1 DEF Arrive
<1>5. CASE Upload
  <2>1. ~upload.whole /\ upload'.chunks >= upload.chunks /\ UNCHANGED <<read, up, runner, server>>
    BY <1>5 DEF Upload, PreviewTypes, UploadType
  <2>2. Untouched'
    BY <1>5 DEF Upload, Untouched
  <2>3. RequestWhole'
    BY <2>1 DEF RequestWhole
  <2>4. UpInOrder'
    BY <2>1, <1>0 DEF UpInOrder, SentUp, TakenUp, UpMessage, PreviewTypes, UploadType, ReadType
  <2> QED BY <2>2, <2>3, <2>4
<1>6. CASE BrowserLeaves \/ Close
  <2>1. Untouched'
    BY <1>6 DEF BrowserLeaves, Close, Leave, Untouched
  <2> QED BY <1>1, <1>2, <1>6, <2>1 DEF BrowserLeaves, Close
<1>7. CASE Closed \/ TunnelLost
  <2>1. Untouched'
    BY <1>7 DEF Closed, TunnelLost, Untouched
  <2> QED BY <1>1, <1>2, <1>7, <2>1 DEF Closed, TunnelLost
<1>8. CASE Serve
  <2>1. server.at = "serving" /\ server'.got = server.got /\ UNCHANGED upload
    BY <1>8 DEF Serve, PreviewTypes, ServerType
  <2>2. RequestWhole'
    BY <2>1 DEF RequestWhole
  <2>3. Untouched'
    BY <1>8 DEF Serve, Untouched
  <2> QED BY <1>1, <1>8, <2>2, <2>3 DEF Serve
<1>9. CASE Waited
  <2>1. Untouched'
    BY <1>9 DEF Waited, Untouched
  <2> QED BY <1>1, <1>2, <1>9, <2>1 DEF Waited
<1>10. CASE previewMessages
  <2>1. Untouched' /\ RequestWhole'
    BY <1>2, <1>10 DEF previewMessages, Untouched
  <2>2. CASE UNCHANGED <<up, read>>
    BY <1>1, <1>10, <2>1, <2>2 DEF previewMessages
  <2>3. UNCHANGED <<upload, runner>>
    BY <1>10 DEF previewMessages
  <2>4. read.at # "end" => (runner.at # "done" => runner.at \in {"head", "body"})
    BY DEF UpInOrder, PreviewTypes, RunnerType
  <2>5. CASE read.at = "head" /\ up' = Append(up, "head") /\ read' = [read EXCEPT !.at = "body"]
    <3>1. read'.at = "body" /\ read'.chunks = 0 /\ read.chunks = 0
      BY <2>5 DEF PreviewTypes, ReadType, UpInOrder
    <3>2. SentUp = 0 /\ SentUp' = 1 /\ "head" = UpMessage(SentUp)'
      BY <2>5, <3>1 DEF SentUp, UpMessage
    <3>3. runner'.at # "done" => /\ SentUp' = TakenUp' + Len(up')
                                 /\ \A i \in 1 .. Len(up') : up'[i] = UpMessage(TakenUp + i)'
      BY <1>0, <2>3, <2>4, <2>5, <3>2, UpGrows DEF Messages, PreviewTypes
    <3> QED BY <2>1, <2>3, <2>4, <2>5, <3>1, <3>3 DEF UpInOrder, PreviewTypes, UploadType
  <2>6. CASE /\ read.at = "body" /\ read.chunks < upload.chunks
             /\ up' = Append(up, "body") /\ read' = [read EXCEPT !.chunks = @ + 1]
    <3>1. read'.at = "body" /\ read'.chunks = read.chunks + 1 /\ read.chunks \in Nat
      BY <2>6 DEF PreviewTypes, ReadType
    <3>2. SentUp' = SentUp + 1 /\ "body" = UpMessage(SentUp)'
      BY <2>6, <3>1 DEF SentUp, UpMessage
    <3>3. runner'.at # "done" => /\ SentUp' = TakenUp' + Len(up')
                                 /\ \A i \in 1 .. Len(up') : up'[i] = UpMessage(TakenUp + i)'
      BY <1>0, <2>3, <2>4, <2>6, <3>2, UpGrows DEF Messages, PreviewTypes
    <3> QED BY <2>1, <2>3, <2>4, <2>6, <3>1, <3>3 DEF UpInOrder, PreviewTypes, UploadType
  <2>7. CASE /\ read.at = "body" /\ read.chunks = upload.chunks /\ upload.whole
             /\ up' = Append(up, "end") /\ read' = [read EXCEPT !.at = "end"]
    <3>1. read'.at = "end" /\ read'.chunks = read.chunks /\ read.chunks \in Nat
      BY <2>7 DEF PreviewTypes, ReadType
    <3>2. SentUp' = SentUp + 1 /\ "end" = UpMessage(SentUp)'
      BY <2>7, <3>1 DEF SentUp, UpMessage
    <3>3. runner'.at # "done" => /\ SentUp' = TakenUp' + Len(up')
                                 /\ \A i \in 1 .. Len(up') : up'[i] = UpMessage(TakenUp + i)'
      BY <1>0, <2>3, <2>4, <2>7, <3>2, UpGrows DEF Messages, PreviewTypes
    <3> QED BY <2>1, <2>3, <2>4, <2>7, <3>1, <3>3 DEF UpInOrder, PreviewTypes, UploadType
  <2> QED BY <1>10, <2>2, <2>5, <2>6, <2>7 DEF previewMessages
<1>11. CASE RelayTakes \/ Wrote \/ RelayFails
  <2>1. Untouched'
    BY <1>11 DEF RelayTakes, Wrote, RelayFails, Fail, Untouched
  <2> QED BY <1>1, <1>2, <1>11, <2>1 DEF RelayTakes, Wrote, RelayFails
<1>12. CASE ProxyReceive
  <2>1. UNCHANGED <<upload, read, server>> /\ up # <<>> /\ up' = Tail(up) /\ runner.at \in {"head", "body"}
    BY <1>12 DEF ProxyReceive
  <2>2. Untouched' /\ RequestWhole'
    BY <1>2, <1>12 DEF ProxyReceive, Untouched
  <2>3. CASE runner'.at = "done"
    BY <2>1, <2>2, <2>3 DEF UpInOrder
  <2>4. CASE runner.at = "head" /\ runner' = [runner EXCEPT !.at = "body"]
    <3>1. runner'.at = "body" /\ runner'.body = 0 /\ TakenUp = 0 /\ TakenUp' = 1
      BY <2>4 DEF PreviewTypes, RunnerType, UpInOrder, TakenUp
    <3> QED BY <1>0, <2>1, <2>2, <2>4, <3>1, UpShrinks DEF UpInOrder, PreviewTypes
  <2>5. CASE runner.at = "body" /\ runner' = [runner EXCEPT !.body = @ + 1]
    <3>1. runner'.at = "body" /\ runner'.body = runner.body + 1 /\ TakenUp' = TakenUp + 1
      BY <2>5 DEF PreviewTypes, RunnerType, TakenUp
    <3> QED BY <1>0, <2>1, <2>2, <2>5, <3>1, UpShrinks DEF UpInOrder, PreviewTypes
  <2>6. CASE runner.at = "body" /\ Head(up) = "end" /\ runner' = [runner EXCEPT !.at = "dial"]
    <3>1. runner'.at = "dial" /\ runner'.body = runner.body /\ runner.body \in Nat
            /\ TakenUp = 1 + runner.body /\ TakenUp' = TakenUp + 1
      BY <2>6 DEF PreviewTypes, RunnerType, TakenUp
    <3>2. read.at = "end" /\ TakenUp + 1 = SentUp
      BY <2>1, <2>6, <3>1, UpFirst DEF UpMessage
    <3>3. runner.body = read.chunks
      BY <3>1, <3>2 DEF SentUp, PreviewTypes, ReadType
    <3> QED BY <1>0, <2>1, <2>2, <2>6, <3>1, <3>2, <3>3, UpShrinks DEF UpInOrder, PreviewTypes
  <2> QED BY <1>12, <2>3, <2>4, <2>5, <2>6 DEF ProxyReceive, PreviewTypes, RunnerType
<1>13. CASE Dial
  <2>1. Untouched'
    BY <1>13 DEF Dial, Untouched
  <2>2. CASE UNCHANGED <<runner, down>> /\ server' = [server EXCEPT !.at = "serving", !.got = runner.body]
    <3>1. server'.got = runner.body
      BY <2>2 DEF PreviewTypes, ServerType
    <3>2. RequestWhole'
      BY <1>13, <3>1 DEF Dial, RequestWhole, UpInOrder
    <3> QED BY <1>1, <1>13, <2>1, <2>2, <3>2 DEF Dial
  <2>3. CASE runner' = [runner EXCEPT !.at = "done"] /\ UNCHANGED server
    <3>1. runner'.at = "done" /\ UNCHANGED <<upload, read, up, server>>
      BY <1>13, <2>3 DEF Dial, PreviewTypes, RunnerType
    <3> QED BY <1>2, <2>1, <3>1 DEF UpInOrder
  <2> QED BY <1>13, <2>2, <2>3 DEF Dial
<1>14. CASE SendHead \/ Copy
  <2>1. Untouched'
    BY <1>14 DEF SendHead, Copy, Untouched
  <2>2. UNCHANGED <<upload, read, up, server>> /\ runner'.body = runner.body
          /\ runner'.at \in {"copy", "done"} /\ runner.at \in {"dial", "copy"}
    BY <1>14 DEF SendHead, Copy, PreviewTypes, RunnerType
  <2>3. UpInOrder'
    BY <2>2 DEF UpInOrder, SentUp, TakenUp, UpMessage
  <2> QED BY <1>2, <2>1, <2>2, <2>3
<1>15. CASE ProxyCancelled
  <2>1. Untouched'
    BY <1>15 DEF ProxyCancelled, Untouched
  <2>2. UNCHANGED <<upload, read, up>> /\ runner'.at = "done"
          /\ server'.got = server.got /\ (server.at = "idle" => server'.at = "idle")
    BY <1>15 DEF ProxyCancelled, PreviewTypes, RunnerType, ServerType
  <2> QED BY <2>1, <2>2 DEF UpInOrder, RequestWhole
<1> QED
  BY <1>3, <1>4, <1>5, <1>6, <1>7, <1>8, <1>9, <1>10, <1>11, <1>12, <1>13, <1>14, <1>15
     DEF PreviewNext, RelaySteps, RunnerSteps

\* Both hold of a listener that has just opened.
LEMMA PreviewBegins == PreviewInit => PreviewTypes /\ RequestInv
<1>1. ASSUME PreviewInit PROVE PreviewTypes
  BY <1>1 DEF PreviewInit, PreviewTypes, UploadType, StateTypes, ReadType, WireTypes,
              RunnerType, ServerType, ReplyType, NoReply, Messages
<1>2. ASSUME PreviewInit PROVE RequestInv
  BY <1>2 DEF PreviewInit, RequestInv, Untouched, UpInOrder, RequestWhole, SentUp, TakenUp
<1> QED BY <1>1, <1>2

\* The sandbox's server only ever gets a request body in full: a browser that
\* gives up half way does not have half a request carried out.
THEOREM RequestWholeHolds == PreviewSpec => []RequestWhole
<1>1. RequestInv => RequestWhole
  BY DEF RequestInv
<1> QED BY <1>1, PreviewBegins, PreviewTypesStep, RequestInvStep, PTL DEF PreviewSpec
-----------------------------------------------------------------------------

\* Messages of the response the relay has taken so far.
TakenDown == IF reply.status = 0 THEN 0 ELSE IF relay = "writing" THEN 2 + reply.got ELSE 1 + reply.got

\* The k-th message of a response: the head is first, a HEAD request has no
\* body, and the end comes after the whole of what the server made.
DownMessage(m, k) ==
  /\ k = 1 => m \in {"head", "error"}
  /\ m = "head" => k = 1
  /\ m = "body" => method # "HEAD"
  /\ m = "end" => server.at = "ended" /\ k = 2 + server.made

\* As long as the call is open, what is under way to the relay is what the
\* runner has sent and the relay not taken yet, in order.
DownInOrder ==
  rpc = "open" =>
    /\ \A i \in 1 .. Len(down) : DownMessage(down[i], TakenDown + i)
    /\ runner.at \in {"head", "body", "dial"} => TakenDown + Len(down) = 0
    /\ runner.at = "copy" => TakenDown + Len(down) = 1 + runner.sent

\* Where the response stands agrees with where the relay does.
ReplyStands ==
  /\ rpc = "open" => relay \in {"relaying", "writing"}
  /\ relay \in {"relaying", "writing"} => reply.status \in {0, 200} /\ reply.at = "open"
  /\ relay = "writing" => reply.status = 200
  /\ reply.status = 0 => reply.got = 0
MadeStands ==
  /\ method = "HEAD" => server.made = 0
  /\ runner.sent <= server.made
  /\ runner.at \in {"head", "body", "dial"} => runner.sent = 0

ReplyInv == ReplyStands /\ MadeStands /\ DownInOrder /\ WholeOrCut

\* The relay takes the first message, and the rest keep their places.
LEMMA DownShrinks ==
  ASSUME PreviewTypes, PreviewTypes', DownInOrder, rpc = "open", down # <<>>, down' = Tail(down),
         UNCHANGED <<method, server, runner>>, TakenDown' = TakenDown + 1
  PROVE  DownInOrder'
<1>1. TakenDown \in Nat /\ Len(down) \in Nat
  BY DEF PreviewTypes, ReplyType, WireTypes, TakenDown
<1>2. Len(down') = Len(down) - 1 /\ \A i \in 1 .. Len(down') : down'[i] = down[i + 1] /\ i + 1 \in 1 .. Len(down)
  BY DEF PreviewTypes, WireTypes
<1>3. ASSUME NEW i \in 1 .. Len(down') PROVE DownMessage(down[i], TakenDown + i)'
  <2>1. DownMessage(down[i + 1], TakenDown + (i + 1)) /\ down'[i] = down[i + 1]
    BY <1>2 DEF DownInOrder
  <2>2. TakenDown + (i + 1) = TakenDown' + i
    BY <1>1
  <2> QED BY <2>1, <2>2 DEF DownMessage
<1>4. TakenDown' + Len(down') = TakenDown + Len(down)
  BY <1>1, <1>2
<1> QED BY <1>3, <1>4 DEF DownInOrder

\* The runner appends a message that comes next.
LEMMA DownGrows ==
  ASSUME PreviewTypes, DownInOrder, NEW m \in Messages, Down(m),
         UNCHANGED <<method, relay, rpc, reply, server>>,
         rpc = "open" => DownMessage(m, TakenDown + Len(down) + 1),
         rpc = "open" /\ runner'.at \in {"head", "body", "dial"} => FALSE,
         rpc = "open" /\ runner'.at = "copy" => TakenDown + Len(down) = runner'.sent
  PROVE  DownInOrder'
<1> SUFFICES ASSUME rpc = "open" PROVE DownInOrder'
  BY DEF DownInOrder
<1>1. TakenDown \in Nat /\ Len(down) \in Nat /\ TakenDown' = TakenDown
  BY DEF PreviewTypes, ReplyType, WireTypes, TakenDown
<1>2. Len(down') = Len(down) + 1 /\ down'[Len(down) + 1] = m
        /\ \A i \in 1 .. Len(down) : down'[i] = down[i]
  BY DEF PreviewTypes, WireTypes, Down
<1>3. ASSUME NEW i \in 1 .. Len(down') PROVE DownMessage(down[i], TakenDown + i)'
  <2>1. CASE i \in 1 .. Len(down)
    <3>1. DownMessage(down[i], TakenDown + i)
      BY <2>1 DEF DownInOrder
    <3> QED BY <1>1, <1>2, <2>1, <3>1 DEF DownMessage
  <2>2. CASE i = Len(down) + 1
    <3>1. DownMessage(m, TakenDown + i)
      BY <1>1, <2>2 DEF DownMessage
    <3> QED BY <1>1, <1>2, <2>2, <3>1 DEF DownMessage
  <2> QED BY <1>1, <1>2, <2>1, <2>2
<1> QED BY <1>1, <1>2, <1>3 DEF DownInOrder

\* A failed relay destroys its response or answers 502.
LEMMA FailKeeps ==
  ASSUME PreviewTypes, ReplyStands, Fail
  PROVE  ReplyStands' /\ WholeOrCut' /\ rpc' # "open"
<1>1. relay' = "done" /\ rpc' # "open"
  BY DEF Fail
<1>2. CASE reply.status # 0
  <2>1. reply'.at = "destroyed" /\ reply'.status = reply.status
    BY <1>2 DEF Fail, PreviewTypes, ReplyType
  <2> QED BY <1>1, <1>2, <2>1 DEF ReplyStands, WholeOrCut
<1>3. CASE reply.status = 0
  <2>1. reply'.status = 502
    BY <1>3 DEF Fail, Whole
  <2> QED BY <1>1, <2>1 DEF ReplyStands, WholeOrCut
<1> QED BY <1>2, <1>3

\* ReplyInv is inductive.
LEMMA ReplyInvStep ==
  PreviewTypes /\ RequestInv /\ ReplyInv /\ [PreviewNext]_previewVars => ReplyInv'
<1> SUFFICES ASSUME PreviewTypes, RequestInv, ReplyInv, [PreviewNext]_previewVars PROVE ReplyInv'
  OBVIOUS
<1>0. PreviewTypes'
  BY PreviewTypesStep
<1> USE DEF ReplyInv, ends, front
<1>a. ASSUME UNCHANGED <<method, runner, server>> PROVE MadeStands'
  BY <1>a DEF MadeStands
<1>b. ASSUME rpc' = "open" => rpc = "open", UNCHANGED <<method, relay, down, runner, server, reply>>
      PROVE DownInOrder'
  BY <1>b DEF DownInOrder, DownMessage, TakenDown
<1>c. ASSUME rpc' = "none" => rpc = "none", rpc' = "open" => rpc = "open", rpc # "open" => UNCHANGED rpc,
             UNCHANGED <<method, relay, down, runner, server, reply>>
      PROVE ReplyInv'
  BY <1>a, <1>b, <1>c DEF ReplyStands, WholeOrCut
<1>1. CASE UNCHANGED previewVars
  BY <1>c, <1>1 DEF previewVars
<1>2. ASSUME NEW kind, NEW m \in {"GET", "HEAD"}, Arrive(kind, m) PROVE ReplyInv'
  <2>1. rpc = "none" /\ UNCHANGED rpc /\ server.made = 0 /\ UNCHANGED <<server, runner>>
    BY <1>2 DEF Arrive, RequestInv, Untouched
  <2>2. relay' \in {"done", "waiting"} /\ (reply'.status = 0 => reply'.got = 0)
    BY <1>2 DEF Arrive, Whole, ReplyStands
  <2> QED BY <2>1, <2>2 DEF ReplyStands, MadeStands, DownInOrder, WholeOrCut
<1>3. CASE Upload \/ Closed
  BY <1>c, <1>3 DEF Upload, Closed
<1>4. CASE BrowserLeaves \/ Close \/ TunnelLost
  BY <1>c, <1>4 DEF BrowserLeaves, Close, Leave, TunnelLost
<1>5. CASE Serve
  <2>1. server.at = "serving" /\ UNCHANGED <<method, relay, rpc, down, runner, reply>>
    BY <1>5 DEF Serve
  <2>2. server'.made >= server.made /\ (method = "HEAD" => server'.made = server.made)
    <3>1. \/ server' = [server EXCEPT !.head = TRUE]
          \/ server' = [server EXCEPT !.made = @ + 1] /\ method # "HEAD"
          \/ server' = [server EXCEPT !.at = "ended"]
          \/ server' = [server EXCEPT !.at = "broken", !.head = TRUE]
      BY <1>5 DEF Serve
    <3>2. server'.made = server.made \/ (server'.made = server.made + 1 /\ method # "HEAD")
      BY <3>1 DEF PreviewTypes, ServerType
    <3> QED BY <3>2 DEF PreviewTypes, ServerType
  <2>3. MadeStands'
    BY <1>0, <2>1, <2>2 DEF MadeStands, PreviewTypes, ServerType, RunnerType
  <2>4. DownInOrder'
    BY <2>1 DEF DownInOrder, DownMessage, TakenDown
  <2> QED BY <2>1, <2>3, <2>4 DEF ReplyStands, WholeOrCut
<1>6. CASE Waited
  <2>1. rpc = "none" /\ reply = NoReply /\ UNCHANGED <<method, down, runner, server>>
    BY <1>6 DEF Waited, RequestInv, Untouched
  <2>2. down = <<>> /\ runner.at = "head"
    BY <2>1 DEF RequestInv, Untouched
  <2>3. CASE relay' = "relaying" /\ rpc' = "open" /\ UNCHANGED reply
    <3>1. reply.status = 0 /\ reply.got = 0 /\ reply.at = "open"
      BY <2>1 DEF NoReply
    <3> QED BY <1>a, <2>1, <2>2, <2>3, <3>1 DEF ReplyStands, DownInOrder, WholeOrCut, TakenDown
  <2>4. CASE relay' = "done" /\ reply' = Whole(503) /\ UNCHANGED rpc
    BY <1>a, <2>1, <2>4 DEF ReplyStands, DownInOrder, WholeOrCut, Whole
  <2> QED BY <1>6, <2>3, <2>4 DEF Waited
<1>7. CASE previewMessages
  BY <1>c, <1>7 DEF previewMessages
<1>8. CASE RelayTakes
  <2>1. /\ relay = "relaying" /\ rpc = "open" /\ down # <<>> /\ down' = Tail(down)
        /\ UNCHANGED <<method, runner, server>>
    BY <1>8 DEF RelayTakes
  <2>2. DownMessage(Head(down), TakenDown + 1) /\ TakenDown \in Nat
    BY <2>1 DEF DownInOrder, PreviewTypes, WireTypes, ReplyType, TakenDown
  <2>3. CASE Head(down) = "head" /\ reply' = [reply EXCEPT !.status = 200] /\ UNCHANGED <<relay, rpc>>
    <3>1. reply.status = 0 /\ reply.got = 0
      BY <2>1, <2>2, <2>3 DEF DownMessage, TakenDown, ReplyStands, PreviewTypes, ReplyType
    <3>2. reply'.status = 200 /\ reply'.got = 0 /\ reply'.at = reply.at
      BY <2>3, <3>1 DEF PreviewTypes, ReplyType
    <3>3. TakenDown' = TakenDown + 1
      BY <2>1, <2>3, <3>1, <3>2 DEF TakenDown
    <3> QED BY <1>0, <1>a, <2>1, <2>3, <3>2, <3>3, DownShrinks DEF ReplyStands, WholeOrCut
  <2>4. CASE /\ Head(down) = "body" /\ reply.status # 0
             /\ relay' = (IF method = "HEAD" THEN "relaying" ELSE "writing") /\ UNCHANGED <<reply, rpc>>
    <3>1. relay' = "writing"
      BY <2>2, <2>4 DEF DownMessage
    <3>2. TakenDown' = TakenDown + 1
      BY <2>1, <2>4, <3>1 DEF TakenDown, PreviewTypes, ReplyType
    <3> QED BY <1>0, <1>a, <2>1, <2>4, <3>1, <3>2, DownShrinks DEF ReplyStands, WholeOrCut
  <2>5. CASE /\ Head(down) = "end" /\ reply' = [reply EXCEPT !.at = "ended"]
             /\ relay' = "done" /\ rpc' = "ended"
    <3>1. server.at = "ended" /\ TakenDown + 1 = 2 + server.made
      BY <2>2, <2>5 DEF DownMessage
    <3>2. reply.status # 0 /\ reply.got = server.made
      BY <2>1, <3>1 DEF TakenDown, PreviewTypes, ReplyType, ServerType
    <3>3. reply'.got = reply.got /\ reply'.status = reply.status
      BY <2>5 DEF PreviewTypes, ReplyType
    <3> QED BY <1>a, <2>1, <2>5, <3>1, <3>2, <3>3 DEF ReplyStands, DownInOrder, WholeOrCut
  <2>6. CASE Fail
    BY <1>a, <2>1, <2>6, FailKeeps DEF DownInOrder
  <2> QED BY <1>8, <2>3, <2>4, <2>5, <2>6 DEF RelayTakes
<1>9. CASE Wrote
  <2>1. relay = "writing" /\ reply.status = 200 /\ UNCHANGED <<method, down, runner, server>>
    BY <1>9 DEF Wrote, ReplyStands
  <2>2. CASE relay' = "relaying" /\ reply' = [reply EXCEPT !.got = @ + 1] /\ UNCHANGED rpc
    <3>1. reply'.got = reply.got + 1 /\ reply'.status = 200 /\ reply'.at = reply.at /\ reply.got \in Nat
      BY <2>1, <2>2 DEF PreviewTypes, ReplyType
    <3>2. TakenDown' = TakenDown
      BY <2>1, <2>2, <3>1 DEF TakenDown
    <3>3. DownInOrder'
      BY <2>1, <2>2, <3>2 DEF DownInOrder, DownMessage
    <3> QED BY <1>a, <2>1, <2>2, <3>1, <3>3 DEF ReplyStands, WholeOrCut
  <2>3. CASE Fail
    BY <1>a, <2>1, <2>3, FailKeeps DEF DownInOrder
  <2> QED BY <1>9, <2>2, <2>3 DEF Wrote
<1>10. CASE RelayFails
  BY <1>a, <1>10, FailKeeps DEF RelayFails, DownInOrder
<1>11. ASSUME UNCHANGED <<method, relay, rpc, reply, server>> PROVE ReplyStands' /\ WholeOrCut'
  BY <1>11 DEF ReplyStands, WholeOrCut
<1>12. CASE ProxyReceive
  <2>1. UNCHANGED <<method, relay, rpc, reply, server>> /\ runner'.sent = runner.sent
          /\ runner.at \in {"head", "body"}
    BY <1>12 DEF ProxyReceive, PreviewTypes, RunnerType
  <2>2. MadeStands'
    BY <2>1 DEF MadeStands
  <2>5. DownInOrder'
    <3>1. CASE UNCHANGED down /\ runner'.at \in {"body", "dial"}
      BY <2>1, <3>1 DEF DownInOrder, DownMessage, TakenDown
    <3>2. CASE runner'.at = "done" /\ Down("error")
      <4>1. rpc = "open" => DownMessage("error", TakenDown + Len(down) + 1)
        BY <2>1 DEF DownInOrder, DownMessage
      <4> QED BY <2>1, <3>2, <4>1, DownGrows DEF Messages
    <3> QED BY <1>12, <3>1, <3>2 DEF ProxyReceive, PreviewTypes, RunnerType
  <2> QED BY <1>11, <2>1, <2>2, <2>5
<1>13. CASE Dial
  <2>1. UNCHANGED <<method, relay, rpc, reply>> /\ runner.at = "dial" /\ server.at = "idle"
    BY <1>13 DEF Dial
  <2>2. CASE UNCHANGED <<runner, down>> /\ server' = [server EXCEPT !.at = "serving", !.got = runner.body]
    <3>1. server'.made = server.made
      BY <2>2 DEF PreviewTypes, ServerType
    <3>2. DownInOrder' /\ MadeStands'
      BY <2>1, <2>2, <3>1 DEF DownInOrder, DownMessage, TakenDown, MadeStands
    <3> QED BY <2>1, <3>2 DEF ReplyStands, WholeOrCut
  <2>3. CASE runner' = [runner EXCEPT !.at = "done"] /\ Down("error") /\ UNCHANGED server
    <3>1. runner'.at = "done" /\ runner'.sent = runner.sent
      BY <2>3 DEF PreviewTypes, RunnerType
    <3>2. rpc = "open" => DownMessage("error", TakenDown + Len(down) + 1)
      BY <2>1 DEF DownInOrder, DownMessage
    <3>3. DownInOrder'
      BY <2>1, <2>3, <3>1, <3>2, DownGrows DEF Messages
    <3> QED BY <1>11, <2>1, <2>3, <3>1, <3>3 DEF MadeStands
  <2> QED BY <1>13, <2>2, <2>3 DEF Dial
<1>14. CASE SendHead
  <2>1. UNCHANGED <<method, relay, rpc, reply, server>> /\ runner.at = "dial" /\ Down("head")
          /\ runner'.at = "copy" /\ runner'.sent = runner.sent
    BY <1>14 DEF SendHead, PreviewTypes, RunnerType
  <2>2. rpc = "open" => TakenDown + Len(down) = 0 /\ DownMessage("head", TakenDown + Len(down) + 1)
    BY <2>1 DEF DownInOrder, DownMessage
  <2>3. DownInOrder'
    BY <2>1, <2>2, DownGrows DEF Messages, MadeStands
  <2> QED BY <1>11, <2>1, <2>3 DEF MadeStands
<1>15. CASE Copy
  <2>1. UNCHANGED <<method, relay, rpc, reply, server>> /\ runner.at = "copy"
    BY <1>15 DEF Copy
  <2>2. rpc = "open" => TakenDown + Len(down) = 1 + runner.sent
    BY <2>1 DEF DownInOrder
  <2>3. runner.sent \in Nat /\ server.made \in Nat
    BY DEF PreviewTypes, RunnerType, ServerType
  <2>4. CASE runner.sent < server.made /\ runner' = [runner EXCEPT !.sent = @ + 1] /\ Down("body")
    <3>1. runner'.at = "copy" /\ runner'.sent = runner.sent + 1
      BY <2>1, <2>4 DEF PreviewTypes, RunnerType
    <3>2. rpc = "open" => DownMessage("body", TakenDown + Len(down) + 1)
      BY <2>2, <2>3, <2>4 DEF DownMessage, MadeStands
    <3>3. DownInOrder'
      BY <2>1, <2>2, <2>3, <2>4, <3>1, <3>2, DownGrows DEF Messages
    <3> QED BY <1>11, <2>1, <2>3, <2>4, <3>1, <3>3 DEF MadeStands
  <2>5. ASSUME NEW m \in {"end", "error"}, m = "end" => server.at = "ended",
               runner.sent = server.made, runner' = [runner EXCEPT !.at = "done"], Down(m)
        PROVE ReplyInv'
    <3>1. runner'.at = "done" /\ runner'.sent = runner.sent
      BY <2>5 DEF PreviewTypes, RunnerType
    <3>2. rpc = "open" => DownMessage(m, TakenDown + Len(down) + 1)
      BY <2>2, <2>3, <2>5 DEF DownMessage
    <3>3. DownInOrder'
      BY <2>1, <2>5, <3>1, <3>2, DownGrows DEF Messages
    <3> QED BY <1>11, <2>1, <2>5, <3>1, <3>3 DEF MadeStands
  <2> QED BY <1>15, <2>4, <2>5 DEF Copy
<1>16. CASE ProxyCancelled
  <2>1. rpc # "open" /\ UNCHANGED <<method, relay, rpc, reply>>
    BY <1>16 DEF ProxyCancelled
  <2>2. runner'.at = "done" /\ runner'.sent = runner.sent
    BY <1>16 DEF ProxyCancelled, PreviewTypes, RunnerType
  <2>3. server'.made = server.made /\ (server.at = "ended" => server'.at = "ended")
    BY <1>16 DEF ProxyCancelled, PreviewTypes, ServerType
  <2> QED BY <2>1, <2>2, <2>3 DEF ReplyStands, MadeStands, DownInOrder, WholeOrCut
<1> QED
  BY <1>1, <1>2, <1>3, <1>4, <1>5, <1>6, <1>7, <1>8, <1>9, <1>10, <1>12, <1>13, <1>14, <1>15, <1>16
     DEF PreviewNext, RelaySteps, RunnerSteps

\* A response that ends normally is the server's whole response: whatever
\* broke on the way cuts the connection or shows 502.
THEOREM WholeOrCutHolds == PreviewSpec => []WholeOrCut
<1>1. PreviewInit => PreviewTypes /\ RequestInv /\ ReplyInv
  <2>1. ASSUME PreviewInit PROVE ReplyInv
    BY <2>1 DEF PreviewInit, ReplyInv, ReplyStands, MadeStands, DownInOrder, WholeOrCut, NoReply
  <2> QED BY <2>1, PreviewBegins
<1>2. ReplyInv => WholeOrCut
  BY DEF ReplyInv
<1> QED BY <1>1, <1>2, PreviewTypesStep, RequestInvStep, ReplyInvStep, PTL DEF PreviewSpec
-----------------------------------------------------------------------------
(***************************************************************************)
(* Workspaces, for any repositories, creations and sessions.                *)
(***************************************************************************)

Places == {ScratchPath, Elsewhere} \cup AnchorUrls
Records == {NoAddress, EmptyUrl} \cup Spellings

\* What is no URL differs from every URL and from the rest.
LEMMA PlacesApart ==
  /\ \A u \in Spellings : u \notin {Bad, NoAddress, EmptyUrl, ScratchPath, Elsewhere, Nowhere}
  /\ NoAddress # EmptyUrl /\ NoAddress # Bad /\ EmptyUrl # Bad
  /\ ScratchPath # Elsewhere /\ ScratchPath # Nowhere /\ Elsewhere # Nowhere
<1>1. /\ Bad.form = "bad" /\ NoAddress.form = "none" /\ EmptyUrl.form = "empty" /\ ScratchPath.form = "scratch"
      /\ Elsewhere.form = "elsewhere" /\ Nowhere.form = "nowhere"
  BY DEF Bad, NoAddress, EmptyUrl, ScratchPath, Elsewhere, Nowhere, Other
<1>2. \A u \in Spellings : u.form \in Forms
  BY DEF Spellings
<1> QED BY <1>1, <1>2 DEF Forms

\* The URLs of the configuration and of a clone are spelled.
LEMMA UrlSpelled == \A r \in Repos : Url(r) \in Spellings
  BY DEF Url, Spellings, Forms

\* Whatever the spelling of a URL, it is refused or one that metadata may hold.
LEMMA Normalized ==
  ASSUME NEW i \in Spellings
  PROVE  normalizeWorkspaceRepositoryUrl(httpsRepositoryUrl(i)) \in {Bad} \cup AnchorUrls
<1>1. PICK f \in Forms, r \in Repos, c \in BOOLEAN, g \in {"none", ".git"} : i = [form |-> f, repo |-> r, caps |-> c, suffix |-> g]
  BY DEF Spellings
<1>2. [i EXCEPT !.form = "https"] = [form |-> "https", repo |-> r, caps |-> c, suffix |-> g]
  BY <1>1
<1>3. httpsRepositoryUrl(i) = Bad \/ \E h \in Forms : httpsRepositoryUrl(i) = [form |-> h, repo |-> r, caps |-> c, suffix |-> g]
  BY <1>1, <1>2 DEF httpsRepositoryUrl, Forms
<1>4. CASE httpsRepositoryUrl(i) = Bad
  <2>1. Bad.form = "bad"
    BY DEF Bad, Other
  <2> QED BY <1>4, <2>1 DEF normalizeWorkspaceRepositoryUrl
<1>5. ASSUME NEW h \in Forms, httpsRepositoryUrl(i) = [form |-> h, repo |-> r, caps |-> c, suffix |-> g]
      PROVE  normalizeWorkspaceRepositoryUrl(httpsRepositoryUrl(i)) \in {Bad} \cup AnchorUrls
  <2> DEFINE n == [form |-> h, repo |-> r, caps |-> c, suffix |-> "none"]
  <2>1. normalizeWorkspaceRepositoryUrl(httpsRepositoryUrl(i)) \in {Bad, n}
    BY <1>5 DEF normalizeWorkspaceRepositoryUrl
  <2>2. h = "junk" => normalizeWorkspaceRepositoryUrl(httpsRepositoryUrl(i)) = Bad
    BY <1>5 DEF normalizeWorkspaceRepositoryUrl
  <2>3. h # "junk" => normalizeWorkspaceRepositoryUrl(n) = n
    BY DEF normalizeWorkspaceRepositoryUrl, Forms
  <2>4. n \in Spellings
    BY DEF Spellings
  <2> QED BY <2>1, <2>2, <2>3, <2>4 DEF AnchorUrls
<1> QED BY <1>3, <1>4, <1>5

\* Only anchors are created, and a temporary file is whole before it is
\* renamed.
MakersKnown ==
  /\ maker \in [Makers -> [at : {"idle", "read", "write", "writing", "rename", "again", "register"},
                           url : {Bad} \cup AnchorUrls, file : {"none", "part", "whole"}]]
  /\ \A m \in Makers : maker[m].at # "idle" => maker[m].url \in AnchorUrls
  /\ \A m \in Makers : maker[m].at = "rename" => maker[m].file = "whole"
\* Only anchors are registered, and their metadata is whole by then.
FilesWhole ==
  /\ metadata \in [AnchorUrls -> {"none", "whole"}]
  /\ workspaces \subseteq Places
  /\ \A w \in workspaces \cap AnchorUrls : metadata[w] = "whole"
  /\ \A m \in Makers : maker[m].at = "register" => metadata[maker[m].url] = "whole"
\* A session was opened in a registered place, and told of what it is.
VisitsKnown ==
  /\ visit \in [Visits -> [cwd : {Nowhere} \cup Places, record : Records]]
  /\ promptSaid \in [Visits -> {"nothing", "scratch", "repository"}]
  /\ configured \in {NoAddress} \cup Spellings
  /\ \A v \in Visits : visit[v].cwd \in AnchorUrls => metadata[visit[v].cwd] = "whole"
  /\ \A v \in Visits : visit[v].record # NoAddress => visit[v].cwd # Nowhere
  /\ \A v \in Visits : promptSaid[v] # "nothing" =>
       visit[v].cwd # Nowhere /\ (promptSaid[v] = "scratch" <=> visit[v].cwd = ScratchPath)
WorkspacesInv == MakersKnown /\ FilesWhole /\ VisitsKnown /\ RightRepository

\* WorkspacesInv is inductive.
LEMMA WorkspacesInvStep == WorkspacesInv /\ [WorkspacesNext]_workspaceVars => WorkspacesInv'
<1> SUFFICES ASSUME WorkspacesInv, [WorkspacesNext]_workspaceVars PROVE WorkspacesInv'
  OBVIOUS
<1> USE DEF WorkspacesInv
<1>0. /\ AnchorUrls \subseteq Spellings /\ Bad \notin AnchorUrls /\ ScratchPath \notin AnchorUrls
      /\ Elsewhere \notin AnchorUrls /\ Nowhere \notin Places
  BY PlacesApart DEF AnchorUrls, Places
<1>1. ASSUME UNCHANGED maker, UNCHANGED <<metadata, workspaces>> PROVE MakersKnown' /\ FilesWhole'
  BY <1>1 DEF MakersKnown, FilesWhole
<1>2. ASSUME UNCHANGED <<visit, promptSaid, configured, metadata>> PROVE VisitsKnown' /\ RightRepository'
  BY <1>2 DEF VisitsKnown, RightRepository
<1>3. CASE UNCHANGED workspaceVars
  BY <1>1, <1>2, <1>3 DEF workspaceVars
<1>4. ASSUME NEW m \in Makers, NEW i \in Spellings, createAnchor(m, i) PROVE WorkspacesInv'
  <2>1. MakersKnown' /\ FilesWhole'
    BY <1>0, <1>4, Normalized DEF createAnchor, MakersKnown, FilesWhole, NoMaker
  <2> QED BY <1>2, <1>4, <2>1 DEF createAnchor
<1>5. ASSUME NEW m \in Makers, ReadMetadata(m) PROVE WorkspacesInv'
  <2>1. MakersKnown' /\ FilesWhole'
    BY <1>5 DEF ReadMetadata, Set, Ends, MakersKnown, FilesWhole, NoMaker
  <2> QED BY <1>2, <1>5, <2>1 DEF ReadMetadata
<1>14. ASSUME NEW m \in Makers, WriteTemporary(m) PROVE WorkspacesInv'
  <2>1. MakersKnown' /\ FilesWhole'
    BY <1>14 DEF WriteTemporary, Ends, MakersKnown, FilesWhole, NoMaker
  <2> QED BY <1>2, <1>14, <2>1 DEF WriteTemporary
<1>6. ASSUME NEW m \in Makers, WriteMetadata(m) PROVE WorkspacesInv'
  <2>1. /\ maker[m].url \in AnchorUrls /\ maker[m].file = "whole"
        /\ UNCHANGED <<workspaces, visit, promptSaid, configured>>
    BY <1>6 DEF WriteMetadata, MakersKnown
  <2>2. metadata' = [metadata EXCEPT ![maker[m].url] = "whole"]
    BY <1>6, <2>1 DEF WriteMetadata
  <2>3. metadata' \in [AnchorUrls -> {"none", "whole"}] /\ \A w \in AnchorUrls : metadata[w] = "whole" => metadata'[w] = "whole"
    BY <2>2 DEF FilesWhole
  <2>4. maker' = [maker EXCEPT ![m].at = "again", ![m].file = "none"]
    BY <1>6 DEF WriteMetadata
  <2>5. MakersKnown'
    BY <2>1, <2>4 DEF MakersKnown
  <2>6. \A n \in Makers : maker'[n].at = "register" => maker[n].at = "register" /\ maker'[n] = maker[n]
    BY <2>4 DEF MakersKnown
  <2>7. FilesWhole'
    BY <2>1, <2>3, <2>5, <2>6 DEF FilesWhole, MakersKnown
  <2>8. VisitsKnown' /\ RightRepository'
    BY <2>1, <2>3 DEF VisitsKnown, RightRepository
  <2> QED BY <2>5, <2>7, <2>8
<1>7. ASSUME NEW m \in Makers, Register(m) PROVE WorkspacesInv'
  <2>1. MakersKnown' /\ FilesWhole'
    BY <1>7 DEF Register, Ends, MakersKnown, FilesWhole, NoMaker, Places
  <2> QED BY <1>2, <1>7, <2>1 DEF Register
<1>8. ASSUME NEW w \in workspaces, DeleteWorkspace(w) PROVE WorkspacesInv'
  <2>1. MakersKnown' /\ FilesWhole'
    BY <1>8 DEF DeleteWorkspace, MakersKnown, FilesWhole
  <2> QED BY <1>2, <1>8, <2>1 DEF DeleteWorkspace
<1>10. ASSUME NEW v \in Visits, NEW w \in workspaces, Open(v, w) PROVE WorkspacesInv'
  <2>1. visit[v].cwd = Nowhere /\ visit[v].record = NoAddress /\ promptSaid[v] = "nothing"
    BY <1>10 DEF Open, NoVisit, VisitsKnown
  <2>2. visit' \in [Visits -> [cwd : {Nowhere} \cup Places, record : Records]]
          /\ visit'[v].cwd = w /\ visit'[v].record = NoAddress /\ \A u \in Visits : u # v => visit'[u] = visit[u]
    BY <1>10, <2>1 DEF Open, VisitsKnown, FilesWhole, Records
  <2>3. w \in AnchorUrls => metadata[w] = "whole"
    BY DEF FilesWhole
  <2>4. VisitsKnown' /\ RightRepository'
    BY <1>10, <2>1, <2>2, <2>3 DEF Open, VisitsKnown, RightRepository
  <2> QED BY <1>1, <1>10, <2>4 DEF Open
<1>11. ASSUME NEW v \in Visits, Prompted(v) PROVE WorkspacesInv'
  <2>1. inScratchWorkspace(v) <=> visit[v].cwd = ScratchPath
    BY DEF inScratchWorkspace, RightRepository
  <2>2. promptSaid' = [promptSaid EXCEPT ![v] = IF visit[v].cwd = ScratchPath THEN "scratch" ELSE "repository"]
    BY <1>11, <2>1 DEF Prompted
  <2>3. VisitsKnown' /\ RightRepository'
    BY <1>11, <2>2 DEF Prompted, VisitsKnown, RightRepository
  <2> QED BY <1>1, <1>11, <2>3 DEF Prompted
<1>12. ASSUME NEW v \in Visits, NEW origin \in {Url(q) : q \in Repos} \cup {NoAddress}, ProvisionVisit(v, origin)
       PROVE  WorkspacesInv'
  <2> DEFINE r == repositoryFor(v, origin)
  <2>1. visit[v].cwd \in Places /\ visit[v].record = NoAddress /\ r \notin {NoAddress, Bad}
          /\ visit' = [visit EXCEPT ![v].record = r]
    BY <1>12 DEF ProvisionVisit, VisitsKnown
  <2>2. inScratchWorkspace(v) <=> visit[v].cwd = ScratchPath
    BY <2>1 DEF inScratchWorkspace
  <2>3. visit[v].cwd \in AnchorUrls => repositoryForAnchor(visit[v].cwd) = visit[v].cwd
    <3>1. visit[v].cwd \in AnchorUrls => metadata[visit[v].cwd] = "whole"
      BY DEF VisitsKnown
    <3>2. PICK w : w = visit[v].cwd
      OBVIOUS
    <3>3. w \in AnchorUrls => repositoryForAnchor(w) = w
      BY <3>1, <3>2 DEF repositoryForAnchor
    <3> QED BY <3>2, <3>3
  <2>4. visit[v].cwd = Elsewhere => repositoryForAnchor(visit[v].cwd) = NoAddress
    BY <1>0 DEF repositoryForAnchor
  <2>5. origin \in {NoAddress} \cup Spellings
    BY UrlSpelled
  <2>6. /\ visit[v].cwd = ScratchPath => r = EmptyUrl
        /\ visit[v].cwd \in AnchorUrls => r = visit[v].cwd /\ r \in Spellings
        /\ visit[v].cwd = Elsewhere => r \in Spellings
    <3>1. CASE visit[v].cwd = ScratchPath
      BY <1>0, <2>2, <3>1, PlacesApart DEF repositoryFor
    <3>2. CASE visit[v].cwd \in AnchorUrls
      <4>1. visit[v].cwd # NoAddress /\ visit[v].cwd # ScratchPath /\ visit[v].cwd # Elsewhere /\ visit[v].cwd \in Spellings
        BY <1>0, <3>2, PlacesApart
      <4> QED BY <2>2, <2>3, <4>1, <3>2 DEF repositoryFor
    <3>3. CASE visit[v].cwd = Elsewhere
      <4>1. visit[v].cwd # ScratchPath /\ visit[v].cwd \notin AnchorUrls
        BY <1>0, <3>3, PlacesApart
      <4>2. r = IF configured # NoAddress THEN configured ELSE origin
        BY <2>2, <2>4, <3>3, <4>1 DEF repositoryFor
      <4> QED BY <2>1, <2>5, <4>1, <4>2 DEF VisitsKnown
    <3> QED BY <2>1, <3>1, <3>2, <3>3 DEF Places
  <2> HIDE DEF r
  <2>7. r \in Records
    BY <2>1, <2>6 DEF Places, Records
  <2>8. visit' \in [Visits -> [cwd : {Nowhere} \cup Places, record : Records]]
          /\ visit'[v].cwd = visit[v].cwd /\ visit'[v].record = r
          /\ \A u \in Visits : u # v => visit'[u] = visit[u]
    BY <2>1, <2>7 DEF VisitsKnown
  <2>9. UNCHANGED <<promptSaid, configured, metadata>>
    BY <1>12 DEF ProvisionVisit
  <2>10. VisitsKnown'
    BY <1>0, <2>1, <2>8, <2>9 DEF VisitsKnown
  <2>11. r = EmptyUrl <=> visit[v].cwd = ScratchPath
    BY <1>0, <2>1, <2>6, PlacesApart DEF Places
  <2>12. RightRepository'
    BY <2>6, <2>8, <2>9, <2>11 DEF RightRepository, VisitsKnown
  <2> QED BY <1>1, <1>12, <2>10, <2>12 DEF ProvisionVisit
<1>13. CASE AnchorsCrash
  <2>1. MakersKnown' /\ FilesWhole'
    BY <1>0, <1>13 DEF AnchorsCrash, MakersKnown, FilesWhole, NoMaker, Places
  <2> QED BY <1>2, <1>13, <2>1 DEF AnchorsCrash
<1> QED
  BY <1>3, <1>4, <1>5, <1>6, <1>7, <1>8, <1>14, <1>10, <1>11, <1>12, <1>13 DEF WorkspacesNext

\* At boot the Scratch workspace, other directories and older anchors are
\* registered.
LEMMA WorkspacesBegin == WorkspacesInit => WorkspacesInv
<1> SUFFICES ASSUME WorkspacesInit PROVE WorkspacesInv
  OBVIOUS
<1>1. MakersKnown
  BY DEF WorkspacesInit, MakersKnown, NoMaker
<1>2. ScratchPath \notin AnchorUrls /\ Elsewhere \notin AnchorUrls /\ Nowhere \notin AnchorUrls
  BY PlacesApart DEF AnchorUrls
<1>3. PICK older \in SUBSET OlderAnchors :
        /\ metadata = [u \in AnchorUrls |-> IF u \in older THEN "whole" ELSE "none"]
        /\ workspaces = {ScratchPath, Elsewhere} \cup older
  BY DEF WorkspacesInit
<1>4. OlderAnchors \subseteq AnchorUrls /\ \A m \in Makers : maker[m].at = "idle"
  BY DEF WorkspacesInit, OlderAnchors, NoMaker
<1>5. FilesWhole
  BY <1>2, <1>3, <1>4 DEF FilesWhole, Places
<1>6. \A v \in Visits : visit[v].cwd = Nowhere /\ visit[v].record = NoAddress /\ promptSaid[v] = "nothing"
  BY DEF WorkspacesInit, NoVisit
<1>7. VisitsKnown
  BY <1>2, <1>6, UrlSpelled DEF WorkspacesInit, VisitsKnown, NoVisit, Records
<1> QED BY <1>1, <1>5, <1>6, <1>7 DEF WorkspacesInv, RightRepository

\* Neither a crash, a failed write nor a concurrent creation leaves an anchor
\* that fails a later creation or a settings page: metadata is never the part
\* of a file that a temporary goes through.
THEOREM AnchorsReadableHolds == WorkspacesSpec => []AnchorsReadable
<1>1. ASSUME WorkspacesInv PROVE AnchorsReadable
  <2>1. \A u \in AnchorUrls : metadata[u] \in {"none", "whole"} /\ u # Bad
    BY <1>1, PlacesApart DEF WorkspacesInv, FilesWhole, AnchorUrls
  <2>2. \A w \in workspaces : repositoryForAnchor(w) # Bad
    <3> SUFFICES ASSUME NEW w \in workspaces PROVE repositoryForAnchor(w) # Bad
      OBVIOUS
    <3>1. CASE w \in AnchorUrls
      BY <2>1, <3>1, PlacesApart DEF repositoryForAnchor
    <3>2. CASE w \notin AnchorUrls
      BY <3>2, PlacesApart DEF repositoryForAnchor
    <3> QED BY <3>1, <3>2
  <2>3. \A m \in Makers : maker[m].at \in {"read", "again"} => maker[m].url \in AnchorUrls
    BY <1>1 DEF WorkspacesInv, MakersKnown
  <2> QED BY <2>1, <2>2, <2>3 DEF AnchorsReadable, workspaceScopes
<1> QED BY <1>1, WorkspacesBegin, WorkspacesInvStep, PTL DEF WorkspacesSpec

\* A session's sandbox holds the repository of the workspace it was opened in,
\* and the one the prompt told of.
THEOREM RightRepositoryHolds == WorkspacesSpec => []RightRepository
<1>1. WorkspacesInv => RightRepository
  BY DEF WorkspacesInv
<1> QED BY <1>1, WorkspacesBegin, WorkspacesInvStep, PTL DEF WorkspacesSpec

-----------------------------------------------------------------------------
(***************************************************************************)
(* SessionRoots, for any sessions and any lineage.                          *)
(***************************************************************************)

\* A set of naturals has a least element: the induction used below.
LEMMA NatMin == ASSUME NEW T, T \subseteq Nat, T # {} PROVE \E x \in T : \A y \in T : x <= y
<1> DEFINE R == OpToRel(<, Nat)
<1>1. IsWellFoundedOn(R, Nat)
  BY NatLessThanWellFounded
<1>2. \A y \in Nat, x \in Nat : y < x => <<y, x>> \in R
  BY DEF OpToRel
<1> HIDE DEF R
<1>3. PICK x \in T : \A y \in T : ~(<<y, x>> \in R)
  BY <1>1, WFMin
<1>4. \A y \in T : ~(y < x)
  BY <1>2, <1>3
<1> QED BY <1>4

\* g follows link from a session to its parent, as step and base say, for the
\* sessions up to n.
FollowsTo(g, link, step, base, n) ==
  \A a \in Family : a <= n => g[a] = IF link[a] # 0 THEN step[a][g[link[a]]] ELSE base[a]

\* g follows link for every session, and link leads to an earlier one.
Follows(g, link, step, base) ==
  \A a \in Family : g[a] = IF link[a] # 0 THEN step[a][g[link[a]]] ELSE base[a]
Earlier(link) == link \in [Family -> Family \cup {0}] /\ \A a \in Family : link[a] < a

\* A recursion from a session to an earlier one defines a function.
LEMMA LineageRecursion ==
  ASSUME NEW V, NEW link, Earlier(link),
         NEW step \in [Family -> [V -> V]], NEW base \in [Family -> V]
  PROVE  \E f \in [Family -> V] : Follows(f, link, step, base)
<1> USE DEF Earlier
<1>f. Family \subseteq Nat \ {0}
  BY FamilyAssumption
<1> USE <1>f
<1> DEFINE Good(n) == \E g \in [Family -> V] : FollowsTo(g, link, step, base, n)
           Bad1 == {n \in Nat : ~Good(n)}
<1>0. \A a \in Family : a \in Nat /\ link[a] \in Nat /\ link[a] < a /\ (link[a] # 0 => link[a] \in Family)
  <2> TAKE a \in Family
  <2>1. a \in Nat /\ Family \subseteq Nat
    OBVIOUS
  <2>2. link[a] \in Family \cup {0} /\ link[a] < a
    OBVIOUS
  <2>3. link[a] \in Nat
    <3>1. CASE link[a] = 0
      BY <3>1
    <3>2. CASE link[a] \in Family
      BY <2>1, <3>2
    <3> QED BY <2>2, <3>1, <3>2
  <2> QED BY <2>1, <2>2, <2>3
<1>1. \A n \in Nat : Good(n)
  <2> SUFFICES ASSUME Bad1 # {} PROVE FALSE
    OBVIOUS
  <2>1. PICK n \in Bad1 : \A k \in Bad1 : n <= k
    BY NatMin
  <2>2. CASE n = 0
    <3>1. FollowsTo(base, link, step, base, 0)
      BY DEF FollowsTo
    <3> QED BY <2>1, <2>2, <3>1
  <2>3. CASE n # 0
    <3>1. n - 1 \in Nat /\ n - 1 \notin Bad1
      BY <2>1, <2>3
    <3>2. PICK g \in [Family -> V] : FollowsTo(g, link, step, base, n - 1)
      BY <3>1
    <3>3. CASE n \notin Family
      <4>1. FollowsTo(g, link, step, base, n)
        BY <3>2, <3>3 DEF FollowsTo
      <4> QED BY <2>1, <4>1
    <3>4. CASE n \in Family
      <4> DEFINE v == IF link[n] # 0 THEN step[n][g[link[n]]] ELSE base[n]
                 h == [g EXCEPT ![n] = v]
      <4>1. v \in V
        BY <3>4
      <4>2. h \in [Family -> V] /\ h[n] = v /\ \A a \in Family : a # n => h[a] = g[a]
        BY <3>4, <4>1
      <4> HIDE DEF h
      <4>3. ASSUME NEW a \in Family, a <= n
            PROVE h[a] = IF link[a] # 0 THEN step[a][h[link[a]]] ELSE base[a]
        <5>1. link[a] # n /\ (link[a] # 0 => h[link[a]] = g[link[a]])
          <6>1. a \in Nat /\ link[a] \in Nat /\ link[a] < a /\ n \in Nat
            BY <1>0
          <6>2. link[a] # n
            BY <4>3, <6>1
          <6> QED BY <1>0, <4>2, <6>2
        <5>2. CASE a = n
          BY <4>2, <5>1, <5>2
        <5>3. CASE a # n
          <6>1. a <= n - 1 /\ h[a] = g[a]
            BY <4>2, <4>3, <5>3
          <6> QED BY <3>2, <5>1, <6>1 DEF FollowsTo
        <5> QED BY <5>2, <5>3
      <4>4. FollowsTo(h, link, step, base, n)
        BY <4>3 DEF FollowsTo
      <4> QED BY <2>1, <4>2, <4>4
    <3> QED BY <3>3, <3>4
  <2> QED BY <2>2, <2>3
<1>2. ASSUME NEW g \in [Family -> V], NEW h \in [Family -> V], NEW n \in Nat, NEW m \in Nat,
             FollowsTo(g, link, step, base, n), FollowsTo(h, link, step, base, m), n <= m
      PROVE  \A a \in Family : a <= n => g[a] = h[a]
  <2> DEFINE T == {a \in Family : a <= n /\ g[a] # h[a]}
  <2> SUFFICES ASSUME T # {} PROVE FALSE
    OBVIOUS
  <2>1. PICK a \in T : \A b \in T : a <= b
    BY NatMin
  <2>2. a \in Nat /\ a <= n /\ a <= m /\ g[a] # h[a]
    BY <1>2, <2>1
  <2>3. link[a] # 0 => link[a] \in Family /\ link[a] \notin T /\ link[a] <= n
    <3>1. link[a] \in Nat /\ link[a] < a /\ (link[a] # 0 => link[a] \in Family)
      BY <1>0
    <3>2. link[a] \notin T /\ link[a] <= n
      BY <2>1, <2>2, <3>1
    <3> QED BY <3>1, <3>2
  <2>4. link[a] # 0 => g[link[a]] = h[link[a]]
    BY <2>3
  <2> QED BY <1>2, <2>2, <2>4 DEF FollowsTo
<1> DEFINE G(n) == CHOOSE g \in [Family -> V] : FollowsTo(g, link, step, base, n)
           f == [a \in Family |-> G(a)[a]]
<1>3. \A n \in Nat : G(n) \in [Family -> V] /\ FollowsTo(G(n), link, step, base, n)
  BY <1>1
<1> HIDE DEF G, Good, Bad1
<1>4. ASSUME NEW a \in Family
      PROVE f[a] \in V /\ f[a] = IF link[a] # 0 THEN step[a][f[link[a]]] ELSE base[a]
  <2>1. a \in Nat /\ G(a) \in [Family -> V] /\ FollowsTo(G(a), link, step, base, a)
    BY <1>3
  <2>2. f[a] = IF link[a] # 0 THEN step[a][G(a)[link[a]]] ELSE base[a]
    BY <2>1 DEF FollowsTo
  <2>3. ASSUME link[a] # 0 PROVE G(a)[link[a]] = f[link[a]]
    <3>1. link[a] \in Family /\ link[a] \in Nat /\ link[a] <= a
      BY <1>0, <2>3
    <3>2. G(link[a]) \in [Family -> V] /\ FollowsTo(G(link[a]), link, step, base, link[a])
      BY <1>3, <3>1
    <3>3. G(link[a])[link[a]] = G(a)[link[a]]
      BY <1>2, <2>1, <3>1, <3>2
    <3> QED BY <3>1, <3>3
  <2> QED BY <2>1, <2>2, <2>3
<1> HIDE DEF f
<1>5. f \in [Family -> V]
  BY <1>4 DEF f
<1> QED BY <1>4, <1>5 DEF Follows

\* The walk of manager/root-session.ts up the live ancestors, one link at a time.
LEMMA WalkUnfolds ==
  /\ walk \in [Family -> Family]
  /\ \A a \in Family :
       walk[a] = IF a \in Delegated /\ Parent[a] # 0 /\ Parent[a] \in agents THEN walk[Parent[a]] ELSE a
<1> USE FamilyAssumption
<1> DEFINE P(f) == f = [a \in Family |-> IF a \in Delegated /\ Parent[a] # 0 /\ Parent[a] \in agents
                                         THEN f[Parent[a]] ELSE a]
<1>0. PICK link : link = [a \in Family |-> IF a \in Delegated /\ Parent[a] \in agents THEN Parent[a] ELSE 0]
  OBVIOUS
<1>1. link \in [Family -> Family \cup {0}]
  BY <1>0
<1>2. \A a \in Family : link[a] < a
  BY <1>0
<1>3. PICK base : base = [a \in Family |-> a]
  OBVIOUS
<1>4. PICK step : step = [a \in Family |-> [v \in Family |-> v]]
  OBVIOUS
<1>5. step \in [Family -> [Family -> Family]] /\ base \in [Family -> Family]
  BY <1>3, <1>4
<1>6. Earlier(link)
  BY <1>1, <1>2 DEF Earlier
<1>7. PICK f \in [Family -> Family] : Follows(f, link, step, base)
  BY <1>5, <1>6, LineageRecursion
<1>8. ASSUME NEW a \in Family
      PROVE  f[a] = IF a \in Delegated /\ Parent[a] # 0 /\ Parent[a] \in agents THEN f[Parent[a]] ELSE a
  <2>1. CASE link[a] # 0
    <3>1. link[a] = Parent[a] /\ Parent[a] \in Family /\ a \in Delegated /\ Parent[a] # 0 /\ Parent[a] \in agents
      BY <1>0, <2>1
    <3>2. f[a] = step[a][f[link[a]]] /\ f[link[a]] \in Family
      BY <1>7, <2>1, <3>1 DEF Follows
    <3>3. f[a] = f[Parent[a]]
      BY <1>4, <3>1, <3>2
    <3> QED BY <3>1, <3>3
  <2>2. CASE link[a] = 0
    <3>1. ~(a \in Delegated /\ Parent[a] # 0 /\ Parent[a] \in agents)
      BY <1>0, <2>2
    <3>2. f[a] = a
      BY <1>3, <1>7, <2>2 DEF Follows
    <3> QED BY <3>1, <3>2
  <2> QED BY <2>1, <2>2
<1>9. P(f)
  BY <1>8
<1>10. walk = CHOOSE g : P(g)
  BY DEF walk
<1>11. P(walk)
  BY <1>9, <1>10
<1> DEFINE T == {a \in Family : walk[a] \notin Family}
<1>12. T = {}
  <2> SUFFICES ASSUME T # {} PROVE FALSE
    OBVIOUS
  <2>1. PICK a \in T : \A b \in T : a <= b
    BY NatMin
  <2>2. a \in Nat /\ Parent[a] \in Family \cup {0} /\ Parent[a] < a
    OBVIOUS
  <2>3. walk[a] # a /\ walk[a] = walk[Parent[a]] /\ Parent[a] # 0
    BY <1>11
  <2>4. Parent[a] \in T
    BY <2>2, <2>3
  <2>5. Parent[a] \in Nat
    BY <2>4
  <2>6. ~(a <= Parent[a])
    BY <2>2, <2>5
  <2> QED BY <2>1, <2>4, <2>6
<1> QED BY <1>11, <1>12

\* The sessions one subagent link after another leads to.
LEMMA LineageUnfolds ==
  \A a \in Family :
    lineage[a] = {a} \cup (IF a \in Delegated /\ Parent[a] # 0 THEN lineage[Parent[a]] ELSE {})
<1> USE FamilyAssumption
<1> DEFINE P(f) == f = [a \in Family |-> {a} \cup (IF a \in Delegated /\ Parent[a] # 0
                                                   THEN f[Parent[a]] ELSE {})]
<1>0. PICK link : link = [a \in Family |-> IF a \in Delegated THEN Parent[a] ELSE 0]
  OBVIOUS
<1>1. Earlier(link)
  BY <1>0 DEF Earlier
<1>2. PICK base : base = [a \in Family |-> {a}]
  OBVIOUS
<1>3. PICK step : step = [a \in Family |-> [v \in SUBSET Family |-> {a} \cup v]]
  OBVIOUS
<1>4. step \in [Family -> [SUBSET Family -> SUBSET Family]] /\ base \in [Family -> SUBSET Family]
  BY <1>2, <1>3
<1>5. PICK f \in [Family -> SUBSET Family] : Follows(f, link, step, base)
  BY <1>1, <1>4, LineageRecursion
<1>6. ASSUME NEW a \in Family
      PROVE  f[a] = {a} \cup (IF a \in Delegated /\ Parent[a] # 0 THEN f[Parent[a]] ELSE {})
  <2>1. CASE link[a] # 0
    <3>1. link[a] = Parent[a] /\ Parent[a] \in Family /\ a \in Delegated /\ Parent[a] # 0
      BY <1>0, <2>1
    <3>2. f[a] = step[a][f[link[a]]] /\ f[link[a]] \in SUBSET Family
      BY <1>5, <2>1, <3>1 DEF Follows
    <3>3. f[a] = {a} \cup f[Parent[a]]
      BY <1>3, <3>1, <3>2
    <3> QED BY <3>1, <3>3
  <2>2. CASE link[a] = 0
    <3>1. ~(a \in Delegated /\ Parent[a] # 0)
      BY <1>0, <2>2
    <3>2. f[a] = {a}
      BY <1>2, <1>5, <2>2 DEF Follows
    <3> QED BY <3>1, <3>2
  <2> QED BY <2>1, <2>2
<1>7. P(f)
  BY <1>6
<1>8. lineage = CHOOSE g : P(g)
  BY DEF lineage
<1>9. P(lineage)
  BY <1>7, <1>8
<1> QED BY <1>9

\* The walk up the live ancestors never leaves the subagent links.
LEMMA WalkInLineage == \A a \in Family : walk[a] \in lineage[a]
<1> USE FamilyAssumption
<1> DEFINE T == {a \in Family : walk[a] \notin lineage[a]}
<1> SUFFICES ASSUME T # {} PROVE FALSE
  OBVIOUS
<1>1. PICK a \in T : \A b \in T : a <= b
  BY NatMin
<1>2. a \in Nat /\ Parent[a] \in Family \cup {0} /\ Parent[a] < a
  OBVIOUS
<1>3. a \in lineage[a]
  BY LineageUnfolds
<1>4. walk[a] # a
  BY <1>3
<1>5. a \in Delegated /\ Parent[a] # 0 /\ walk[a] = walk[Parent[a]]
  BY <1>4, WalkUnfolds
<1>6. lineage[Parent[a]] \subseteq lineage[a]
  BY <1>5, LineageUnfolds
<1>7. Parent[a] \in T
  BY <1>2, <1>5, <1>6
<1>8. Parent[a] \in Nat
  BY <1>7
<1>9. ~(a <= Parent[a])
  BY <1>2, <1>8
<1> QED BY <1>1, <1>7, <1>9

-----------------------------------------------------------------------------

\* A session that has an open turn, or was served, has its root on record,
\* and the root is one it reaches through subagent links.
RootsKnown ==
  /\ opened \subseteq Family /\ dangling \subseteq Family /\ agents \subseteq Family
  /\ memo \in [Family -> Family \cup {0}]
  /\ counts \in [Family -> Nat] /\ repairs \in [Family -> Nat]
  /\ served \in [Family -> SUBSET Family]
  /\ \A a \in opened : memo[a] # 0
RootsOnRecord ==
  /\ \A a \in Family : memo[a] # 0 => memo[a] \in lineage[a]
  /\ \A a \in Family : \A r \in served[a] : r = memo[a] /\ memo[a] # 0
RootsInv == RootsKnown /\ RootsOnRecord /\ CountsMatch

\* A count of c, n open turns and p repairs, as CountsMatch has them.
InBounds(c, n, p) == c <= n /\ n <= c + p

\* The open turns of a root can be counted.
LEMMA OpenCounted ==
  ASSUME RootsInv, NEW r \in Roots
  PROVE  IsFiniteSet(openAt(r)) /\ Cardinality(openAt(r)) \in Nat
         /\ InBounds(counts[r], Cardinality(openAt(r)), repairs[r]) /\ counts[r] \in Nat /\ repairs[r] \in Nat
<1>1. openAt(r) \subseteq Family /\ IsFiniteSet(Family)
  BY FamilyAssumption DEF RootsInv, RootsKnown, openAt
<1>2. IsFiniteSet(openAt(r)) /\ Cardinality(openAt(r)) \in Nat
  BY <1>1, FS_Subset, FS_CardinalityType
<1> QED BY <1>2 DEF RootsInv, RootsKnown, CountsMatch, InBounds, Roots

\* Remembering the root of a session moves no open turn.
LEMMA RememberKeeps ==
  ASSUME RootsInv, NEW a \in Family, remember(a)
  PROVE  /\ rootSessionId(a) \in Family /\ rootSessionId(a) \in lineage[a]
         /\ memo' = [memo EXCEPT ![a] = rootSessionId(a)] /\ memo' \in [Family -> Family \cup {0}]
         /\ memo'[a] = rootSessionId(a) /\ memo'[a] # 0
         /\ \A b \in Family : b # a \/ memo[b] # 0 => memo'[b] = memo[b]
         /\ \A b \in Family : memo'[b] # 0 => memo'[b] \in lineage[b]
<1> USE FamilyAssumption DEF RootsInv, RootsKnown, RootsOnRecord
<1>1. rootSessionId(a) \in Family /\ rootSessionId(a) \in lineage[a]
  BY WalkUnfolds, WalkInLineage DEF rootSessionId
<1>2. memo' = [memo EXCEPT ![a] = rootSessionId(a)]
  BY DEF remember
<1>3. rootSessionId(a) # 0 /\ (memo[a] # 0 => rootSessionId(a) = memo[a])
  BY <1>1 DEF rootSessionId
<1> HIDE DEF RootsInv
<1> QED BY <1>1, <1>2, <1>3 DEF RootsInv

\* What a step does to the memo, whether it remembers a root or not.
MemoKept ==
  /\ memo' \in [Family -> Family \cup {0}]
  /\ \A b \in Family : memo[b] # 0 => memo'[b] = memo[b]
  /\ \A b \in Family : memo'[b] # 0 => memo'[b] \in lineage[b]
LEMMA MemoSteps ==
  ASSUME RootsInv, (\E a \in Family : remember(a)) \/ UNCHANGED memo
  PROVE  MemoKept
BY RememberKeeps DEF RootsInv, RootsKnown, RootsOnRecord, MemoKept

\* While the memo is kept, sessions stay on record.
LEMMA RecordStays ==
  ASSUME RootsInv, MemoKept, UNCHANGED served
  PROVE  RootsOnRecord'
<1>1. \A b \in Family : \A r \in served'[b] : r = memo'[b] /\ memo'[b] # 0
  BY DEF RootsInv, RootsOnRecord, MemoKept
<1> QED BY <1>1 DEF RootsOnRecord, MemoKept

\* Turns that stay open stay with their roots.
LEMMA OpenStays ==
  ASSUME RootsInv, MemoKept, UNCHANGED opened, NEW r
  PROVE  openAt(r)' = openAt(r)
BY DEF RootsInv, RootsKnown, MemoKept, openAt

\* A step that leaves the turns and their counts alone.
LEMMA TurnsStay ==
  ASSUME RootsInv, MemoKept, UNCHANGED <<counts, repairs, opened, dangling>>, agents' \subseteq Family
  PROVE  CountsMatch' /\ (served' \in [Family -> SUBSET Family] => RootsKnown')
<1>1. \A r \in Roots : openAt(r)' = openAt(r)
  BY OpenStays
<1>2. CountsMatch'
  BY <1>1 DEF RootsInv, CountsMatch
<1>3. \A b \in opened' : memo'[b] # 0
  BY DEF RootsInv, RootsKnown, MemoKept
<1> QED BY <1>2, <1>3 DEF RootsInv, RootsKnown, MemoKept

\* A turn/end is counted under a session's root, in the family.
LEMMA EndsAtRoot ==
  ASSUME RootsInv, NEW a \in Family
  PROVE  rootSessionIdOfSession(a) \in Family /\ (a \in opened => rootSessionIdOfSession(a) = memo[a])
BY WalkUnfolds, WalkInLineage, FamilyAssumption DEF RootsInv, RootsKnown, rootSessionIdOfSession, rootSessionId

\* RootsInv is inductive.
LEMMA RootsInvStep == RootsInv /\ [RootsNext]_rootVars => RootsInv'
<1> SUFFICES ASSUME RootsInv, [RootsNext]_rootVars PROVE RootsInv'
  OBVIOUS
<1>0. ASSUME UNCHANGED <<memo, counts, repairs, opened, dangling, served>>, agents' \subseteq Family PROVE RootsInv'
  <2>1. MemoKept
    BY <1>0, MemoSteps
  <2> QED BY <1>0, <2>1, TurnsStay, RecordStays DEF RootsInv, RootsKnown
<1>1. ASSUME NEW a \in Family, Created(a) \/ Disposed(a) PROVE RootsInv'
  BY <1>0, <1>1 DEF Created, Disposed, RootsInv, RootsKnown
<1>2. ASSUME NEW a \in Family, Served(a) PROVE RootsInv'
  <2>1. remember(a) /\ UNCHANGED <<agents, counts, repairs, opened, dangling>>
          /\ served' = [served EXCEPT ![a] = @ \cup {rootSessionId(a)}]
    BY <1>2 DEF Served
  <2>2. MemoKept
    BY <2>1, MemoSteps
  <2>3. served' \in [Family -> SUBSET Family]
    BY <2>1, RememberKeeps DEF RootsInv, RootsKnown
  <2>4. CountsMatch' /\ RootsKnown'
    BY <2>1, <2>2, <2>3, TurnsStay DEF RootsInv, RootsKnown
  <2>5. \A b \in Family : \A r \in served'[b] : r = memo'[b] /\ memo'[b] # 0
    BY <2>1, RememberKeeps DEF RootsInv, RootsKnown, RootsOnRecord
  <2> QED BY <2>2, <2>4, <2>5 DEF RootsInv, RootsOnRecord, MemoKept
<1>3. ASSUME NEW a \in Family, Resolved(a) PROVE RootsInv'
  <2>1. remember(a) /\ UNCHANGED <<agents, counts, repairs, opened, dangling, served>>
    BY <1>3 DEF Resolved
  <2>2. MemoKept
    BY <2>1, MemoSteps
  <2> QED BY <2>1, <2>2, TurnsStay, RecordStays DEF RootsInv, RootsKnown
<1>4. ASSUME NEW a \in Family, TurnStarts(a) PROVE RootsInv'
  <2>1. PICK r : r = rootSessionId(a)
    OBVIOUS
  <2>2. remember(a) /\ a \notin opened /\ opened' = opened \cup {a} /\ UNCHANGED <<agents, dangling, repairs, served>>
    BY <1>4 DEF TurnStarts
  <2>3. counts' = [counts EXCEPT ![r] = @ + 1] /\ r \in Family /\ memo'[a] = r /\ r # 0
    <3>1. rootSessionIdOfSession(a) = r
      BY <1>4, <2>1 DEF TurnStarts, rootSessionIdOfSession, rootSessionId
    <3> QED BY <1>4, <2>1, <2>2, <3>1, RememberKeeps DEF TurnStarts
  <2>4. MemoKept
    BY <2>2, MemoSteps
  <2>5. RootsKnown'
    <3>1. counts' \in [Family -> Nat]
      BY <2>3 DEF RootsInv, RootsKnown
    <3>2. \A b \in opened' : memo'[b] # 0
      BY <2>2, <2>3, <2>4 DEF RootsInv, RootsKnown, MemoKept
    <3> QED BY <2>2, <2>4, <3>1, <3>2 DEF RootsInv, RootsKnown, MemoKept
  <2>6. ASSUME NEW q \in Roots PROVE InBounds(counts'[q], Cardinality(openAt(q)'), repairs'[q])
    <3>1. CASE q = r
      <4>1. openAt(q)' = openAt(q) \cup {a} /\ a \notin openAt(q)
        BY <2>2, <2>3, <2>4, <3>1 DEF RootsInv, RootsKnown, MemoKept, openAt
      <4>2. Cardinality(openAt(q) \cup {a}) = Cardinality(openAt(q)) + 1
        BY <4>1, OpenCounted, FS_AddElement
      <4>3. counts'[q] = counts[q] + 1 /\ repairs' = repairs
        BY <2>2, <2>3, <3>1 DEF RootsInv, RootsKnown
      <4>4. PICK n : n = Cardinality(openAt(q))
        OBVIOUS
      <4> QED BY <4>1, <4>2, <4>3, <4>4, OpenCounted DEF InBounds
    <3>2. CASE q # r
      <4>1. openAt(q)' = openAt(q)
        BY <2>2, <2>3, <2>4, <3>2 DEF RootsInv, RootsKnown, MemoKept, openAt
      <4>2. counts'[q] = counts[q] /\ repairs' = repairs
        BY <2>2, <2>3, <3>2 DEF RootsInv, RootsKnown, Roots
      <4> QED BY <4>1, <4>2, OpenCounted DEF InBounds
    <3> QED BY <3>1, <3>2
  <2> QED BY <2>2, <2>4, <2>5, <2>6, RecordStays DEF RootsInv, CountsMatch, InBounds
<1>5. ASSUME NEW a \in Family, TurnEnds(a) PROVE RootsInv'
  <2>1. PICK r : r = memo[a]
    OBVIOUS
  <2>2. a \in opened /\ r # 0 /\ r \in Family /\ opened' = opened \ {a} /\ UNCHANGED <<agents, dangling, served>>
    BY <1>5, <2>1 DEF TurnEnds, RootsInv, RootsKnown
  <2>3. /\ counts' = [counts EXCEPT ![r] = IF @ > 0 THEN @ - 1 ELSE 0]
        /\ repairs' = [repairs EXCEPT ![r] = IF openAt(r) = {a} THEN 0 ELSE @]
    BY <1>5, <2>1, <2>2, EndsAtRoot DEF TurnEnds, endTurn
  <2>4. MemoKept
    BY <1>5, MemoSteps DEF TurnEnds
  <2>5. RootsKnown'
    <3>1. counts' \in [Family -> Nat] /\ repairs' \in [Family -> Nat]
      BY <2>2, <2>3 DEF RootsInv, RootsKnown
    <3>2. \A b \in opened' : memo'[b] # 0
      BY <2>2, <2>4 DEF RootsInv, RootsKnown, MemoKept
    <3> QED BY <2>2, <2>4, <3>1, <3>2 DEF RootsInv, RootsKnown, MemoKept
  <2>6. ASSUME NEW q \in Roots PROVE InBounds(counts'[q], Cardinality(openAt(q)'), repairs'[q])
    <3>1. CASE q = r
      <4>1. openAt(q)' = openAt(q) \ {a} /\ a \in openAt(q)
        BY <2>1, <2>2, <2>4, <3>1 DEF RootsInv, RootsKnown, MemoKept, openAt
      <4>2. Cardinality(openAt(q) \ {a}) = Cardinality(openAt(q)) - 1
        BY <4>1, OpenCounted, FS_RemoveElement
      <4>3. counts'[q] = (IF counts[q] > 0 THEN counts[q] - 1 ELSE 0)
            /\ repairs'[q] = (IF openAt(q) = {a} THEN 0 ELSE repairs[q])
        BY <2>2, <2>3, <3>1 DEF RootsInv, RootsKnown
      <4>4. PICK n : n = Cardinality(openAt(q))
        OBVIOUS
      <4>5. n \in Nat /\ n > 0
        BY <4>1, <4>4, OpenCounted, FS_EmptySet
      <4>6. openAt(q) = {a} => n = 1
        BY <4>4, FS_Singleton
      <4>7. InBounds(counts[q], n, repairs[q]) /\ counts[q] \in Nat /\ repairs[q] \in Nat
        BY <4>4, OpenCounted
      <4>8. InBounds(counts'[q], n - 1, repairs'[q])
        BY <4>3, <4>5, <4>6, <4>7 DEF InBounds
      <4> QED BY <4>1, <4>2, <4>4, <4>8
    <3>2. CASE q # r
      <4>1. openAt(q)' = openAt(q)
        BY <2>1, <2>2, <2>4, <3>2 DEF RootsInv, RootsKnown, MemoKept, openAt
      <4>2. counts'[q] = counts[q] /\ repairs'[q] = repairs[q]
        BY <2>2, <2>3, <3>2 DEF RootsInv, RootsKnown, Roots
      <4> QED BY <4>1, <4>2, OpenCounted DEF InBounds
    <3> QED BY <3>1, <3>2
  <2> QED BY <2>2, <2>4, <2>5, <2>6, RecordStays DEF RootsInv, CountsMatch, InBounds
<1>6. ASSUME NEW a \in Family, RepairedEnd(a) PROVE RootsInv'
  <2>1. PICK r : r = rootSessionIdOfSession(a)
    OBVIOUS
  <2>2. r \in Family /\ dangling' = dangling \ {a} /\ UNCHANGED <<agents, opened, served>>
    BY <1>6, <2>1, EndsAtRoot DEF RepairedEnd
  <2>3. /\ counts' = [counts EXCEPT ![r] = IF @ > 0 THEN @ - 1 ELSE 0]
        /\ repairs' = [repairs EXCEPT ![r] = IF openAt(r) = {} THEN 0 ELSE @ + 1]
    BY <1>6, <2>1 DEF RepairedEnd, endTurn
  <2>4. MemoKept
    BY <1>6, MemoSteps DEF RepairedEnd
  <2>5. RootsKnown'
    <3>1. counts' \in [Family -> Nat] /\ repairs' \in [Family -> Nat]
      BY <2>2, <2>3 DEF RootsInv, RootsKnown
    <3>2. \A b \in opened' : memo'[b] # 0
      BY <2>2, <2>4 DEF RootsInv, RootsKnown, MemoKept
    <3> QED BY <2>2, <2>4, <3>1, <3>2 DEF RootsInv, RootsKnown, MemoKept
  <2>6. ASSUME NEW q \in Roots PROVE InBounds(counts'[q], Cardinality(openAt(q)'), repairs'[q])
    <3>0. openAt(q)' = openAt(q)
      BY <2>2, <2>4, OpenStays
    <3>1. PICK n : n = Cardinality(openAt(q))
      OBVIOUS
    <3>2. n \in Nat /\ InBounds(counts[q], n, repairs[q]) /\ counts[q] \in Nat /\ repairs[q] \in Nat
      BY <3>1, OpenCounted
    <3>3. CASE q = r
      <4>1. counts'[q] = (IF counts[q] > 0 THEN counts[q] - 1 ELSE 0)
            /\ repairs'[q] = (IF openAt(q) = {} THEN 0 ELSE repairs[q] + 1)
        BY <2>2, <2>3, <3>3 DEF RootsInv, RootsKnown
      <4>2. openAt(q) = {} => n = 0
        BY <3>1, FS_EmptySet
      <4>3. InBounds(counts'[q], n, repairs'[q])
        BY <3>2, <4>1, <4>2 DEF InBounds
      <4> QED BY <3>0, <3>1, <4>3
    <3>4. CASE q # r
      <4>1. counts'[q] = counts[q] /\ repairs'[q] = repairs[q]
        BY <2>2, <2>3, <3>4 DEF RootsInv, RootsKnown, Roots
      <4> QED BY <3>0, <3>1, <3>2, <4>1
    <3> QED BY <3>3, <3>4
  <2> QED BY <2>2, <2>4, <2>5, <2>6, RecordStays DEF RootsInv, CountsMatch, InBounds
<1>7. CASE Restarts
  <2>1. /\ opened' = {} /\ dangling' = dangling \cup opened /\ agents' = {} /\ memo' = [a \in Family |-> 0]
        /\ counts' = [r \in Roots |-> 0] /\ repairs' = [r \in Roots |-> 0] /\ served' = [a \in Family |-> {}]
    BY <1>7 DEF Restarts
  <2>2. \A r \in Roots : openAt(r)' = {}
    BY <2>1 DEF openAt
  <2>3. CountsMatch'
    BY <2>1, <2>2, FS_EmptySet DEF CountsMatch
  <2> QED BY <2>1, <2>3 DEF RootsInv, RootsKnown, RootsOnRecord, Roots
<1>8. CASE UNCHANGED rootVars
  BY <1>0, <1>8 DEF rootVars, RootsInv, RootsKnown
<1> QED BY <1>1, <1>2, <1>3, <1>4, <1>5, <1>6, <1>7, <1>8 DEF RootsNext

\* The host starts with every root unknown and no turn open.
LEMMA RootsBegin == RootsInit => RootsInv
<1> SUFFICES ASSUME RootsInit PROVE RootsInv
  OBVIOUS
<1>1. \A r \in Roots : openAt(r) = {}
  BY DEF RootsInit, openAt
<1>2. CountsMatch
  BY <1>1, FS_EmptySet DEF CountsMatch, RootsInit
<1> QED BY <1>2 DEF RootsInv, RootsKnown, RootsOnRecord, RootsInit, Roots

\* The live-turn count that keeps a sandbox from hibernating never exceeds the
\* open turns whose work goes there, and falls short of them by no more than
\* the repaired ends that came under them.
THEOREM CountsMatchHolds == RootsSpec => []CountsMatch
<1>1. RootsInv => CountsMatch
  BY DEF RootsInv
<1> QED BY <1>1, RootsBegin, RootsInvStep, PTL DEF RootsSpec

\* As long as the host runs, a session's work goes to one sandbox.
THEOREM OneSandboxHolds == RootsSpec => []OneSandbox
<1>1. RootsInv => OneSandbox
  BY DEF RootsInv, RootsOnRecord, OneSandbox
<1> QED BY <1>1, RootsBegin, RootsInvStep, PTL DEF RootsSpec

\* A fork owns its working copy: no session is served from a sandbox it does
\* not reach through subagent links alone.
THEOREM ForksApartHolds == RootsSpec => []ForksApart
<1>1. RootsInv => ForksApart
  BY DEF RootsInv, RootsOnRecord, ForksApart
<1> QED BY <1>1, RootsBegin, RootsInvStep, PTL DEF RootsSpec
=============================================================================
