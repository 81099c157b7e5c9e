-------------------------------- MODULE McpPage --------------------------------
(***************************************************************************)
(* The MCP settings page (client/mcp/mcp.tsx): the cards of the servers,   *)
(* the dialog that adds, edits and tests one, and the OAuth sign-ins the    *)
(* page opens in other tabs and waits for.  The host is what the page sees  *)
(* of it: stored servers, their mounts, and the sign-ins it has started.    *)
(*                                                                         *)
(* A call is in flight until the host serves it, then until its answer is   *)
(* handled; list calls overlap each other, one write and sign-in starts.    *)
(* The dialog is modal: while it is open no card is clicked.                *)
(***************************************************************************)
EXTENDS Naturals, FiniteSets

CONSTANTS Cards,       \* server names
          Stored,      \* the servers there are when the page opens
          PageUrls,    \* addresses the operator enters
          TabIds,      \* sign-in tabs the browser opens, one use each
          MaxClicks,   \* bound: clicks on cards, Save, Test, Add server
          MaxChanges,  \* bound: edits of dialog fields
          MaxReads,    \* bound: list calls in flight
          MaxLosses    \* bound: calls that fail, mounts that drop, tokens that expire

ASSUME PageConstants ==
  /\ Stored \subseteq Cards
  /\ {MaxClicks, MaxChanges, MaxLosses} \subseteq Nat
  /\ MaxReads \in Nat \ {0}

ASSUME TabsAssumption == "blocked" \notin TabIds

VARIABLES host,      \* the stored servers, their sign-ins and mounts
          shown,     \* servers: the views the page shows, <<>> before the first
          reads,     \* list calls in flight, each with the sign-in it is for
          wait,      \* signIn: the sign-in the page waits for
          tabs,      \* the browser's tabs
          connects,  \* startMcpAuthorization calls in flight
          write,     \* the write in flight: pending is write.at # "idle"
          confirming,\* the card that asks before it deletes
          dlg,       \* dialog and its fields
          test,      \* testing: the test call in flight
          result,    \* testResult, as the entry that was tested
          clicks, changes, losses

pageVars == <<host, shown, reads, wait, tabs, connects, write, confirming, dlg,
              test, result, clicks, changes, losses>>

NoUrl == "blank"
NoCard == "none"
NoTab == "blocked"

NoServerYet == [auth |-> "absent", on |-> FALSE, url |-> NoUrl, token |-> FALSE,
                signed |-> "none", up |-> "none"]
NoWait == [s |-> NoCard, before |-> <<>>, tab |-> NoTab, overdue |-> FALSE]
NoWrite == [at |-> "idle", op |-> "none", s |-> NoCard, entry |-> NoServerYet, tab |-> NoTab,
            opens |-> FALSE, ans |-> <<>>]
NoDialog == [open |-> FALSE, edit |-> FALSE, on |-> TRUE, keeps |-> FALSE,
             s |-> NoCard, url |-> NoUrl, auth |-> "none", token |-> FALSE]
NoTest == [at |-> "idle", entry |-> NoServerYet]
NoEntry == [s |-> NoCard, auth |-> "none", url |-> NoUrl, token |-> FALSE]

counters == <<clicks, changes, losses>>

-----------------------------------------------------------------------------
(* What the page shows of the host. *)

\* McpPool.views: a server without a mount needs a sign-in or is off.
views(h) == [s \in Cards |->
  [auth |-> h[s].auth, on |-> h[s].on, url |-> h[s].url, token |-> h[s].token,
   signed |-> h[s].signed,
   status |-> IF h[s].up # "none" THEN h[s].up
              ELSE IF h[s].on /\ h[s].auth = "oauth" THEN "needs-auth" ELSE "disabled"]]

there(v) == v.auth # "absent"

\* What the page compares to tell that a sign-in finished.
signInState(v) == <<v.status, IF v.auth = "oauth" THEN v.signed ELSE "none">>

pending == write.at # "idle"
busy == pending \/ test.at # "idle"

\* ServerCard: the controls a card offers, none while a write is pending.
cardControls(s) ==
  IF shown = <<>> \/ dlg.open \/ pending THEN {}
  ELSE IF ~there(shown[s]) THEN {}
  ELSE {"toggle"} \cup
       IF confirming = s THEN {"cancel", "confirm"}
       ELSE {"edit", "delete"} \cup (IF shown[s].auth = "oauth" THEN {"connect"} ELSE {})
                               \cup (IF shown[s].status = "error" THEN {"retry"} ELSE {})

\* draft: the entry the dialog would send (token: one was typed), which needs a name, a URL and,
\* for a bearer server, a token typed or already saved.
drafted == dlg.s # NoCard /\ dlg.url # NoUrl /\ (dlg.auth = "bearer" => dlg.token \/ dlg.keeps)
draft == [auth |-> dlg.auth, on |-> dlg.on, url |-> dlg.url,
          token |-> dlg.auth = "bearer" /\ dlg.token, signed |-> "none", up |-> "none"]

\* What a test depends on: the fields as they stand.
tested == [s |-> dlg.s, auth |-> dlg.auth, url |-> dlg.url, token |-> dlg.token]

\* The dialog's fields and buttons are disabled while it is busy.
dialogControls ==
  IF ~dlg.open \/ busy THEN {}
  ELSE {"field", "cancel"} \cup (IF drafted THEN {"test", "save"} ELSE {})

Click == clicks < MaxClicks /\ clicks' = clicks + 1 /\ UNCHANGED <<changes, losses>>
Lose == losses < MaxLosses /\ losses' = losses + 1 /\ UNCHANGED <<clicks, changes>>

-----------------------------------------------------------------------------
(* Reading the list. *)

Read(w, closed) ==
  /\ Cardinality(reads) < MaxReads
  /\ reads' = reads \cup {[at |-> "sent", w |-> w, closed |-> closed, ans |-> <<>>]}

someStarting == shown # <<>> /\ \E s \in Cards : shown[s].status = "starting"

\* A server that is starting is re-read every 1.5 s.
PollStarting ==
  /\ someStarting
  /\ Read(NoWait, FALSE)
  /\ UNCHANGED <<host, shown, wait, tabs, connects, write, confirming, dlg, test, result, counters>>

\* mutant: the wait has no time limit.
PollSignInForever ==
  /\ wait # NoWait
  /\ Read(wait, tabs[wait.tab].at = "closed")
  /\ UNCHANGED <<host, shown, wait, tabs, connects, write, confirming, dlg, test, result, counters>>

\* The sign-in's timer: an overdue wait ends; else the tab is looked at and
\* the list read.
PollSignIn ==
  /\ wait # NoWait
  /\ \/ wait.overdue /\ wait' = NoWait /\ UNCHANGED reads
     \/ ~wait.overdue /\ Read(wait, tabs[wait.tab].at = "closed") /\ UNCHANGED wait
  /\ UNCHANGED <<host, shown, tabs, connects, write, confirming, dlg, test, result, counters>>

\* listMcpServers on the host.
Listed(c) ==
  /\ c.at = "sent"
  /\ \/ reads' = (reads \ {c}) \cup {[c EXCEPT !.at = "served", !.ans = views(host)]}
        /\ UNCHANGED counters
     \/ reads' = (reads \ {c}) \cup {[c EXCEPT !.at = "failed"]} /\ Lose
  /\ UNCHANGED <<host, shown, wait, tabs, connects, write, confirming, dlg, test, result>>

\* The answer replaces what the page shows.  The read of a sign-in ends
\* the wait when its server is gone or moved, or its tab was closed.
ListAnswered(c) ==
  /\ c.at \in {"served", "failed"}
  /\ reads' = reads \ {c}
  /\ IF c.at = "failed" THEN UNCHANGED <<shown, wait>>
     ELSE /\ shown' = c.ans
          /\ wait' = IF /\ c.w # NoWait
                        /\ \/ ~there(c.ans[c.w.s])
                           \/ signInState(c.ans[c.w.s]) # c.w.before
                           \/ c.closed
                     THEN NoWait ELSE wait
  /\ UNCHANGED <<host, tabs, connects, write, confirming, dlg, test, result, counters>>

-----------------------------------------------------------------------------
(* Signing in. *)

\* openSignInTab: a blank tab, unless the browser blocks it.
OpenTab(t) ==
  \/ t \in TabIds /\ tabs[t].at = "unused"
     /\ tabs' = [tabs EXCEPT ![t].at = "blank"]
  \/ t = NoTab /\ UNCHANGED tabs

Starting(v, s, t) == [at |-> "sent", s |-> s, before |-> signInState(v), tab |-> t, url |-> NoUrl]

\* connect from a card; without a tab it only reports the blocked pop-up.
Connect(s, t) ==
  /\ "connect" \in cardControls(s)
  /\ Click
  /\ OpenTab(t)
  /\ connects' = connects \cup (IF t = NoTab THEN {} ELSE {Starting(shown[s], s, t)})
  /\ UNCHANGED <<host, shown, reads, wait, write, confirming, dlg, test, result>>

\* startMcpAuthorization: the stored server must use OAuth, and the
\* authorization server may refuse.
Started(c) ==
  /\ c.at = "sent"
  /\ \/ host[c.s].auth = "oauth"
        /\ connects' = (connects \ {c}) \cup {[c EXCEPT !.at = "url", !.url = host[c.s].url]} /\ UNCHANGED counters
     \/ host[c.s].auth # "oauth"
        /\ connects' = (connects \ {c}) \cup {[c EXCEPT !.at = "failed"]} /\ UNCHANGED counters
     \/ connects' = (connects \ {c}) \cup {[c EXCEPT !.at = "failed"]} /\ Lose
  /\ UNCHANGED <<host, shown, reads, wait, tabs, write, confirming, dlg, test, result>>

moveTab(t, at, s, url) ==
  [tabs EXCEPT ![t] = IF @.at = "closed" THEN @ ELSE [at |-> at, s |-> s, url |-> url]]

\* The tab is pointed at the sign-in and waited for, or closed.
ConnectAnswered(c) ==
  /\ c.at \in {"url", "failed"}
  /\ connects' = connects \ {c}
  /\ IF c.at = "url"
     THEN /\ tabs' = moveTab(c.tab, "signin", c.s, c.url)
          /\ wait' = [s |-> c.s, before |-> c.before, tab |-> c.tab, overdue |-> FALSE]
     ELSE tabs' = moveTab(c.tab, "closed", NoCard, NoUrl) /\ UNCHANGED wait
  /\ UNCHANGED <<host, shown, reads, write, confirming, dlg, test, result, counters>>

\* The operator finishes the sign-in in its tab (the control plane saves it
\* and remounts, unless the server changed meanwhile), or closes the tab.
TabMoves(t) ==
  /\ tabs[t].at \in {"blank", "signin", "done"}
  /\ \/ /\ tabs[t].at = "signin"
        /\ tabs' = moveTab(t, "done", NoCard, NoUrl)
        /\ host' = IF host[tabs[t].s].auth # "oauth" \/ host[tabs[t].s].url # tabs[t].url THEN host
                   ELSE [host EXCEPT ![tabs[t].s].signed = "valid",
                                     ![tabs[t].s].up = IF host[tabs[t].s].on THEN "starting" ELSE "none"]
     \/ tabs' = moveTab(t, "closed", NoCard, NoUrl) /\ UNCHANGED host
  /\ UNCHANGED <<shown, reads, wait, connects, write, confirming, dlg, test, result, counters>>

\* Ten minutes since the tab was pointed at the sign-in.
WaitOverdue ==
  /\ wait # NoWait /\ ~wait.overdue
  /\ wait' = [wait EXCEPT !.overdue = TRUE]
  /\ UNCHANGED <<host, shown, reads, tabs, connects, write, confirming, dlg, test, result, counters>>

-----------------------------------------------------------------------------
(* Writing: run, one at a time. *)

Send(op, s, entry, t, asks) ==
  write' = [at |-> "sent", op |-> op, s |-> s, entry |-> entry, tab |-> t, opens |-> asks,
            ans |-> <<>>]

\* The card's switch, Retry, and the confirmed Delete.
CardWrites(s) ==
  /\ Click
  /\ \/ "toggle" \in cardControls(s)
        /\ Send("set", s, [shown[s] EXCEPT !.on = ~@, !.token = FALSE], NoTab, FALSE)
     \/ "retry" \in cardControls(s) /\ Send("retry", s, NoServerYet, NoTab, FALSE)
     \/ "confirm" \in cardControls(s) /\ Send("delete", s, NoServerYet, NoTab, FALSE)
  /\ UNCHANGED <<host, shown, reads, wait, tabs, connects, confirming, dlg, test, result>>

Confirm(s) ==
  /\ Click
  /\ \/ "delete" \in cardControls(s) /\ confirming' = s
     \/ "cancel" \in cardControls(s) /\ confirming' = NoCard
  /\ UNCHANGED <<host, shown, reads, wait, tabs, connects, write, dlg, test, result>>

\* save: an enabled OAuth server without a valid sign-in for this URL opens
\* its tab inside the click.
Save(t) ==
  LET v == shown[dlg.s]
      needsSignIn == dlg.auth = "oauth" /\ dlg.on
                       /\ (v.auth # "oauth" \/ v.signed # "valid" \/ v.url # dlg.url)
  IN /\ "save" \in dialogControls
     /\ Click
     /\ IF needsSignIn THEN OpenTab(t) ELSE t = NoTab /\ UNCHANGED tabs
     /\ Send("set", dlg.s, draft, t, needsSignIn)
     /\ UNCHANGED <<host, shown, reads, wait, connects, confirming, dlg, test, result>>

canMount(h) == h.on /\ h.auth # "absent" /\ (h.auth = "oauth" => h.signed = "valid")

\* What the host stores: a token that is not typed stays, the sign-in goes
\* with its URL, a mount with what it was made from.
stored(old, e) ==
  LET kept == e.auth = "oauth" /\ old.auth = "oauth" /\ old.url = e.url
      new == [auth |-> e.auth, on |-> e.on, url |-> e.url,
              token |-> e.auth = "bearer" /\ (e.token \/ (old.auth = "bearer" /\ old.token)),
              signed |-> IF kept THEN old.signed ELSE "none", up |-> old.up]
      same == old.up # "none" /\ old.url = e.url /\ old.auth = e.auth /\ ~e.token
  IN [new EXCEPT !.up = IF ~canMount(new) THEN "none" ELSE IF same THEN @ ELSE "starting"]

written(w) ==
  CASE w.op = "set" -> stored(host[w.s], w.entry)
    [] w.op = "delete" -> NoServerYet
    [] w.op = "retry" -> [host[w.s] EXCEPT !.up = IF canMount(host[w.s]) THEN "starting" ELSE "none"]

\* setMcpServer, deleteMcpServer and retryMcpServer on the host, which
\* answers with the list once its mounts are reconciled.
Written ==
  /\ write.at = "sent"
  /\ \/ /\ host' = [host EXCEPT ![write.s] = written(write)]
        /\ write' = [write EXCEPT !.at = "served", !.ans = views(host')]
        /\ UNCHANGED counters
     \/ Lose /\ write' = [write EXCEPT !.at = "failed"] /\ UNCHANGED host
  /\ UNCHANGED <<shown, reads, wait, tabs, connects, confirming, dlg, test, result>>

\* mutant: a failed save leaves its tab.
WriteFailedTabStays ==
  /\ write.at = "failed"
  /\ write' = NoWrite
  /\ UNCHANGED <<host, shown, reads, wait, tabs, connects, confirming, dlg, test, result, counters>>

\* The failure shows under the list or in the dialog, which stays open.
WriteFailed ==
  /\ write.at = "failed"
  /\ write' = NoWrite
  /\ tabs' = IF write.tab = NoTab THEN tabs ELSE moveTab(write.tab, "closed", NoCard, NoUrl)
  /\ UNCHANGED <<host, shown, reads, wait, connects, confirming, dlg, test, result, counters>>

\* A saved server that needs a sign-in starts it in the tab opened for it;
\* without that need the tab closes.
WriteAnswered ==
  LET starts == write.opens /\ write.ans[write.s].status = "needs-auth"
  IN /\ write.at = "served"
     /\ write' = NoWrite
     /\ shown' = write.ans
     /\ IF starts /\ write.tab # NoTab
        THEN connects' = connects \cup {Starting(write.ans[write.s], write.s, write.tab)}
             /\ UNCHANGED tabs
        ELSE tabs' = (IF write.tab = NoTab THEN tabs ELSE moveTab(write.tab, "closed", NoCard, NoUrl))
             /\ UNCHANGED connects
     /\ dlg' = NoDialog
     /\ result' = IF dlg.open THEN NoEntry ELSE result
     /\ confirming' = IF write.op = "delete" THEN NoCard ELSE confirming
     /\ UNCHANGED <<host, reads, wait, test, counters>>

-----------------------------------------------------------------------------
(* The dialog. *)

\* Add server, or a card's Edit: the fields are those of the card clicked.
OpenDialog ==
  /\ Click
  /\ \/ /\ shown # <<>> /\ ~dlg.open /\ ~pending
        /\ dlg' = [NoDialog EXCEPT !.open = TRUE]
     \/ \E s \in Cards :
          /\ "edit" \in cardControls(s)
          /\ dlg' = [open |-> TRUE, edit |-> TRUE, on |-> shown[s].on,
                     keeps |-> shown[s].auth = "bearer" /\ shown[s].token,
                     s |-> s, url |-> shown[s].url, auth |-> shown[s].auth, token |-> FALSE]
  /\ confirming' = NoCard
  /\ result' = NoEntry
  /\ UNCHANGED <<host, shown, reads, wait, tabs, connects, write, test>>

Fields ==
  /\ "field" \in dialogControls
  /\ changes < MaxChanges /\ changes' = changes + 1
  /\ \/ ~dlg.edit /\ \E s \in Cards : s # dlg.s /\ dlg' = [dlg EXCEPT !.s = s]
     \/ \E u \in PageUrls : u # dlg.url /\ dlg' = [dlg EXCEPT !.url = u]
     \/ \E a \in {"none", "bearer", "oauth"} : a # dlg.auth /\ dlg' = [dlg EXCEPT !.auth = a]
     \/ dlg.auth = "bearer" /\ dlg' = [dlg EXCEPT !.token = ~@]
  /\ UNCHANGED <<host, shown, reads, wait, tabs, connects, write, confirming, test, clicks, losses>>

\* Any edit makes an earlier test result stale.
Change == Fields /\ result' = NoEntry

CancelDialog ==
  /\ "cancel" \in dialogControls
  /\ dlg' = NoDialog
  /\ result' = NoEntry
  /\ UNCHANGED <<host, shown, reads, wait, tabs, connects, write, confirming, test, counters>>

Test ==
  /\ "test" \in dialogControls
  /\ Click
  /\ test' = [at |-> "sent", entry |-> tested]
  /\ result' = NoEntry
  /\ UNCHANGED <<host, shown, reads, wait, tabs, connects, write, confirming, dlg>>

\* testConnection: a probe of its own, disposed before the answer, whether
\* the handshake ends, fails or times out; the call itself may fail.
TestAnswered ==
  /\ test.at = "sent"
  /\ test' = NoTest
  /\ \/ result' = test.entry /\ UNCHANGED counters
     \/ Lose /\ UNCHANGED result
  /\ UNCHANGED <<host, shown, reads, wait, tabs, connects, write, confirming, dlg>>

-----------------------------------------------------------------------------
(* The host on its own: a mount settles, loses its tools, a sign-in expires. *)

Settles(s) ==
  /\ host[s].up = "starting"
  /\ \E st \in {"connected", "error"} : host' = [host EXCEPT ![s].up = st]
  /\ UNCHANGED <<shown, reads, wait, tabs, connects, write, confirming, dlg, test, result, counters>>

Worsens(s) ==
  /\ Lose
  /\ \/ host[s].up = "connected" /\ host' = [host EXCEPT ![s].up = "error"]
     \/ host[s].signed = "valid" /\ host' = [host EXCEPT ![s].signed = "expired", ![s].up = "none"]
  /\ UNCHANGED <<shown, reads, wait, tabs, connects, write, confirming, dlg, test, result>>

-----------------------------------------------------------------------------

\* The page opens on OAuth servers, signed in or not, and reads the list.
PageInit ==
  /\ \E g \in {"none", "valid"} :
       host = [s \in Cards |->
                 IF s \notin Stored THEN NoServerYet
                 ELSE [NoServerYet EXCEPT !.auth = "oauth", !.on = TRUE, !.signed = g,
                                          !.url = CHOOSE u \in PageUrls : TRUE,
                                          !.up = IF g = "valid" THEN "starting" ELSE "none"]]
  /\ shown = <<>>
  /\ reads = {[at |-> "sent", w |-> NoWait, closed |-> FALSE, ans |-> <<>>]}
  /\ wait = NoWait
  /\ tabs = [t \in TabIds |-> [at |-> "unused", s |-> NoCard, url |-> NoUrl]]
  /\ connects = {}
  /\ write = NoWrite
  /\ confirming = NoCard
  /\ dlg = NoDialog
  /\ test = NoTest
  /\ result = NoEntry
  /\ clicks = 0 /\ changes = 0 /\ losses = 0

Operates ==
  \/ \E s \in Cards : CardWrites(s) \/ Confirm(s)
  \/ \E s \in Cards, t \in TabIds \cup {NoTab} : Connect(s, t)
  \/ \E t \in TabIds \cup {NoTab} : Save(t)
  \/ OpenDialog
  \/ Change
  \/ CancelDialog
  \/ Test
  \/ \E t \in TabIds : TabMoves(t)

Answers ==
  \/ \E c \in reads : Listed(c) \/ ListAnswered(c)
  \/ \E c \in connects : Started(c) \/ ConnectAnswered(c)
  \/ Written
  \/ WriteFailed
  \/ WriteAnswered
  \/ TestAnswered

PageNext ==
  \/ Operates
  \/ Answers
  \/ PollStarting
  \/ PollSignIn
  \/ WaitOverdue
  \/ \E s \in Cards : Settles(s) \/ Worsens(s)

PageSpec == PageInit /\ [][PageNext]_pageVars

\* Timers fire, ten minutes pass, calls are answered, mounts settle.
PageFairness ==
  /\ WF_pageVars(PollStarting)
  /\ WF_pageVars(PollSignIn)
  /\ WF_pageVars(WaitOverdue)
  /\ WF_pageVars(Answers)
  /\ \A s \in Cards : WF_pageVars(Settles(s))

PageFairSpec == PageSpec /\ PageFairness

-----------------------------------------------------------------------------

\* The result of a connection test stands beside the fields it was made
\* with: neither an edit nor another dialog comes between.
TestHonest == result # NoEntry => dlg.open /\ result = tested

\* A blank tab is never left behind: until it shows a sign-in or is closed,
\* a save or a sign-in start in flight is going to do one of the two.
NoBlankTab ==
  \A t \in TabIds : tabs[t].at = "blank" =>
    \/ pending /\ write.tab = t
    \/ \E c \in connects : c.tab = t

\* The page does not poll for ever, whatever the host answers and in whichever
\* order: a wait for a sign-in ends, and a card that says it is connecting is
\* re-read until the mount has settled.
WaitEnds ==
  /\ \A t \in TabIds : wait.tab = t ~> wait.tab # t
  /\ \A s \in Cards : (shown # <<>> /\ shown[s].status = "starting")
                          ~> (shown # <<>> /\ shown[s].status # "starting")
=============================================================================
