------------------------------- MODULE SignIn -------------------------------
(***************************************************************************)
(* Sign-in in front of dsh's browser authentication: the gate on the index *)
(* page, logout and the way back from a link on another site               *)
(* (auth-core.ts), and the two sign-in rows, passcode-auth.ts and          *)
(* oidc-auth.ts, of which a deployment mounts one.                         *)
(*                                                                         *)
(* The tabs share the one cookie jar of a browser.  A tab shows a page or  *)
(* has a request under way; every request is a top-level GET, but for the  *)
(* passcode form.  Time is a counter: a window of the code is a number of  *)
(* ticks.  dsh and the identity provider are external.                     *)
(***************************************************************************)
EXTENDS Naturals, Sequences, FiniteSets

CONSTANTS Tabs, Peers,        \* tabs; addresses that fill in the form
          MAX_PENDING_STATES, \* logins that may be pending at an identity provider
          STATE_TTL,          \* ticks a pending login lives
          MAX_ATTEMPTS, MAX_TRACKED_PEERS, ATTEMPT_WINDOW,
          MaxOpens,           \* bound: pages the user opens and forms sent
          MaxNow              \* bound: ticks

ASSUME SignAssumption ==
  /\ MAX_PENDING_STATES \in Nat \ {0} /\ MAX_TRACKED_PEERS \in Nat \ {0}
  /\ STATE_TTL \in Nat /\ ATTEMPT_WINDOW \in Nat

VARIABLES
  mode,     \* "passcode" or "oidc"
  valid,    \* the OIDC settings could be resolved
  cookie,   \* the browser holds dsh's cookie
  tab,      \* what each tab shows or asks for
  discovery,\* the cached promise: "none", "running", "ready"
  pending,  \* PendingLogins.entries; states are numbered in the order they are made
  issued,   \* states made so far
  grants,   \* ghost: when each state was made, and the exchanges run for it
  peers,    \* Attempts.peers, each with the number of the form that entered it
  now, opens

signVars == <<mode, valid, cookie, tab, discovery, pending, issued, grants, peers, now, opens>>

Page(p) == [at |-> "page", path |-> p, cross |-> FALSE, trusted |-> TRUE, token |-> FALSE, state |-> 0]
AskFor(p) == [Page(p) EXCEPT !.at = "asked"]
Settled(t) == tab[t].at = "page"
asks(t, p) == tab[t].at = "asked" /\ tab[t].path = p

Show(t, p) == tab' = [tab EXCEPT ![t] = Page(p)]

\* A redirect keeps the site the navigation came from.
redirect(t, p) ==
  tab' = [tab EXCEPT ![t] = [AskFor(p) EXCEPT !.cross = tab[t].cross, !.trusted = tab[t].trusted]]

\* dsh's requestRejection: the fence on Host and site, then the cookie, which
\* is SameSite=Strict.
untrusted(t) == ~tab[t].trusted \/ tab[t].cross
loggedIn(t) == ~untrusted(t) /\ cookie

\* reopenCrossSiteNavigation: a page of this site that opens the same address.
reopens(t) == tab[t].cross /\ tab[t].trusted

\* mintDshCookie: dsh's own launch exchange answers with the cookie.
mintDshCookie == cookie' = TRUE

\* mutant: a redirect instead of a page.
ReopenRedirects(t) == redirect(t, tab[t].path)

Reopen(t) == tab' = [tab EXCEPT ![t].cross = FALSE]

-----------------------------------------------------------------------------
(* The user. *)

\* A page is opened, by hand or by a link of another site; a callback may be
\* opened again, from the history.
OpenPage(t, p, cross, trusted, token, s) ==
  /\ Settled(t) /\ opens < MaxOpens
  /\ token => p = "index"
  /\ IF p = "callback" THEN s \in 1 .. issued /\ mode = "oidc" ELSE s = 0
  /\ opens' = opens + 1
  /\ tab' = [tab EXCEPT ![t] = [AskFor(p) EXCEPT !.cross = cross, !.trusted = trusted,
                                              !.token = token, !.state = s]]
  /\ UNCHANGED <<mode, valid, cookie, discovery, pending, issued, grants, peers, now>>

\* The cookie runs out.
CookieExpires ==
  /\ cookie /\ opens < MaxOpens
  /\ opens' = opens + 1
  /\ cookie' = FALSE
  /\ UNCHANGED <<mode, valid, tab, discovery, pending, issued, grants, peers, now>>

Tock ==
  /\ now < MaxNow
  /\ now' = now + 1
  /\ UNCHANGED <<mode, valid, cookie, tab, discovery, pending, issued, grants, peers, opens>>

-----------------------------------------------------------------------------
(* The gate and logout. *)

\* installIndexGate: a launch token is refused, a cookie lets in, anyone else
\* is sent to sign in, from this site.
IndexGate(t) ==
  /\ asks(t, "index")
  /\ IF tab[t].token THEN redirect(t, "login")
     ELSE IF ~tab[t].trusted THEN Show(t, "forbidden")
     ELSE IF loggedIn(t) THEN Show(t, "app")
     ELSE IF reopens(t) THEN Reopen(t)
     ELSE redirect(t, "login")
  /\ UNCHANGED <<mode, valid, cookie, discovery, pending, issued, grants, peers, now, opens>>

\* The cookie is minted once more to learn its name, and expired.
Logout(t) ==
  /\ asks(t, "logout")
  /\ IF untrusted(t) THEN Show(t, "forbidden") ELSE redirect(t, "login")
  /\ cookie' = (cookie /\ ~loggedIn(t))
  /\ UNCHANGED <<mode, valid, discovery, pending, issued, grants, peers, now, opens>>

\* handleLogin of both rows, up to where they part.
Login(t) ==
  /\ asks(t, "login")
  /\ IF reopens(t) THEN Reopen(t)
     ELSE IF untrusted(t) THEN Show(t, "forbidden")
     ELSE IF loggedIn(t) THEN redirect(t, "index")
     ELSE IF mode = "passcode" THEN Show(t, "form")
     ELSE IF ~valid THEN Show(t, "unavailable")
     ELSE tab' = [tab EXCEPT ![t].at = "discovering"]
  /\ discovery' = IF tab'[t].at = "discovering" /\ discovery = "none" THEN "running" ELSE discovery
  /\ UNCHANGED <<mode, valid, cookie, pending, issued, grants, peers, now, opens>>

-----------------------------------------------------------------------------
(* The passcode row. *)

\* Attempts.prune: at the limit, expired budgets go, and the oldest if none did.
prunedPeers ==
  LET live == {e \in peers : e.resetAt > now}
      oldest == CHOOSE e \in live : \A f \in live : e.since <= f.since
  IN  IF Cardinality(peers) < MAX_TRACKED_PEERS THEN peers
      ELSE IF Cardinality(live) < MAX_TRACKED_PEERS THEN live ELSE live \ {oldest}

\* Attempts.fail: the peer's budget, a new one when its window is over.
failed(p) ==
  LET kept == prunedPeers
      mine == {e \in kept : e.peer = p}
      previous == CHOOSE e \in mine : TRUE
      entry == IF mine # {} /\ previous.resetAt > now
               THEN [previous EXCEPT !.count = @ + 1]
               ELSE [peer |-> p, count |-> 1, resetAt |-> now + ATTEMPT_WINDOW,
                     since |-> IF mine = {} THEN opens ELSE previous.since]
  IN  (kept \ mine) \cup {entry}

\* The form: whoever is signed in meanwhile goes to the app; a right passcode
\* clears the peer's budget and mints the cookie, unless dsh refuses to.
SubmitForm(t, p, right, minted) ==
  /\ tab[t] = Page("form") /\ opens < MaxOpens
  /\ opens' = opens + 1
  /\ IF cookie THEN redirect(t, "index") /\ UNCHANGED <<peers, cookie>>
     ELSE IF right
     THEN /\ peers' = {e \in peers : e.peer # p}
          /\ IF minted THEN mintDshCookie /\ redirect(t, "index")
             ELSE UNCHANGED cookie /\ Show(t, "failed")
     ELSE /\ peers' = failed(p)
          /\ \E e \in peers' :
               /\ e.peer = p
               /\ Show(t, IF e.count >= MAX_ATTEMPTS THEN "tooMany" ELSE "form")
          /\ UNCHANGED cookie
  /\ UNCHANGED <<mode, valid, discovery, pending, issued, grants, now>>

-----------------------------------------------------------------------------
(* The OIDC row. *)

\* PendingLogins.remember: prune, then the oldest makes room.
remembered(s) ==
  LET live == {e \in pending : now - e.createdAt <= STATE_TTL}
      oldest == CHOOSE e \in live : \A f \in live : e.state <= f.state
  IN  (IF Cardinality(live) >= MAX_PENDING_STATES THEN live \ {oldest} ELSE live)
        \cup {[state |-> s, createdAt |-> now]}

\* configurationFor: one discovery for all; a failed one is forgotten, and
\* whoever waited for it is told.
Discovered(ok) ==
  /\ discovery = "running"
  /\ discovery' = IF ok THEN "ready" ELSE "none"
  /\ tab' = [t \in Tabs |-> IF ok THEN tab[t]
                            ELSE IF tab[t].at = "discovering" THEN Page("unavailable")
                            ELSE IF tab[t].at = "granting" THEN Page("failed") ELSE tab[t]]
  /\ UNCHANGED <<mode, valid, cookie, pending, issued, grants, peers, now, opens>>

\* The login goes on: a state is remembered, the browser goes to the provider.
ToProvider(t) ==
  /\ tab[t].at = "discovering" /\ discovery = "ready"
  /\ issued' = issued + 1
  /\ pending' = remembered(issued')
  /\ grants' = Append(grants, [born |-> now, runs |-> 0])
  /\ tab' = [tab EXCEPT ![t] = [Page("provider") EXCEPT !.state = issued']]
  /\ UNCHANGED <<mode, valid, cookie, discovery, peers, now, opens>>

\* The provider, on this site or on another, sends the browser back.
ProviderReturns(t, cross) ==
  /\ Settled(t) /\ tab[t].path = "provider"
  /\ tab' = [tab EXCEPT ![t] = [AskFor("callback") EXCEPT !.cross = cross, !.state = tab[t].state]]
  /\ UNCHANGED <<mode, valid, cookie, discovery, pending, issued, grants, peers, now, opens>>

\* PendingLogins.take.
taken(s) == {e \in pending : e.state # s}
redeemable(s) == \E e \in pending : e.state = s /\ now - e.createdAt <= STATE_TTL

\* mutant: the state is only looked up.
CallbackKeeps(t) ==
  /\ asks(t, "callback") /\ ~untrusted(t) /\ redeemable(tab[t].state)
  /\ tab' = [tab EXCEPT ![t].at = "granting"]
  /\ discovery' = IF discovery = "none" THEN "running" ELSE discovery
  /\ grants' = [grants EXCEPT ![tab[t].state].runs = @ + 1]
  /\ UNCHANGED <<mode, valid, cookie, pending, issued, peers, now, opens>>

\* handleCallback, up to its await: only the request from this site runs it.
Callback(t) ==
  /\ asks(t, "callback")
  /\ LET s == tab[t].state
         run == ~untrusted(t) /\ redeemable(s)
     IN  /\ IF reopens(t) THEN Reopen(t)
            ELSE IF untrusted(t) THEN Show(t, "forbidden")
            ELSE IF run THEN tab' = [tab EXCEPT ![t].at = "granting"]
            ELSE Show(t, "expired")
         /\ pending' = IF untrusted(t) THEN pending ELSE taken(s)
         /\ discovery' = IF run /\ discovery = "none" THEN "running" ELSE discovery
         /\ grants' = IF run THEN [grants EXCEPT ![s].runs = @ + 1] ELSE grants
  /\ UNCHANGED <<mode, valid, cookie, issued, peers, now, opens>>

\* emailAllowed answers for the claims.
grantOutcomes == {"allowed", "notAllowed", "failed"}

\* authorizationCodeGrant: the claims are allowed, refused, or it throws.
Granted(t, outcome) ==
  /\ tab[t].at = "granting" /\ discovery = "ready"
  /\ IF outcome = "allowed" THEN mintDshCookie /\ redirect(t, "index")
     ELSE UNCHANGED cookie /\ Show(t, outcome)
  /\ UNCHANGED <<mode, valid, discovery, pending, issued, grants, peers, now, opens>>

-----------------------------------------------------------------------------

SignInit ==
  /\ mode \in {"passcode", "oidc"} /\ valid \in BOOLEAN /\ (mode = "passcode" => valid)
  /\ cookie \in BOOLEAN /\ tab = [t \in Tabs |-> Page("blank")]
  /\ discovery = "none" /\ pending = {} /\ issued = 0 /\ grants = <<>>
  /\ peers = {} /\ now = 0 /\ opens = 0

Answer(t) ==
  \/ IndexGate(t) \/ Logout(t) \/ Login(t) \/ Callback(t) \/ ToProvider(t)
  \/ \E outcome \in grantOutcomes : Granted(t, outcome)

SignNext ==
  \/ \E t \in Tabs : Answer(t)
  \/ \E t \in Tabs, p \in {"index", "login", "logout", "callback"}, s \in 0 .. issued,
        cross, trusted, token \in BOOLEAN : OpenPage(t, p, cross, trusted, token, s)
  \/ \E t \in Tabs, p \in Peers, right, minted \in BOOLEAN : SubmitForm(t, p, right, minted)
  \/ \E t \in Tabs, cross \in BOOLEAN : ProviderReturns(t, cross)
  \/ \E ok \in BOOLEAN : Discovered(ok)
  \/ CookieExpires \/ Tock

\* The host answers every request; discovery and the grant end, one way or
\* another.
SignFairness ==
  /\ \A t \in Tabs : WF_signVars(Answer(t))
  /\ WF_signVars(\E ok \in BOOLEAN : Discovered(ok))

SignSpec == SignInit /\ [][SignNext]_signVars /\ SignFairness

-----------------------------------------------------------------------------

\* A navigation comes to rest: whatever link the browser follows, signed in or
\* not, the gate, the login row and the way back from another site never send
\* it in circles or leave it waiting.
NavigationEnds == \A t \in Tabs : ~Settled(t) ~> Settled(t)

\* A callback that is opened twice, from two tabs or from the history, runs
\* one exchange; a login is forgotten only when it is used, too old, or pushed
\* out by as many younger ones as the table holds; neither table grows past
\* its bound.
LoginsKept ==
  /\ \A s \in 1 .. issued :
       /\ grants[s].runs <= 1
       /\ Cardinality({e \in pending : e.state = s}) <= 1
       /\ s > issued - MAX_PENDING_STATES /\ grants[s].runs = 0 /\ now - grants[s].born <= STATE_TTL
          => redeemable(s)
  /\ Cardinality(pending) <= MAX_PENDING_STATES /\ Cardinality(peers) <= MAX_TRACKED_PEERS
=============================================================================
