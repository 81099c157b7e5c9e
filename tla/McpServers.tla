------------------------------ MODULE McpServers ------------------------------
(***************************************************************************)
(* The remote MCP servers of the host, seen for one server: its entry in   *)
(* memory and in the file (mcp-store.ts), the OAuth sign-in and the        *)
(* renewals of its access token (mcp-oauth.ts), and the live client mounts *)
(* (mcp-pool.ts), as sandbox-manager.ts wires them.                        *)
(*                                                                         *)
(* An action is the code between two awaits.  Access and refresh tokens    *)
(* are numbers in the order they were issued or typed; what the clock does *)
(* to a token is age: fresh, due for renewal, expired.  A grant is the     *)
(* number of the sign-in a token descends from.  Writes of the file        *)
(* succeed: a failed one rejects every later one, as in the session store. *)
(***************************************************************************)
EXTENDS Naturals, Sequences, FiniteSets, SequencesExt

CONSTANTS Urls,       \* addresses the operator may enter
          MaxTokens,  \* bound: tokens issued or typed
          MaxEvents,   \* bound: operator calls that change or remount the server
          Fibers      \* identities of client fibers; a disposed one is reused

ASSUME McpConstants ==
  /\ MaxTokens \in Nat \ {0}
  /\ MaxEvents \in Nat

VARIABLES mem,      \* McpServerStore.state, the one entry
          disk,     \* the file
          writes,   \* writeChain: snapshots not yet renamed into place
          reader,   \* store.refresh in flight, per task that calls it
          chain,    \* McpPool.chain: jobs, the head in progress
          pool,     \* where the job in progress stands
          mount,    \* McpPool.mounts, the live mount of the server
          fiber,    \* state of every client fiber
          renewal,  \* McpOAuth.renewing and the tick that awaits it
          signIn,   \* the sign-in between start and saveOAuth
          backoff,  \* McpOAuth.failures: a failed renewal waits for its retryAt
          age,      \* what the clock has done to each token
          issued,   \* tokens handed out so far
          events,    \* operator calls, sign-ins and expiries so far
          owed      \* ghost: the sign-in the operator completed last, 0 for none

mcpVars == <<mem, disk, writes, reader, chain, pool, mount, fiber, renewal,
             signIn, backoff, age, issued, events, owed>>

store == <<mem, disk, writes>>
clients == <<mount, fiber>>
oauth == <<renewal, signIn, backoff>>
world == <<age, issued, events>>

Tokens == 0 .. MaxTokens
Tasks == {"pool", "renew", "sign"}

\* A stored server.  acc is the bearer or access token, ref the refresh token.
Servers == [auth : {"absent", "none", "bearer", "oauth"}, on : BOOLEAN, url : Urls,
            acc : Tokens, ref : Tokens, grant : Tokens]

NoServer == [auth |-> "absent", on |-> FALSE, url |-> CHOOSE u \in Urls : TRUE,
             acc |-> 0, ref |-> 0, grant |-> 0]

NotReading == [need |-> 0, seen |-> {}]
NoMount == [live |-> FALSE, fibers |-> {}, url |-> NoServer.url, tok |-> 0]
NoTokens == [acc |-> 0, ref |-> 0, grant |-> 0]
NoRenewal == [at |-> "idle", saved |-> NoTokens, new |-> NoTokens, ok |-> TRUE]
NoSignIn == [at |-> "idle", url |-> NoServer.url, acc |-> 0, ref |-> 0]
Idle == [at |-> "idle", want |-> NoServer]

-----------------------------------------------------------------------------
(* The store. *)

\* The entry without its secrets, and the secrets alone.
publicEntry(s) == [s EXCEPT !.acc = 0, !.ref = 0, !.grant = 0]
oauthFor(s) == [acc |-> s.acc, ref |-> s.ref, grant |-> s.grant]

\* A token that is not expired, 0 for none.
tokenFor(s) ==
  IF s.auth = "bearer" \/ (s.auth = "oauth" /\ age[s.acc] # "expired") THEN s.acc ELSE 0

\* An entry is mounted when enabled, an OAuth one only with a token in cur,
\* the store's entry at that moment.
mountable(s, cur) == s.on /\ s.auth # "absent" /\ (s.auth = "oauth" => tokenFor(cur) # 0)

\* The entry an upsert stores: an omitted token keeps the saved one, secrets
\* of another mode go, and a sign-in goes with the URL it authorizes.
upserted(auth, on, url, typed) ==
  LET signed == auth = "oauth" /\ mem.auth = "oauth" /\ mem.url = url
  IN [auth |-> auth, on |-> on, url |-> url,
      acc |-> CASE auth = "bearer" /\ typed -> issued + 1
                [] auth = "bearer" /\ ~typed /\ mem.auth = "bearer" -> mem.acc
                [] signed -> mem.acc
                [] OTHER -> 0,
      ref |-> IF signed THEN mem.ref ELSE 0,
      grant |-> IF signed THEN mem.grant ELSE 0]

\* replace and persist: memory at once, the file when the snapshot's turn
\* comes; then names what the awaiting caller does afterwards.
put(s, then) == mem' = s /\ writes' = Append(writes, [s |-> s, then |-> then])

\* refresh awaits the writes queued when it is called, then reads the file;
\* seen collects what the file holds from that moment on.
BeginRead(t) ==
  reader' = [reader EXCEPT ![t] = [need |-> Len(writes),
                                   seen |-> IF writes = <<>> THEN {disk} ELSE {}]]

\* The read of task t answers s, which memory takes over whatever happened
\* to it meanwhile.
ReadEnds(t, s) == s \in reader[t].seen

landed(r, s) ==
  CASE r.need > 1 -> [r EXCEPT !.need = @ - 1]
    [] r.need = 1 -> [need |-> 0, seen |-> {s}]
    [] OTHER -> IF r.seen = {} THEN r ELSE [r EXCEPT !.seen = @ \cup {s}]

\* A sync that waits behind the running job already covers another one.
enqueue(job) == IF Len(chain) > 1 /\ Last(chain) = job THEN chain ELSE Append(chain, job)

EndRenewal(ok) ==
  /\ renewal' = NoRenewal
  /\ backoff' = ~ok
  /\ chain' = enqueue("sync")

WriteLands ==
  /\ writes # <<>>
  /\ disk' = Head(writes).s
  /\ writes' = Tail(writes)
  /\ reader' = [t \in Tasks |-> landed(reader[t], Head(writes).s)]
  /\ \/ /\ Head(writes).then = "sync"
        /\ chain' = enqueue("sync")
        /\ UNCHANGED oauth
     \/ /\ Head(writes).then = "signed"
        /\ signIn' = NoSignIn
        /\ chain' = enqueue("sync")
        /\ UNCHANGED <<renewal, backoff>>
     \/ /\ Head(writes).then = "renewed"
        /\ EndRenewal(renewal.ok)
        /\ UNCHANGED signIn
  /\ UNCHANGED <<mem, pool, mount, fiber, age, issued, events, owed>>

-----------------------------------------------------------------------------
(* Operator calls. *)

setMcpServer(auth, on, url, typed) ==
  LET s == upserted(auth, on, url, typed)
  IN /\ events < MaxEvents
     /\ events' = events + 1
     /\ typed => auth = "bearer" /\ issued < MaxTokens
     /\ issued' = IF typed THEN issued + 1 ELSE issued
     /\ put(s, "sync")
     /\ owed' = IF s.grant = owed THEN owed ELSE 0
     /\ UNCHANGED <<disk, reader, chain, pool, mount, fiber, oauth, age>>

deleteMcpServer ==
  /\ events < MaxEvents
  /\ events' = events + 1
  /\ IF mem.auth = "absent"
     THEN chain' = enqueue("sync") /\ UNCHANGED <<mem, writes>>
     ELSE put(NoServer, "sync") /\ UNCHANGED chain
  /\ owed' = 0
  /\ UNCHANGED <<disk, reader, pool, mount, fiber, oauth, age, issued>>

retryMcpServer ==
  /\ events < MaxEvents
  /\ events' = events + 1
  /\ chain' = enqueue("retry")
  /\ UNCHANGED <<store, reader, pool, mount, fiber, oauth, age, issued, owed>>

listMcpServers ==
  /\ events < MaxEvents
  /\ events' = events + 1
  /\ chain' = enqueue("sync")
  /\ UNCHANGED <<store, reader, pool, mount, fiber, oauth, age, issued, owed>>

-----------------------------------------------------------------------------
(* The pool: one job of the chain at a time. *)

FreeFibers == {f \in Fibers : fiber[f] = "none"}
NewFiber == CHOOSE f \in FreeFibers : TRUE

\* mountEntry: the client starts with the URL of the entry and the token the
\* store has now; a mount that throws is kept without a fiber.
mountEntry(s) ==
  \/ /\ FreeFibers # {}
     /\ fiber' = [fiber EXCEPT ![NewFiber] = "starting"]
     /\ mount' = [live |-> TRUE, fibers |-> {NewFiber}, url |-> s.url, tok |-> tokenFor(mem')]
  \/ /\ UNCHANGED fiber
     /\ mount' = [live |-> TRUE, fibers |-> {}, url |-> s.url, tok |-> tokenFor(mem')]

\* unmount retires the mount and forgets it before it awaits the disposals.
unmount ==
  /\ mount' = NoMount
  /\ fiber' = [f \in Fibers |->
                 CASE f \in mount.fibers /\ fiber[f] = "starting" -> "closing-unsettled"
                   [] f \in mount.fibers /\ fiber[f] # "starting" -> "closing"
                   [] OTHER -> fiber[f]]

jobDone == pool' = Idle /\ chain' = Tail(chain)

\* sync refreshes the store first, retry unmounts at once.
PoolBegin ==
  /\ chain # <<>>
  /\ pool.at = "idle"
  /\ \/ /\ Head(chain) = "sync"
        /\ pool' = [Idle EXCEPT !.at = "read"]
        /\ BeginRead("pool")
        /\ UNCHANGED clients
     \/ /\ Head(chain) = "retry"
        /\ pool' = [Idle EXCEPT !.at = "dispose"]
        /\ unmount
        /\ UNCHANGED reader
  /\ UNCHANGED <<store, chain, oauth, world, owed>>

\* mutant: a changed token does not remount.
outdatedUrlOnly(s) == ~mountable(s, s) \/ mount.url # s.url

outdated(s) ==
  \/ ~mountable(s, s)
  \/ mount.url # s.url
  \/ mount.tok # tokenFor(s)

PoolReconcile(s) ==
  /\ pool.at = "read"
  /\ ReadEnds("pool", s)
  /\ mem' = s
  /\ \/ /\ mount.live /\ outdated(s)
        /\ unmount
        /\ pool' = [at |-> "dispose", want |-> publicEntry(s)]
        /\ UNCHANGED chain
     \/ /\ ~mount.live /\ mountable(s, s)
        /\ mountEntry(s)
        /\ jobDone
     \/ /\ IF mount.live THEN ~outdated(s) ELSE ~mountable(s, s)
        /\ UNCHANGED clients
        /\ jobDone
  /\ UNCHANGED <<disk, writes, oauth, world, owed>>

\* The disposals are over.  sync mounts the entry it read before them, retry
\* the entry as it is now; the token is the current one for both.
PoolDisposed ==
  LET s == IF Head(chain) = "sync" THEN pool.want ELSE mem
  IN /\ pool.at = "dispose"
     /\ \A f \in Fibers : fiber[f] \notin {"closing", "closing-unsettled"}
     /\ UNCHANGED mem
     /\ IF mountable(s, mem) THEN mountEntry(s) ELSE UNCHANGED clients
     /\ jobDone
     /\ UNCHANGED <<disk, writes, reader, oauth, world, owed>>

FiberConnects(f) ==
  /\ fiber[f] = "starting"
  /\ fiber' = [fiber EXCEPT ![f] = "up"]
  /\ UNCHANGED <<store, reader, chain, pool, mount, oauth, world, owed>>

\* mutant: the retired mount is not recognised.
retryAfterFailureAnyway(f, st) ==
  /\ FreeFibers # {}
  /\ fiber' = [fiber EXCEPT ![f] = st, ![NewFiber] = "up"]
  /\ mount' = IF f \in mount.fibers
              THEN [mount EXCEPT !.fibers = @ \cup {NewFiber}] ELSE mount

\* A failed first client of the live mount is followed by one that
\* reconnects by itself and settles at once; a retired mount gets none.
retryAfterFailure(f, st) ==
  \/ /\ f \in mount.fibers
     /\ FreeFibers # {}
     /\ fiber' = [fiber EXCEPT ![f] = st, ![NewFiber] = "up"]
     /\ mount' = [mount EXCEPT !.fibers = @ \cup {NewFiber}]
  \/ /\ fiber' = [fiber EXCEPT ![f] = st]
     /\ UNCHANGED mount

FiberFails(f) ==
  /\ \/ fiber[f] = "starting" /\ retryAfterFailure(f, "failed")
     \/ fiber[f] = "closing-unsettled" /\ retryAfterFailure(f, "closing")
  /\ UNCHANGED <<store, reader, chain, pool, oauth, world, owed>>

FiberDisposed(f) ==
  /\ fiber[f] \in {"closing", "closing-unsettled"}
  /\ fiber' = [fiber EXCEPT ![f] = "none"]
  /\ UNCHANGED <<store, reader, chain, pool, mount, oauth, world, owed>>

-----------------------------------------------------------------------------
(* Renewal of the access token: once a minute, one at a time. *)

\* The timer's tick, which awaits a renewal already under way.
Tick ==
  /\ renewal.at = "idle"
  /\ renewal' = [NoRenewal EXCEPT !.at = "list"]
  /\ BeginRead("renew")
  /\ UNCHANGED <<store, chain, pool, clients, signIn, backoff, world, owed>>

renewalDue(s) == s.auth = "oauth" /\ s.ref # 0 /\ age[s.acc] # "fresh"

\* renewAll: a server that is not due is forgotten as a failure, one that
\* failed waits for its retryAt.
RenewAll(s) ==
  /\ renewal.at = "list"
  /\ ReadEnds("renew", s)
  /\ mem' = s
  /\ \/ /\ ~renewalDue(s)
        /\ EndRenewal(TRUE)
     \/ /\ renewalDue(s) /\ backoff
        /\ EndRenewal(FALSE)
     \/ /\ renewalDue(s) /\ ~backoff
        /\ renewal' = [NoRenewal EXCEPT !.at = "auth", !.saved = oauthFor(s)]
        /\ UNCHANGED <<backoff, chain>>
  /\ UNCHANGED <<disk, writes, pool, clients, signIn, world, owed>>

\* The refresh grant ends: new tokens (the refresh token rotated or not), a
\* refused refresh token, a refused client, or an error.
Renew ==
  /\ renewal.at = "auth"
  /\ \/ /\ issued < MaxTokens
        /\ issued' = issued + 1
        /\ \E r \in {renewal.saved.ref, issued + 1} :
             renewal' = [renewal EXCEPT !.at = "save",
                           !.new = [renewal.saved EXCEPT !.acc = issued + 1, !.ref = r]]
        /\ BeginRead("renew")
        /\ UNCHANGED <<backoff, chain>>
     \/ /\ renewal' = [renewal EXCEPT !.at = "save", !.ok = FALSE,
                         !.new = [renewal.saved EXCEPT !.ref = 0]]
        /\ BeginRead("renew")
        /\ UNCHANGED <<backoff, chain, issued>>
     \/ /\ renewal' = [renewal EXCEPT !.at = "save", !.ok = FALSE,
                         !.new = [renewal.saved EXCEPT !.acc = 0, !.ref = 0, !.grant = 0]]
        /\ BeginRead("renew")
        /\ UNCHANGED <<backoff, chain, issued>>
     \/ /\ EndRenewal(FALSE)
        /\ UNCHANGED <<reader, issued>>
  /\ UNCHANGED <<store, pool, clients, signIn, age, events, owed>>

\* replaceOAuth: only the sign-in the refresh token belongs to is replaced.
ReplaceOAuth(s) ==
  /\ renewal.at = "save"
  /\ ReadEnds("renew", s)
  /\ IF s.auth = "oauth" /\ s.ref = renewal.saved.ref
     THEN /\ put([s EXCEPT !.acc = renewal.new.acc, !.ref = renewal.new.ref,
                           !.grant = renewal.new.grant], "renewed")
          /\ renewal' = [NoRenewal EXCEPT !.at = "write", !.ok = renewal.ok]
          /\ owed' = IF renewal.new.grant = 0 /\ owed = s.grant THEN 0 ELSE owed
          /\ UNCHANGED <<chain, backoff>>
     ELSE /\ mem' = s
          /\ EndRenewal(renewal.ok)
          /\ UNCHANGED <<writes, owed>>
  /\ UNCHANGED <<disk, pool, clients, signIn, world>>

-----------------------------------------------------------------------------
(* The sign-in. *)

Start ==
  /\ signIn.at = "idle"
  /\ events < MaxEvents
  /\ events' = events + 1
  /\ signIn' = [NoSignIn EXCEPT !.at = "start"]
  /\ BeginRead("sign")
  /\ UNCHANGED <<store, chain, pool, clients, renewal, backoff, age, issued, owed>>

\* The server still uses OAuth and the authorization server answers with a
\* redirect, or the start fails.
StartEnds(s) ==
  /\ signIn.at = "start"
  /\ ReadEnds("sign", s)
  /\ mem' = s
  /\ \/ s.auth = "oauth" /\ signIn' = [NoSignIn EXCEPT !.at = "pending", !.url = s.url]
     \/ signIn' = NoSignIn
  /\ UNCHANGED <<disk, writes, chain, pool, clients, renewal, backoff, world, owed>>

\* The callback: the state is single use, and the code is exchanged for
\* tokens.  A refusal, an expired state or a failed exchange ends it.
Finish ==
  /\ signIn.at = "pending"
  /\ \/ /\ issued < MaxTokens
        /\ issued' = issued + 1
        /\ \E r \in {0, issued + 1} :
             signIn' = [signIn EXCEPT !.at = "save", !.acc = issued + 1, !.ref = r]
        /\ BeginRead("sign")
     \/ /\ signIn' = NoSignIn
        /\ UNCHANGED <<issued, reader>>
  /\ UNCHANGED <<store, chain, pool, clients, renewal, backoff, age, events, owed>>

SaveOAuth(s) ==
  /\ signIn.at = "save"
  /\ ReadEnds("sign", s)
  /\ IF s.auth = "oauth" /\ s.url = signIn.url
     THEN /\ put([s EXCEPT !.acc = signIn.acc, !.ref = signIn.ref,
                           !.grant = signIn.acc], "signed")
          /\ signIn' = [NoSignIn EXCEPT !.at = "write"]
          /\ owed' = signIn.acc
     ELSE /\ mem' = s
          /\ signIn' = NoSignIn
          /\ UNCHANGED <<writes, owed>>
  /\ UNCHANGED <<disk, chain, pool, clients, renewal, backoff, world>>

-----------------------------------------------------------------------------
(* The clock: the stored access token comes due and expires, a failed      *)
(* renewal may be tried again.                                             *)

Expire ==
  /\ events < MaxEvents
  /\ events' = events + 1
  /\ disk.auth = "oauth" /\ disk.acc # 0
  /\ age[disk.acc] # "expired"
  /\ age' = [age EXCEPT ![disk.acc] = IF @ = "fresh" THEN "due" ELSE "expired"]
  /\ UNCHANGED <<store, reader, chain, pool, clients, oauth, issued, owed>>

RetryAt ==
  /\ backoff
  /\ backoff' = FALSE
  /\ UNCHANGED <<store, reader, chain, pool, clients, renewal, signIn, world, owed>>

-----------------------------------------------------------------------------

\* Boot: the store has been read, an enabled server signed in earlier, and the pool's first sync is queued.
McpInit ==
  /\ mem = [NoServer EXCEPT !.auth = "oauth", !.on = TRUE, !.acc = 1, !.ref = 1, !.grant = 1]
  /\ disk = mem
  /\ writes = <<>>
  /\ reader = [t \in Tasks |-> NotReading]
  /\ chain = <<"sync">>
  /\ pool = Idle
  /\ mount = NoMount
  /\ fiber = [f \in Fibers |-> "none"]
  /\ renewal = NoRenewal
  /\ signIn = NoSignIn
  /\ backoff = FALSE
  /\ age = [t \in Tokens |-> "fresh"]
  /\ issued = 1
  /\ events = 0
  /\ owed = 1

\* The read of a task ends and leaves its slot.
ReadsEnd(t) ==
  /\ \E s \in reader[t].seen :
       \/ t = "pool" /\ PoolReconcile(s)
       \/ t = "renew" /\ (RenewAll(s) \/ ReplaceOAuth(s))
       \/ t = "sign" /\ (StartEnds(s) \/ SaveOAuth(s))
  /\ reader' = [reader EXCEPT ![t] = NotReading]

HostSteps ==
  \/ \E t \in Tasks : ReadsEnd(t)
  \/ WriteLands
  \/ PoolBegin
  \/ PoolDisposed
  \/ Renew
  \/ Tick
  \/ \E f \in Fibers : FiberDisposed(f)

Operator ==
  \/ \E auth \in {"none", "bearer", "oauth"}, on \in BOOLEAN, url \in Urls, typed \in BOOLEAN :
       setMcpServer(auth, on, url, typed)
  \/ deleteMcpServer
  \/ retryMcpServer
  \/ listMcpServers
  \/ Start
  \/ Finish

McpNext ==
  \/ HostSteps
  \/ Operator
  \/ \E f \in Fibers : FiberConnects(f) \/ FiberFails(f)
  \/ Expire
  \/ RetryAt

McpSpec == McpInit /\ [][McpNext]_mcpVars

\* Promises settle, disposals end, the timer ticks, the chain moves.
McpFair ==
  /\ \A t \in Tasks : WF_mcpVars(ReadsEnd(t))
  /\ WF_mcpVars(WriteLands)
  /\ WF_mcpVars(PoolBegin)
  /\ WF_mcpVars(PoolDisposed)
  /\ WF_mcpVars(Renew)
  /\ WF_mcpVars(Tick)
  /\ \A f \in Fibers : WF_mcpVars(FiberDisposed(f))

McpFairSpec == McpSpec /\ McpFair

-----------------------------------------------------------------------------

\* Every client fiber that runs is one the live mount will dispose: a failed
\* handshake while its mount is disposed starts no replacement nothing owns.
NoOrphanClient ==
  \A f \in Fibers : fiber[f] \in {"starting", "up", "failed"} => f \in mount.fibers

\* mcp-client reserves the server's name: a client starts only when every
\* other client of the server has failed or is gone, so a dispose is never
\* interleaved with a mount.
OneClient ==
  \A f, g \in Fibers :
    f # g /\ fiber[f] \in {"starting", "up"} => fiber[g] \in {"none", "failed"}

\* Once edits and sign-ins have stopped, the live mount is and stays the one
\* the stored entry asks for: its URL, its unexpired token, or none at all.
MountFollows ==
  <>[](IF mountable(disk, disk)
       THEN mount.live /\ mount.url = disk.url /\ mount.tok = tokenFor(disk)
       ELSE ~mount.live)

\* The sign-in the operator completed last stays the stored one until the
\* operator changes the server or its own client is refused: a renewal of an
\* older sign-in gives way to it.
SignInWins == writes = <<>> /\ owed # 0 => disk.grant = owed
=============================================================================
