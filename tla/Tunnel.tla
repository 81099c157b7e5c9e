-------------------------------- MODULE Tunnel --------------------------------
(***************************************************************************)
(* How the host reaches the runner of one sandbox: TunnelServer            *)
(* (core/tunnel.ts), the redial loop of the runner (runner/tunnel.go), the *)
(* callers of waitFor - RunnerAttachment (runner-attachment.ts) and the    *)
(* preview relay - and a network that cuts connections without telling     *)
(* either end.  Registrations and waiters are kept per sandbox id, so one  *)
(* sandbox is enough.                                                      *)
(***************************************************************************)
EXTENDS Naturals

CONSTANTS
    Conns,     \* connections, reused once nothing refers to them
    Previews,  \* preview requests under way at the same time
    MaxSets    \* bound: sets of waiters made, numbered and reused

ASSUME ConnsAssumption    == Conns \subseteq Nat \ {0}
ASSUME PreviewsAssumption == "attach" \notin Previews
ASSUME SetsAssumption     == MaxSets \in Nat

VARIABLES
    host,      \* per connection: the host's end of the stream
    path,      \* per connection: whether bytes still get through
    requests,  \* handshakes on their way to the host
    reg,       \* TunnelServer.registrations: the connection, or 0
    entry,     \* TunnelServer.waiters: the current set of waiters, or 0
    waits,     \* per caller: the set it waits in, or 0
    runner,    \* the runner's redial loop
    wire,      \* the connection the runner dials or serves
    at,        \* where the attach of the session's runner is
    client,    \* the runner client attach was handed, or 0
    cached     \* RunnerAttachment.clients: the connection, or 0

vars == <<host, path, requests, reg, entry, waits, runner, wire, at, client, cached>>

-----------------------------------------------------------------------------

Callers == Previews \cup {"attach"}

TypeOK ==
    /\ host \in [Conns -> {"none", "live", "destroyed"}]
    /\ path \in [Conns -> {"good", "cut"}]
    /\ requests \subseteq Conns
    /\ {reg, wire, client, cached} \subseteq Conns \cup {0}
    /\ entry \in 0..MaxSets
    /\ waits \in [Callers -> 0..MaxSets]
    /\ runner \in {"redial", "dialing", "serving"}
    /\ at \in {"idle", "waiting", "probing", "pause"}

Init ==
    /\ host = [c \in Conns |-> "none"] /\ path = [c \in Conns |-> "cut"]
    /\ requests = {} /\ reg = 0
    /\ entry = 0 /\ waits = [w \in Callers |-> 0]
    /\ runner = "redial" /\ wire = 0
    /\ at = "idle" /\ client = 0 /\ cached = 0

callers == <<entry, waits, at, client, cached>>
dialer  == <<runner, wire>>

-----------------------------------------------------------------------------
(* The runner *)

Unused(c) == host[c] = "none" /\ c \notin requests \cup {reg, wire, client, cached}

\* serveOnce dials; the handshake is on its way.
Dial ==
    /\ runner = "redial"
    /\ \E c \in Conns :
          /\ Unused(c) /\ \A d \in Conns : Unused(d) => c <= d
          /\ wire' = c /\ runner' = "dialing"
          /\ requests' = requests \cup {c}
          /\ path' = [path EXCEPT ![c] = "good"]
    /\ UNCHANGED <<host, reg, callers>>

\* The host's 101 arrives.
Established ==
    /\ runner = "dialing" /\ host[wire] = "live" /\ path[wire] = "good"
    /\ runner' = "serving"
    /\ UNCHANGED <<host, path, requests, reg, wire, callers>>

\* serveOnce returns, the connection is closed and Run waits out its backoff:
\* the handshake timed out, or the tunnel being served is silent or closed.
GiveUp ==
    /\ \/ runner = "dialing"
       \/ runner = "serving" /\ (path[wire] = "cut" \/ host[wire] # "live")
    /\ runner' = "redial" /\ wire' = 0
    /\ path' = [path EXCEPT ![wire] = "cut"]
    /\ UNCHANGED <<host, requests, reg, callers>>

-----------------------------------------------------------------------------
(* TunnelServer *)

Registered == reg # 0 /\ host[reg] = "live"

\* register hands the new client to everyone in the set of waiters.
answered == [w \in Callers |-> IF waits[w] = entry THEN 0 ELSE waits[w]]

\* Mutant: the set of waiters goes, and its members are not answered.
registerDeaf(c) ==
    /\ reg' = c /\ host' = [host EXCEPT ![c] = "live"]
    /\ entry' = 0 /\ UNCHANGED <<waits, at, client>>

\* register: the connection is the sandbox's registration; the waiters go.
register(c) ==
    /\ reg' = c /\ host' = [host EXCEPT ![c] = "live"]
    /\ entry' = 0 /\ waits' = answered
    /\ IF waits["attach"] # 0 /\ waits["attach"] = entry
       THEN at' = "probing" /\ client' = c
       ELSE UNCHANGED <<at, client>>

\* handleUpgrade: a second live registration is refused with 409, which ends
\* the runner's attempt unless it has given up already.
HandleUpgrade(c) ==
    /\ c \in requests /\ requests' = requests \ {c}
    /\ \/ /\ ~Registered
          /\ register(c)
          /\ UNCHANGED <<path, dialer>>
       \/ /\ Registered
          /\ path' = [path EXCEPT ![c] = "cut"]
          /\ IF wire = c THEN runner' = "redial" /\ wire' = 0 ELSE UNCHANGED dialer
          /\ UNCHANGED <<host, reg, entry, waits, at, client>>
    /\ UNCHANGED cached

\* The initial health probe, a later HTTP/2 ping or the socket itself fails: the
\* stream is destroyed.  A slow runner can fail a probe on a good connection.
HostNotices(c) ==
    /\ host[c] = "live" /\ path[c] = "cut"
    /\ host' = [host EXCEPT ![c] = "destroyed"]
    /\ UNCHANGED <<path, requests, reg, callers, dialer>>

ProbeTimesOut(c) ==
    /\ host[c] = "live" /\ path[c] = "good"
    /\ host' = [host EXCEPT ![c] = "destroyed"]
    /\ UNCHANGED <<path, requests, reg, callers, dialer>>

\* Mutant: the close handler removes whatever is registered.
ClosedAny(c) ==
    /\ host[c] = "destroyed"
    /\ host' = [host EXCEPT ![c] = "none"]
    /\ path' = [path EXCEPT ![c] = "cut"]
    /\ reg' = 0
    /\ UNCHANGED <<requests, callers, dialer>>

\* The stream's close event: only its own registration goes.
Closed(c) ==
    /\ host[c] = "destroyed"
    /\ host' = [host EXCEPT ![c] = "none"]
    /\ path' = [path EXCEPT ![c] = "cut"]
    /\ reg' = IF reg = c THEN 0 ELSE reg
    /\ UNCHANGED <<requests, callers, dialer>>

\* Mutant: the registration goes and its stream stays open.
dropUnregisters == reg' = 0 /\ UNCHANGED host

\* drop severs the registration the sandbox has now.
drop == /\ reg' = 0
        /\ host' = IF reg # 0 /\ host[reg] = "live"
                   THEN [host EXCEPT ![reg] = "destroyed"] ELSE host

\* A set of waiters: the current one, or a new one.
setOfWaiters(n) ==
    \/ entry # 0 /\ n = entry
    \/ /\ entry = 0 /\ n \in 1..MaxSets
       /\ \A w \in Callers : waits[w] # n
       /\ \A m \in 1..(n - 1) : \E w \in Callers : waits[w] = m

\* A caller's timer fires: it leaves its set, and an emptied set goes.
timeOut(w) ==
    /\ waits' = [waits EXCEPT ![w] = 0]
    /\ entry' = IF \E v \in Callers \ {w} : waits[v] = waits[w] THEN entry ELSE 0

-----------------------------------------------------------------------------
(* Callers of waitFor *)

\* A preview request: a registered runner answers at once.
PreviewWaits(w) ==
    /\ waits[w] = 0 /\ ~Registered
    /\ \E n \in 1..MaxSets :
          setOfWaiters(n) /\ entry' = n /\ waits' = [waits EXCEPT ![w] = n]
    /\ UNCHANGED <<host, path, requests, reg, at, client, cached, dialer>>

PreviewTimesOut(w) ==
    /\ waits[w] # 0 /\ timeOut(w)
    /\ UNCHANGED <<host, path, requests, reg, at, client, cached, dialer>>

\* waitForRunner, at its start or round its loop.
Attach ==
    /\ at \in {"idle", "pause"}
    /\ \/ /\ Registered /\ at' = "probing" /\ client' = reg
          /\ UNCHANGED <<entry, waits>>
       \/ /\ ~Registered /\ at' = "waiting"
          /\ \E n \in 1..MaxSets :
               setOfWaiters(n) /\ entry' = n /\ waits' = [waits EXCEPT !["attach"] = n]
          /\ UNCHANGED client
    /\ UNCHANGED <<host, path, requests, reg, cached, dialer>>

\* A client answers while its connection carries bytes between both ends.
Answers(c) == c # 0 /\ host[c] = "live" /\ path[c] = "good"
                    /\ runner = "serving" /\ wire = c

\* The health probe of the client succeeds, and the client is cached.
Attached ==
    /\ at = "probing" /\ Answers(client)
    /\ at' = "idle" /\ client' = 0 /\ cached' = client
    /\ UNCHANGED <<host, path, requests, reg, entry, waits, dialer>>

\* It fails: the registration is dropped, and the loop goes round after a pause.
\* A slow runner can fail the probe on a good connection.
ProbeFails ==
    /\ at = "probing"
    /\ drop
    /\ at' = "pause" /\ client' = 0
    /\ UNCHANGED <<path, requests, entry, waits, cached, dialer>>

\* waitFor times out, or the loop's deadline passes in its pause.
Expired ==
    /\ \/ at = "waiting" /\ timeOut("attach") /\ drop
       \/ at = "pause" /\ UNCHANGED <<entry, waits, reg, host>>
    /\ at' = "idle"
    /\ UNCHANGED <<path, requests, client, cached, dialer>>

\* reuseCached evicts a client that does not answer.
Evict ==
    /\ cached # 0 /\ ~Answers(cached)
    /\ cached' = 0
    /\ UNCHANGED <<host, path, requests, reg, entry, waits, at, client, dialer>>

\* detach: the session's sandbox is put away.
Detach ==
    /\ at = "idle"
    /\ cached' = 0 /\ drop
    /\ UNCHANGED <<path, requests, entry, waits, at, client, dialer>>

-----------------------------------------------------------------------------
(* The network and the host *)

Cut(c) ==
    /\ path[c] = "good"
    /\ path' = [path EXCEPT ![c] = "cut"]
    /\ UNCHANGED <<host, requests, reg, callers, dialer>>

\* The host restarts: every connection and everybody waiting is gone.
Restart ==
    /\ host' = [c \in Conns |-> "none"] /\ path' = [c \in Conns |-> "cut"]
    /\ requests' = {} /\ reg' = 0
    /\ entry' = 0 /\ waits' = [w \in Callers |-> 0]
    /\ at' = "idle" /\ client' = 0 /\ cached' = 0
    /\ UNCHANGED dialer

Runner == Dial \/ Established \/ GiveUp
Server == \E c \in Conns : HandleUpgrade(c) \/ HostNotices(c) \/ Closed(c)
                             \/ ProbeTimesOut(c)
Asking == \/ \E w \in Previews : PreviewWaits(w) \/ PreviewTimesOut(w)
          \/ Attach \/ Attached \/ ProbeFails \/ Expired \/ Evict \/ Detach
Next   == Runner \/ Server \/ Asking \/ Restart \/ \E c \in Conns : Cut(c)

Spec == Init /\ [][Next]_vars

\* Dials, handshakes, close events and the detection of a dead path happen; a
\* handshake that is never answered times out.
Fair ==
    /\ WF_vars(Dial) /\ WF_vars(Established)
    /\ WF_vars(GiveUp /\ (runner = "serving" \/ wire \notin requests))
    /\ \A c \in Conns : /\ WF_vars(HandleUpgrade(c)) /\ WF_vars(HostNotices(c))
                        /\ WF_vars(Closed(c))
    /\ WF_vars(Attached \/ ProbeFails) /\ WF_vars(Evict)

\* The network fails, a runner is too slow, the sandbox is put away, or a dial
\* gives up although its handshake gets through.
Trouble == \/ \E c \in Conns : Cut(c) \/ ProbeTimesOut(c)
           \/ Restart \/ Detach
           \/ GiveUp /\ runner = "dialing" /\ path[wire] = "good"
           \/ ProbeFails /\ host[client] = "live" /\ path[client] = "good"

CalmSpec == Spec /\ Fair /\ <>[][~Trouble]_vars

-----------------------------------------------------------------------------
(* Properties *)

\* A stream the host keeps open is the one registered: no connection is left
\* that pings keep alive and no call can find, and the close of an earlier
\* connection of the runner never unregisters a later one.
LiveIsRegistered == \A c \in Conns : host[c] = "live" => reg = c

\* Nobody waits for a runner that is registered, and everybody who waits is in
\* the set the next registration answers, whatever timers fired before.
WaitersHeard ==
    \A w \in Callers : waits[w] # 0 => ~Registered /\ waits[w] = entry

\* "An id that never registers must not leave its set behind" (tunnel.ts:136).
SetsForgotten == entry # 0 => \E w \in Callers : waits[w] = entry

\* Once the network behaves, the runner ends up registered and served for good,
\* whatever half-open connections, refused dials and drops came before.
Reconnects == <>[](Registered /\ Answers(reg))

=============================================================================
