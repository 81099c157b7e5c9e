# A verification development for dsh-yawn

dsh-yawn is a host plugin (the *control plane*, TypeScript) that gives every
agent session a sandbox of its own - a Docker container, a Kubernetes sandbox
or a Buildkite build - and a *runner* (Go) in each sandbox that dials back to
the host and executes the session's tools. This directory holds TLA+ modules
that model the parts of the system where ordering, failure and concurrency
decide whether a session keeps its work, the TLC configurations that check
them, and proofs of the main theorems for TLAPS.

Paths below are relative to `src/`; `manager/` is
`control-plane/src/sandbox/manager/`.

## Inventory

| Component | State | Operations | What makes it correct |
|---|---|---|---|
| Sandbox lifecycle (`manager/sandbox-lifecycle.ts`) | one lock per session | ensureRunning, hibernate, release, initialize | a turn never works in a sandbox that lacks the session's work; a crash at any await is recoverable |
| Session store (`core/state-store.ts`) | records in memory, one file, a write chain | get, set, delete, persist | memory and disk differ only while a write is awaited |
| Checkpoints (`sandbox/checkpoint.ts`) | bundle and artifacts tar per session | save, load, restore, remove | the files beside a checkpointed record are the ones it names |
| Backends (`sandbox/backends/`) | Docker: containers and expiry timers of the process; Kubernetes: claims with a deletion time; Buildkite: builds, a cluster secret | provision, hibernate, wake, destroy, expireAt, health | a retry takes over what an earlier attempt left; no deadline on an active sandbox; one build per session |
| Profile registry, settings (`manager/profile-registry.ts`, `runtime-settings.ts`, `sandbox/config.ts`) | two layers of settings, a backend object per profile, choices of sessions | update, sync, choose, pick | a session is provisioned from the settings as they stand and stays with its backend |
| Runner attachment (`manager/runner-attachment.ts`) | cached client per session | attach, connect, reuseCached, detach, pushCredentials | a client is used only for the sandbox of the record |
| Tunnel server (`core/tunnel.ts`), runner client (`runner/tunnel/tunnel.go`) | registrations, sets of waiters | waitFor, drop, handleUpgrade, register, close event; dial, serve, redial | a live stream can be found; waiters are answered; the runner gets back in |
| Idle schedule (`manager/idle.ts`), archive release (`manager/archive-release.ts`) | countdowns, activity counters, live-turn counts | markActive, schedule, beginTurn, endTurn, tick, reconcile | no live turn is cut; an unused sandbox is put away; an archived session is released |
| Sandbox manager (`manager/sandbox-manager.ts`) | wires the above to the host's events | ensureRunning, noteActivity, markPreviewed, browser reads, settings methods, boot | a running record carries a countdown |
| MCP servers (`control-plane/src/mcp/`) | entries in memory and file, OAuth tokens, client mounts, choice per session, tool masks | sign in, renew, mount, dispose, retry; freeze, swap between turns | clients never overlap or leak; a running turn keeps its servers; tools and prompt agree |
| Credentials (`credentials/broker.ts`) | broker file, memory, write chain; the runner's copy | set, delete, refresh, push | a command runs with the edits answered before it |
| Runner service (`runner/service/`) | process groups, a lock per path, setup marker | Exec, WriteFile, EditFile, DeleteFile, Stat, Tree, Setup, SetSecrets | output before exit, guards hold, setup once |
| Terminals (`terminal/`, `runner/terminal/`) | PTY, process group, event queue, pending query | start, write, query, signal, terminate | nothing behind the closed event; both ends go away |
| Programmatic tool calls (`ptc/pipe.ts`, `runner/ptc/`) | fd 7, bounded channels | begin, write, end, deliver, cancel | two ordered byte streams, the exit last |
| Session tools (`sessions/session-tools.ts`) | installed tools per agent | create, message, interrupt, wait; reconcile | exactly the allowed agents have them; a child is configured before it is prompted |
| Instructions and notices (`instructions/`, `manager/sandbox-notices.ts`) | store of texts, pending notice, baselines on agents' surfaces | set, render, take | every step under the current text; a notice told once |
| File references (`workspaces/file-reference.ts`, `file-index*.ts`) | snapshot, refresh and count of invalidations per agent; a saved index per session | list, refresh, invalidate, capture, load | a current snapshot shows what the tools wrote |
| Authentication (`auth/`) | pending logins, attempts per address | gate, login, callback, logout, reopen | navigations end; a login is neither lost nor used twice |
| Previews (`previews/`, `runner/service/http_proxy.go`) | one response, one call, its two streams | handle, close; HttpProxy | a body arrives whole or is cut; a browser that leaves releases the call and the server |
| Workspaces (`workspaces/workspace-anchor.ts`, `scratch-workspace.ts`) | an anchor directory and its metadata per repository | create, resolve, delete; repositoryFor | anchors stay readable; a sandbox gets its workspace's repository |
| Root sessions (`manager/root-session.ts`, `sandbox-manager.ts`) | remembered roots, live-turn counts | rootSessionId, turn/start, turn/end, restart | a session has one sandbox, a fork its own; a count stands for open turns of its own tree |
| MCP settings page (`client/mcp/mcp.tsx`) | list shown, polls, one write, dialog, test, sign-in tabs | save, toggle, test, connect, poll | results belong to what they stand beside; waits end; no tab is left blank |
| Media, other pages, skills, telemetry | | | see `PROJECT.json` |

How they interact. Host events (a turn starts or ends, the agent runs, the
archive set changes), browser reads and countdowns all queue operations on the
session's lock (`serialize`). Inside the lock the lifecycle calls the registry
for a backend, the backend for a sandbox, the attachment for a runner, and
writes the record. The attachment waits on the tunnel server, which runners
reach on their own schedule, then calls setup and pushes credentials. Tools,
terminals and tool calls are streams through that tunnel into goroutines of the
runner. The host itself is one thread: what interleaves there are the awaits,
and at each of them the process may die, a deadline may pass, a sandbox may
vanish and the operator may change a setting. In the runner the goroutines and
the processes of the sandbox are parallel.

The hard behaviours, each at its line in `PROJECT.json` under "hazards": crashes
between save, record and destroy, between park, deadline and record, inside a
restore and around the creation of a build; calls that fail after half their
effect; values read before an await and used after it (profile, cached client,
archive set, stored entries, snapshots); overlapping turns of a session and its
subagents; late events of old connections; timers that race what they were
armed for; goroutines that wait on one another around a bounded channel.

## Modules

**SandboxLifecycle** is one session. `pc` is the await the lock holder is
suspended on, and one action is the code between two awaits, so every place
where something else can happen is a state. `rec` and `disk` are the record in
memory and in the file, `bundle` and `tar` the checkpoint files (as the version
of the work they hold), `box[k]` what a backend of kind `k` keeps for the
session, `client` the cached runner, `held` the record the operation works on.
The version `tree` of a workspace and the ghost `head`, the version the session
is owed, stand for all files and commits: the properties ask only whether work
is there. `head` drops to 0 when the work is legitimately gone - the session is
released or expired, or the backend lost the sandbox while it was the only copy.
`then` and `after` are continuations (after a write, after forgetSession or a
claim). Every backend call may throw, and a call that throws may have had any
part of its effect. `ev = "boot"` marks boot recovery, which a throw turns into
a host that refuses everything until it is restarted (`broken`). Sandbox ids are
reused only when nothing names them. Sessions share neither records, locks,
files nor sandboxes, so one is enough.

| Code | Actions |
|---|---|
| ensureRunning, react | EnsureRunning, Reclaim, Fresh, Claim, Attach, Reuse, Health, Wake, ReplaceDestroy |
| restoreCheckpoint | Load, Claim, RestoreAttach, RestoreUndo, RestoreRemove |
| hibernate | Hibernate, Park, ParkExpire (hibernating backends); CpRunner, CpSave, CpBundle, CpTar, CpDestroy (Buildkite); SuspendEnd |
| release, forgetSession, store | Release, RelDestroy, ForgetFiles, Persist |
| initialize | Boot, BootExpire |
| environment | Work, Lose, Expire, Lapse, Crash, update |

**SessionPromise** is the abstract specification: the states of the stored
record, the work owed, and the work kept where that state says.
**SandboxLifecycleInv** states the inductive invariants and the refinement
mapping (`disk.state`, `head`, and the version found in the place the record
names). **SandboxLifecycleProofs** has the proofs.

**IdleSchedule** is the idle schedule, archive release and the manager's event
wiring, for one root session and its subagents, who share a key. The lock is a
queue with a holder; what an operation does to the sandbox is only its effect
on the record's state (`absent`, `running`, `suspended`), which may change
before the operation ends. The activity counter is kept as what it is compared
for: whether a countdown in flight is still current. A crash leaves turns open
in the log, and the session library repairs each with a turn/end later.
**IdleScheduleProofs** has the proofs.

**Tunnel** is the host's side of one sandbox's connections, the runner's redial
loop, an attach and preview requests that wait, and a network that cuts a path
without telling either end. `host[c]` goes live, destroyed, none: the close
event comes later than the destroy, as in Node. Sets of waiters are numbered
because a timer of an old set deletes the entry of the current one.
**TunnelProofs** has the proofs.

The following modules take the components around that core, each with its own
variables, so that several can be explored in one run.

**ExecCall** is one command, from the caller's handle to the process group.
`call`, `cause`, `tail` and `drain` are the seams of `shell.ts` and
`subprocess.ts`; `hand`, `waiter`, `copier` and `term` are the goroutines of the
Exec handler and of os/exec; `chunks`, `pipe` and `wire` the three buffers
between them. Chunks are numbered, so that loss and order are visible. The
command may leave a child that keeps the pipe open, and either may ignore
SIGTERM.

**Terminal** is one PTY: `tHandle` and `tAsk` the control plane's handle with at
most one query in flight, `tReqs` and `tEvents` the two halves of the stream,
`tCtl`, `tPump`, `tLadder`, `tReaped` the runner's goroutines, `lead` and
`member` the shell and what it left behind. **PtcRun** is a programmatic tool
call: writes made before the program starts (`pEarly`), the request queue, the
two relays, the socket at fd 7, a child that inherits it, and the drain bound.

**SandboxFiles** is the file tools of several agents in one sandbox. A call is
several requests (`op`), each request a check and a commit under a lock on the
path (`lockOf`); versions are numbers, a text is the version it came from, and
processes in the sandbox write without a lock. **RunnerSetup** is the Setup
handler with its marker, `git` and hook; a call that the host gave up leaves its
handler running. **Credentials** is the broker's file, memory and chain of
writes, the CLI that edits the file from outside, and the push into each
session's runner; a copy of the store is the set of edits in it.

**McpServers** follows one server through store, sign-in, renewal and pool.
`reader[t]` is a `store.refresh` in flight for task `t`, `chain` and `pool` the
serialized reconciles, `fiber` the clients, `mount` the live one; tokens are
numbers and a *grant* is the sign-in a token descends from. **McpChoice** is the
list of servers one session sees: `choice` and `saved`, the `live` list of open
turns, the `mask` of every agent, and what the prompt is assembled from.

**ProfileSettings** is the two layers of settings resolved piece by piece, the
registry rebuilt from them with backends kept, rebuilt or refused, and the
profile a session chose, picked and is provisioned from. **BuildkiteBuilds** and
**KasClaims** are the two drivers: an action is one request to Buildkite or to
the API server, which may be carried out without its answer arriving. The
services themselves are external and modelled by what the drivers rely on.
**KasClaimsProofs** has the proof of the second.

**SessionTools** is which agents carry the session tools (`installed`, a
reconcile waiting in a microtask) and the calls of a parent against one child,
with profiles and models withdrawn in between. **StepPrompt** is what the host
adds to a step: the baseline of instructions read back from the agent's own log,
and the notice that the sandbox came back, for several agents of a tree.
**FileReference** is the "@" picker: per agent a snapshot, a shared refresh and
a count of invalidations, and the index saved as the sandbox is put away; the
tree is a number that grows. **SignIn** is the gate, the passcode and OIDC rows
and the reopening page, for several tabs that share a cookie jar; time is a
counter. Its two tables, JavaScript maps in insertion order, are sets of records
that carry that order: a login's state is its number, and a budget has the number
of the form that entered it (`since`).

**McpPage** is the MCP settings page. Every call is in flight twice: until the
host serves it (`sent`) and until its answer is handled (`served`, `failed`), so
that polls (`reads`), one write (`write`), sign-in starts (`connects`) and the
connection test (`test`) overtake one another. A read carries the sign-in its
closure was made for and whether that tab was closed when it was sent. What the
page can click is `cardControls` and `dialogControls`, the enabled controls of
the JSX; the host behind it is one record per server, and `written` is what
McpServers describes in detail. **PreviewRelay** is one preview request:
`relay`, `read` and `rpc` are PreviewRelay.handle, its request generator and the
call, `up` and `down` the two halves of the stream, `runner` the HttpProxy
handler, `server` the program in the sandbox, which may never answer. Bodies are
counted in chunks. **Workspaces** is the creation of repository anchors, with a
crash at every await and each creation's own temporary file, and the repository
a session is provisioned with; a URL is its form, its repository, the case of its
path and its suffix, and an anchor is the normalized URL its directory's name is
a hash of. Anchors of older versions, with SSH and HTTP URLs, are there from the
start. Such an anchor beside an HTTPS one, or two spellings of the path, are two
workspaces of one repository, in the model as in the code. **SessionRoots** is
the walk from a subagent to its root over the live agents, the memo that keeps
the answer, and the live-turn counts kept under it; `Parent` and `Delegated` are
the session headers. A restart leaves the turns that were open in the log
(`dangling`), and their repaired ends come later, to a count that never saw them
begin.

**MCStreams** composes ExecCall, Terminal, PtcRun, SignIn and PreviewRelay,
**MCHost** McpChoice, Credentials, SessionTools, ProfileSettings,
BuildkiteBuilds, StepPrompt, SandboxFiles, RunnerSetup, KasClaims,
FileReference, Workspaces and SessionRoots. The components of one MC module
share no state: `focus` names the one a behaviour moves and the others stay as
they began, so a run explores the sum of their state spaces and not the product.
SessionTools has two such parts of its own, who has the tools and one tool's call.

The proofs are in eight modules. **SandboxLifecycleProofs**,
**IdleScheduleProofs**, **TunnelProofs** and **KasClaimsProofs** are about one
component each. **HostProofs** has those of McpChoice, Credentials, SessionTools,
ProfileSettings, BuildkiteBuilds and StepPrompt, **SandboxWorkProofs** those of
SandboxFiles, RunnerSetup and FileReference, **WebProofs** those of McpServers,
McpPage, PreviewRelay, Workspaces and SessionRoots, **StreamsProofs** those of
ExecCall, Terminal, PtcRun and SignIn. Each part of such a module
speaks of one component's variables and specification only.

Mutated forms of definitions (commented "mutant") stand next to the
definitions they change; `PROJECT.json` pairs each property with one that
breaks it.

## Runs

| Run | Specification, bounds | Properties | States |
|---|---|---|---|
| Lifecycle | Spec; Buildkite and Kubernetes, 4 sandbox ids, 2 pieces of work, 1 crash, 1 profile change of any sort | NoWorkLost, CheckpointIsTruth, NoHiddenExpiry, ImplementsPromise | 1.9 M |
| LifecycleLive | CalmSpec; all three kinds, 3 ids, 1 piece of work, 1 crash | ServedAgain | 30 k |
| Idle | FairSpec; two sessions, queue of 4, ensureRunning and suspension may fail | ArchivedGone | 29 k |
| IdleCrash | QuietSpec; one session, queue of 3, 2 crashes, both browser reads; a turn's ensureRunning, suspension and release may fail | NoTurnCut, PutAway | 32 k |
| Tunnel | CalmSpec; 4 connections, an attach and 2 previews, 3 sets | LiveIsRegistered, WaitersHeard, Reconnects | 197 k |
| Mcp | McpFairSpec; 2 addresses, 2 tokens, 2 operator calls, 2 clients | NoOrphanClient, MountFollows | 697 k |
| Streams | MCSpec; see below | ExecCall: OutputHonest, DrainExact, CommandReaped. Terminal: ClosedIsLast, TerminalEnds, AskSettles. PtcRun: FramesInOrder. SignIn: LoginsKept, NavigationEnds. PreviewRelay: WholeOrCut, Released | 502 k |
| Host | MCSpec; see below | McpChoice: NeverAMix, TurnStable. Credentials: EditsReach. SessionTools: ToolsFollow. ProfileSettings: PickServed. BuildkiteBuilds: OneLiveBuild. StepPrompt: BaselineCurrent, NoticeOnce. SandboxFiles: GuardHonoured. RunnerSetup: SetupOnce. KasClaims: ServedForGood. FileReference: SnapshotCurrent. Workspaces: RightRepository. SessionRoots: CountsMatch | 3.0 M |
| Page | PageFairSpec; 2 servers of which 1 is stored, 2 addresses, 2 tabs, 2 clicks, 2 edits of a field, 1 list call in flight, 1 failed call | NoBlankTab, WaitEnds | 428 k |

Runs that show a disagreement between the code and what it says of itself:

| Run | Property | What it shows |
|---|---|---|
| HiddenExpiry | NoHiddenExpiry | an edited Docker profile leaves the old backend object's deletion timer armed under a woken session |
| PoisonedStore | NoWorkLost | one failed write rejects all later ones, and the stale record on disk loses work after a crash |
| SignInLost | SignInWins | a sign-in completed while a renewal reads the store's file is overtaken by what the read found, and the older sign-in's renewal is written over it |

What the properties of Streams, Host and Page say, one line each; the comments
in the modules are exact.

* OutputHonest: an exit status comes with all the command wrote, in order, unless
  WaitDelay closed the pipe. DrainExact: reads of a background command that
  report no loss have returned every chunk once. CommandReaped: a cancelled call
  leaves no command and no handler behind.
* ClosedIsLast: nothing the session wrote is behind the closed event.
  TerminalEnds: a terminal ended or lost is gone at both ends. AskSettles: every
  query gets its own answer or a rejection.
* FramesInOrder: both directions of a tool call's channel are ordered byte
  streams, early writes included, and the exit status is last.
* LoginsKept: a login is exchanged at most once and forgotten only when used, too
  old or pushed out by a full table. NavigationEnds: no redirect loop.
* NeverAMix: the tools an agent is offered are those its prompt speaks of.
  TurnStable: the list does not change while a turn is open. The turns are those
  the idle schedule counts; a repaired end after a crash takes one off that count.
* EditsReach: the file keeps every answered edit and a command runs with every
  one answered before it, whatever refreshes, writes and edits of CLI and host
  overlap - but for the edits the code loses, which two ghosts name: `passedOver`,
  an edit made during a refresh or by the CLI that the host's next write does not
  have, and for the git table `overtaken`, an edit made during a refresh.
* ToolsFollow: between two microtasks exactly the allowed agents have the tools.
* PickServed: the backends are those of one version of the settings, the last that
  could be served - also while an update is refused and tried again - and a
  session that synchronised such a version, unedited since, is provisioned by a
  backend built for the profile it picks. OneLiveBuild: one build per session. ServedForGood: a sandbox in use
  has no deletion time on its claim.
* BaselineCurrent: a step runs under the instructions of the moment it was
  composed. NoticeOnce: an arrival of the sandbox is told once and in order.
* GuardHonoured: a guarded write replaces the version the agent saw, a patch is
  applied to the text it replaces, a move removes the text it copied. SetupOnce:
  one setup at a time and none after the one that succeeded.
* SnapshotCurrent: a snapshot taken for current shows what the agent's own tools
  wrote.
* NoBlankTab: a blank tab has a call in flight that will point it somewhere or
  close it. WaitEnds: neither a wait for a sign-in nor "Connecting" stays for
  ever.
* WholeOrCut: a response that ends normally is the server's whole response.
  Released: a browser that leaves frees relay, call and runner, and a listener
  closes whatever the responses do.
* RightRepository: a sandbox has the repository of the workspace its session was
  opened in, by its anchor's own URL, and of what the prompt said. CountsMatch: a
  live-turn count is never more than the open turns served there, and less only by
  the repaired ends that came, to that root, while one of its turns was open.

Safety properties that a theorem states and that no run repeats, since the proof
holds for every instance: TimerCarried and DeadlineInv of the core, SetsForgotten,
OneClient, SettingsFirst, NoKeyClash, TestHonest, RequestWhole, AnchorsReadable,
OneSandbox and ForksApart. The section on the
proofs says what each is about.

Why the bounds are enough. In Lifecycle, two pieces of work tell "all", "some"
and "none" apart, and a version of an old checkpoint from a current one. Four
ids let the record, the leftover of a failed attempt, a cached client and a new
sandbox be all different on two backends. One crash at every await, followed by
any operation, is what each recovery path is written for; a second crash meets
the same states, since recovery has no memory beyond the record. A queue of
three or four holds one operation of each sort ahead of and behind another. Four
connections are an old one closing, one registered, one on its way, and one
being probed. In Mcp, two tokens are a stored one and its successor, two clients
the one being disposed and its replacement; SignInLost has three tokens, for a
sign-in and a renewal that overlap. In Streams every buffer has capacity 1 and
the writer one or two more items than that, so that every writer meets a full
buffer (the code's capacities, 16 and 64, only make this rarer); two tabs and a
table of one login evict one another; two ticks of a clock with a lifetime of
one expire what they should. In Host two of everything overlap (turns, sessions,
callers, handlers, owners of builds, agents of a tree, askers), and one to three
mishaps (`MaxFaults`, `MaxTroubles`, `MaxMishaps`, `MaxSetbacks`) fall at any
point. Three turns of McpChoice are two that overlap and the one after both:
TurnStable needs it, see the proofs. The sandbox of StepPrompt is put away twice,
so that a second arrival may come before the first is told. Two creations in
Workspaces name one repository by any of 16 spellings, so that they meet on one
anchor or make two, beside at most one anchor of an older version; a session, its subagent, that one's subagent and a fork of
the last are the links there are. A preview's body of two chunks is over a cap
of one and as long as the stream holds. In Page two clicks are two sign-ins, or
a save and what follows it, with two tabs. One list call is in flight at a time:
fairness is stated for answers as a whole, which says nothing of the older of
two calls; NoBlankTab is proved for any number of them. The proofs remove the
bounds for the safety properties they cover.

Deadlock is checked in the runs of the lifecycle, the idle schedule, the tunnel
and MCP, whose environments never stop. Streams, Host and Page switch it off:
their streams really end, and their bounded counters let the others stop.

### Fairness

* `AwaitsEnd` (lifecycle): every await of the lock holder ends. The backend
  calls, probes and health checks carry timeouts, and a write answers or fails.
  A host that is down or refuses everything is restarted.
* `CalmSpec` (lifecycle): turns keep asking (strong fairness, because the lock is
  free again and again without being free for good), and from some point on no
  call fails that could succeed and no sandbox is lost. Without the second a
  session need not be served, whatever the code does. Crashes remain possible.
* `Fair` (idle): the lock's queue moves, operations end, timers fire, and a turn
  that starts ends. `QuietSpec` adds that use of the session and failures of the
  suspension stop at some point; PutAway is about what happens then.
* `Fair` (tunnel): the runner's loop redials, handshakes are answered or time
  out, a dead path is noticed (pings every 30 s, idle limit 60 s), close events
  come. `CalmSpec` adds that the network and slow probes stop making trouble.
* `McpFair`: promises settle (file reads, writes, token requests, disposals), the
  chain moves and the renewal timer ticks. Operator calls, handshakes and
  retries have none; the number of operator calls is bounded, which is the
  "edits have stopped" of MountFollows.
* `ExecFairness`: the runner's goroutines and the two grace timers run; neither
  the caller nor the command has to do anything.
* `TermFairness`: the same for the terminal's goroutines, the sender and the
  handle's loop; and a process that holds the PTY reads its input. The last is
  an assumption on the processes: the control loop writes to the PTY without a
  timeout, and blocks where nobody reads (see the observations).
* `SignFairness`: the host answers requests, and discovery and the token exchange
  end one way or another, as requests with a timeout of the OpenID client
  library. The user need not do anything.
* `PageFairness`: the two intervals of the page fire, ten minutes pass, calls are
  answered or fail, and a mount settles (the MCP client's requests time out). The
  operator and the tabs need not do anything.
* `PreviewFairness`: promises and stream messages of the relay move, an ended
  context ends the runner's handler, a write to a browser that left calls back.
  Nothing is asked of the browser, the sandbox's server or a slow write.

## Proofs

Checked by `tlapm` for every value of the constants.

* **SandboxLifecycleProofs**, from `~WritesFail`. `WorkInvariant` proves the
  inductive `WorkInv`. NoWorkLost is not inductive: whether a turn will find its
  work depends on what each await relies on. WorkInv adds that memory and disk
  agree except while a write is awaited (StoreSynced), what each awaited write
  is for (WriteAwaited), that the lock holder's copy names the stored record's
  sandbox (HolderAgrees), that kinds are known (KindKnown), where the work is for
  each state of the *stored* record (WorkKept) and where it is on the way to
  during a save, a restore and a removal (WorkMoving). `TypeCorrect`,
  `WorkNeverLost` and `CheckpointAlwaysTrue` follow. `PromiseImplemented` proves
  the refinement: each action either leaves the abstract state alone or is one
  step of SessionPromise.
* `DeadlinesKnown` and `NoExpiryHidden` additionally assume that no profile edit
  replaces a Docker backend object (`TimersKept`). The first proves the inductive
  `DeadlineInv`: a deadline sits only on the stored record's sandbox, and on an
  active one only while that record says hibernated; the second follows. The
  runs PoisonedStore and HiddenExpiry show that both assumptions are needed.
* **IdleScheduleProofs**. `NoTurnIsCut` assumes no crash and rests on an invariant
  that ties the live-turn count to the set of open turns, so that a guard that
  saw zero saw no open turn, and a turn opened later is served only through the
  queue. `RunningCarriesTimer` assumes that ensureRunning does not throw; its
  invariant WillRearm names everything that will still arm a countdown. Both
  assumptions are needed; the observations say why.
* **TunnelProofs**. `LiveStreamRegistered`, `WaiterHeard` and `EverySetForgotten` for
  any number of connections, callers and sets; the three are inductive together.
* **KasClaimsProofs**. `NoTimedSandboxServes`, for any number of sandboxes, failed
  requests and crashes. ServedForGood looks at a sandbox in use; the invariant
  `KasInv` has to say what is true while one is not: a deletion time on a living
  claim means a hibernated record, or a sandbox whose pod has stopped and that
  only wake starts again (TimedInv, StoppedInv), and what each call may rely on
  between two of its requests (ClaimInv, RecordInv, JobInv).
* **SandboxWorkProofs**. `SetupHappensOnce`, for any number of handlers and calls:
  SetupOnce speaks of the handlers past the marker's check; `SetupInv` adds that a
  handler past the lock holds it, and that one about to write the marker has run
  the hook. `CurrentMeansCurrent`, for any agents and bounds: `ReferenceInv`
  follows a refresh (FetchInv): until a tool result of its agent is logged it has
  the current count, and what it is about to take shows every logged result;
  afterwards its count is old, and so is the snapshot it leaves. SleepInv says
  that no tool is under way while the sandbox is being put away or is away.
  `GuardHonouredHolds`, for any callers, paths and versions: GuardHonoured is
  about finished writes; `FilesInv` says what each request of each call relies on
  while it waits - that a request between check and commit holds its path's lock
  (Locked), that the text a patch or a move carries is that of the version it
  read (TextOfVersion) - and that versions only grow.
* **HostProofs**, for any agents, servers, sessions, owners, texts and bounds.
  - `NeverAMixHolds`, `TurnStableHolds` from `ChoiceInv`: masks are what a
    reconcile would make them outside an edit in flight (MasksCurrent), the list
    of open turns belongs to them (LiveOwned), and what the next turn begins with
    is what the last one ran with unless the page set a list that still waits
    (GoesOn). TurnStable is an action property and is proved step by step from
    it.
  - `EditsReachHolds` from `CredInv`: a copy of the store is a set of edits, and
    what was answered and not passed over is in the file and in every write to
    come (WritesGrow); the memory has what is written but for the edits a refresh
    overtook and those of the CLI (MemoryFollows); a refresh finds what was
    answered before it began (ReadsFollow); a call sends that (Sent). Nothing is
    assumed of when anybody edits.
  - `ToolsFollowHolds` (CrewInv) and `SettingsFirstHolds`, whose `KidInv` says what
    a child has been given by the time its creation has come so far.
  - `PickServedHolds` from `PickInv`: the registry and what its backends were built
    for are the last version that could be served (`good`, a ghost), and a session
    whose call synchronised that one, unedited since, finds its profile there.
  - `NoKeyClashHolds` from `KeyInv`: one write of the secret at a time, and what it
    found missing is still missing. `OneLiveBuildHolds` from `BuildInv`: a session
    past the search for a build and before its creation has no live one
    (NoneYet), and no build comes to life again (NoRevival).
  - `BaselineCurrentHolds` and `NoticeOnceHolds` are about an agent's log, a
    sequence that grows, is cut by compaction and gets what a step adds. Both
    rest on the types (PromptKnown) and on `LastPlace`: a finite set of positions
    has a last one, from the library's well-founded minimum instead of an
    induction. BaselinesSaid says that the last baseline of log and additions is
    what was rendered; TellOnce and TellLatest number the arrivals of the sandbox
    and follow the pending notice.
* **WebProofs**, for any servers, tabs, families of sessions, repositories and
  lengths of bodies.
  - `NoOrphanClientHolds`, `OneClientHolds` from `ClientsInv`: running clients belong
    to the live mount, closing ones to the disposal the pool awaits, and during
    that there is no mount.
  - `TestHonestHolds` from `TestInv`: a test in flight tests the fields as they
    stand, in a dialog nothing can close under it. `NoBlankTabHolds` from
    `BlankInv`, which adds only what is known of tabs and calls.
  - `RequestWholeHolds`, `WholeOrCutHolds`: the two streams are described message by
    message. What is under way is exactly what one side has sent and the other
    not taken, in order (UpInOrder, DownInOrder), so the end marker is met only
    behind the last chunk; the second holds only while the call is open, since
    after an abort the runner ends its stream as if the response were whole, and
    the relay has stopped reading by then.
  - `AnchorsReadableHolds`, `RightRepositoryHolds` from `WorkspacesInv`: a temporary
    about to be renamed is whole, so metadata is whole or absent although the
    temporaries are not, and whole before its workspace is registered; a session
    was opened in a registered place.
  - `CountsMatchHolds`, `OneSandboxHolds`, `ForksApartHolds` from `RootsInv`: a
    session with an open turn, or that was served, has its root on record, and a
    repaired end is charged to the root it came to. The
    walk to the root and the lineage are recursive functions over any family of
    sessions; that the walk stays inside the lineage is shown for a least
    session that would leave it, which again needs no induction theorem.
* **StreamsProofs**, for any number of chunks, frames, inputs and queries and any
  size of the channels and tables between the processes. What is in a queue is
  described with a few lemmas about sequences that count (CountsFrom), about such
  a sequence with the exit status behind it (EndsFrom) and about what an append, a
  take and a cut leave of them, so that each invariant says which numbers each
  queue holds.
  - `FramesInOrderHolds` from `PtcInv`: the writes from the early queue through the
    request stream to the program are one count (RequestsInOrder), the frames back
    through socket, channel and stream another (Relayed), the reader ends with
    nothing left (ReaderOver), and a status that was sent is behind all of it
    (StatusLast).
  - `ClosedIsLastHolds` from `TermInv`. The handle is told that the terminal is
    quiescent by an event that waits in a queue with outputs, answers and the exit.
    The invariant says of each position of the queue how many outputs are delivered
    once it is (Tally), that no output is behind a closed event (NoOutputAfter), that
    the exit is ahead of it (ExitBefore), and what the end of the pump says about the
    PTY (PtyOver). Every action appends one event, takes one, or leaves the queue
    alone (QueueSteps), and the invariant is shown for those three. `AnswersPaired`
    is the safety half of AskSettles: one query is under way, as a request or as its
    answer (OneAsk).
  - `OutputHonestHolds`, `DrainExactHolds` from `ExecInv`: each response on its way has
    a number of chunks before it (Numbered), an exit among them is behind the last of
    a reaped command's output (ExitLast), and while the handler sends, the channel
    and the pipe go on where the stream ends, up to what the command wrote
    (Following). A broken tunnel cuts this anywhere and the order stays. TailKept
    says that the tail holds the last chunks; a read that reports no loss then
    continues what was read before (BufferRead). Nothing is assumed of the
    channel's capacity, the tail's bound or who ignores SIGTERM.
  - `LoginsKeptHolds` from `SignInv`, with tables of at least one entry: the entries
    are those of logins not exchanged yet (PendingSound), and of the youngest, as
    many as the table holds, all that are neither used nor too old are there
    (PendingKept). An entry is pushed out only by a full table, whose entries have
    different states between the oldest's and the newest's: by the pigeonhole
    principle the oldest is then too far back.

What the proofs found. TurnStable was false beyond the bounds of its run: with
three turns a list set during the first could reach the third while the second
was open in the model, because the ghost `paged` outlived the turns it was
about; the ghost is reset when the first turn of a row starts, and the run has
three turns now. `guardOf` in SandboxFiles had two CASE arms that overlapped, so
that the value was not determined; the arms are disjoint now, as in the code.
Reading McpPage against the store for these proofs showed that it let a sign-in
finish for a server whose address was edited meanwhile, which the store refuses
(`mcp-store.ts:266`). The first invariant for ExecCall let outputs be under way
before the command starts, once the tunnel is lost; nothing but an error is
(ExecStands). SignIn's tables were sequences filtered with SelectSeq, about which
the prover knows nothing; as sets of records the run explores the same 502 k
states, and LoginsKept could be proved.

Every invariant and action property that a passing run checks is stated by a
theorem. Only model-checked: the liveness properties (ServedAgain, ArchivedGone,
PutAway, Reconnects, MountFollows, CommandReaped, TerminalEnds, NavigationEnds,
WaitEnds, Released, and that every query is settled in AskSettles), which need
fairness and ENABLED, outside this prover's reach; and the properties of the
violation runs.

## Observations without a run

What reading and modelling the code showed beyond the three findings. None of
these is claimed by a property; where one limits a property, the property's
comment says so.

*Lifecycle, idle schedule, tunnel.*

* `restoreCheckpoint` looks the profile up by name (`sandbox-lifecycle.ts:711`) and
  restores on whatever backend it names now, where the control plane's README
  (line 387) asks for "the same backend".
* `replaceLostSandbox`, `restoreCheckpoint` and `claimSandbox` throw errors that
  call themselves "unreachable" when the profile is removed during one of their
  awaits (`sandbox-lifecycle.ts:586`, `676`, `713`).
* `endTurn` takes one off the count for every turn/end (`idle.ts:85`), also for the
  repaired end of a turn this process never saw begin. After a crash in a
  subagent's turn that end closes the root's running turn, and the countdown may
  suspend under it; "the key stays live until the last open turn closes"
  (`idle.ts:32`) needs two sessions and a crash to fail, so NoTurnCut is proved
  without crashes and checked with crashes for one session. CountsMatch bounds
  how much a count may lack by such ends; TurnStable is about the turns it counts.
* An `ensureRunning` that throws has cancelled the countdown and does not arm it
  again (`sandbox-manager.ts:1172`, against the comment at 1177). In a turn the
  turn's end arms it, and PutAway is checked with such failures; a browser read
  that throws leaves a running sandbox without a countdown until the session is
  used again, so PutAway is checked with reads that succeed (`"read"` not in
  `Fails`).
* A failed probe drops by sandbox id whatever is registered by then, also a new
  healthy connection (`runner-attachment.ts:181`).
* A wake that fails after it cleared the deadline (`docker.ts:115`, `kas.ts:215`)
  leaves a hibernated sandbox that nothing deletes until the session is asked
  for again or the host restarts. One session's `expireAt` that fails at boot
  rejects the whole `initialize` (`sandbox-lifecycle.ts:188`).
* A browser read checks for a record before it queues for the lock
  (`sandbox-manager.ts:663`). A release ahead of it makes it provision a new
  sandbox, also for an archived session; ArchivedGone is therefore checked
  without browser reads.
* A terminal or a background process may write between the save of a checkpoint
  and the destroy (`sandbox-lifecycle.ts:505`); that work is lost. The lock keeps
  only turns out.

*Stores.* The chain of writes that stays rejected after one failure is also in
`mcp-store.ts`, `broker.ts` and `instruction-store.ts`. `broker.ts` has the same
read that overtakes an edit in memory as `mcp-store.ts`: an edit the page made, or
the CLI, while a refresh read the file is missing from memory, and the host's next
edit writes that memory over it. EditsReach names exactly these edits and holds
for all others.

*Settings and backends.*

* The registry's constructor builds every backend and throws where one cannot be
  built, for instance when a kubeconfig does not load (`profile-registry.ts:35`,
  `kas.ts:76`); `sandbox-manager.ts:211` says an unusable value must not take the
  row down on the next restart.
* A choice of profile accepted while the session is being provisioned is dropped;
  a change of the ready timeout rebuilds every Kubernetes backend.
* Two profiles on one Buildkite cluster have a `storing` promise each, so their
  first writes may both create the secret; NoKeyClash is about one backend. A
  write that was joined does not restore a secret deleted by hand in between.
* Kubernetes: a wake that fails leaves the pod running; reclaim deletes a claim
  in the foreground and the next provision adopts it while it terminates; a
  hibernate that times out leaves the mode Suspended while health still sees
  Ready; a NotFound in `suspendRunning` forgets the record without deleting the
  claim.

*MCP.* `testConnection` frees the probe's name before its client is disposed, and
`mountEntry` does not look at probe names. `reconcile` captures what it wants
before it awaits the unmount, so a new token may be mounted with an old address
until the next reconcile. `pool.dispose` is not serialized with a reconcile.
Between a settings edit in memory and its notice (`sandbox-manager.ts:868-873`)
prompt and tools may disagree, which NeverAMix excepts. A crash between the
freeze of a choice and its write loses the freeze.

*Runner and streams.*

* `kill()` of a background command ends in the "Infrastructure failure" branch of
  `shell.ts`; the tail may be cut inside a multi-byte character.
* `terminateProcessGroup` stops at the leader's exit: a child that ignores SIGTERM
  after its leader died of it is not killed. CommandReaped is about the command.
* A write to a PTY nobody reads blocks the terminal's control loop, and with it
  queries and terminate; TermFairness assumes a reader.
* `pipe.ts`: `end()` before the program's arguments are resolved fails the run.
* `setup.go:147`: a checkout interrupted after the clone leaves the workspace at the
  wrong revision, since the retry did not clone; a partial `.git`, which a failed or
  interrupted clone may leave (`setup.go:139`), counts as initialised.
* `attachment-copies.ts:28` describes another directory than the one it uses.

*Prompts and files.*

* A later wake overwrites a restore notice that was not told yet, a notice is
  lost at a restart, and there is no hook after a release.
* `refresh()` of the file picker shares a fetch that began before the latest
  invalidation, so a directory listing asked for after a tool result may lack
  its files (`file-reference.ts:233`: "directory browsing wants to see files an
  agent just wrote"). A suspension that races the fetch's read of the state makes
  "@" wake the sandbox although an index was saved.
* `beforeHibernate` captures an index only when a client is cached
  (`file-index-hooks.ts:58`) and otherwise leaves the file of an earlier
  suspension; a session that was woken and worked in, and is put away again after
  a restart of the host, is offered that older index. `file-index.ts:53` says the
  index "stays exact until the next wake". SnapshotCurrent excepts it (`leftover`).
* `choiceSessionId` finds the root only through a live agent
  (`sandbox-manager.ts:980`) and otherwise takes the session's own id, also where
  `rootSessions` remembers the root; a choice set for a subagent's session without
  an agent is then stored in what the comment above it calls "a record nothing
  consults".

*MCP settings page.* The answer to a poll ends the page's wait for the sign-in of
its own closure, whichever the page waits for by then (`mcp.tsx:131`): a second
sign-in started while a poll of the first is in flight may lose its wait although
its tab is open and its server unchanged, where the comment (`mcp.tsx:111`) says
the page re-reads until the sign-in state moves, the tab is closed or the sign-in
is forgotten.

## What is not modelled, and what is left

Left out on purpose: generated protocol code, the other pages of the web client, media routes,
telemetry, static skills, cryptography and schema validation - stateless code,
or code without an ordering of its own. Within modelled components: the wording
of prompts, status and errors; path translation, ranking and formatting, which
are string functions; chunked transfer and size caps of checkpoints; the
headers and host names of previews; the Docker driver's own
calls, whose only state is the timer SandboxLifecycle has; OAuth discovery and
client registration; the git credential socket; the status sampler.

Bounds of the abstraction. One session stands for all where sessions share
nothing (SandboxLifecycle, KasClaims, FileReference), one server for all in
McpServers. That the two drivers implement the backend interface SandboxLifecycle
assumes - take-over of a leftover, any part of the effect of a call that throws -
was compared by hand.

What is left to prove: the drivers as refinements of one backend interface, for
which the calls of that interface would need a specification of their own.
