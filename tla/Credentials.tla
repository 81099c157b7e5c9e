----------------------------- MODULE Credentials -----------------------------
(***************************************************************************)
(* Secrets and git credentials: the broker's file with its memory and its  *)
(* chain of writes (broker.ts), the edits of the settings page and of the  *)
(* companion CLI, and the push to a session's runner before every command  *)
(* (runner-attachment.ts), which keeps them in memory (service.go).        *)
(*                                                                         *)
(* A copy of the store is the set of edits it contains; an edit stores or  *)
(* deletes a secret of the global scope or of the sessions' workspace, or  *)
(* changes the table of git hosts.  Sessions in `scratch` have no          *)
(* workspace.  One session's calls are serialised by the lifecycle's lock. *)
(***************************************************************************)
EXTENDS Naturals, Sequences, FiniteSets

CONSTANTS Sessions, \* sessions with a running sandbox
          Scratch,  \* those without a repository
          MaxKeyEdits,\* bound: edits
          MaxPushes \* bound: calls

VARIABLES
  held,      \* CredentialBroker.state
  onDisk,    \* the broker's file
  chain,     \* writeChain: snapshots to write
  landed,    \* writes that are done
  keyEdits,  \* edits made: their kinds in order
  acked,     \* edits whose caller has its answer
  push,      \* each session's call; the page's read is "page"
  pushes,    \* calls so far
  secretsOf, \* Service.secrets of each session's runner
  gitOf,     \* Service.credentials of each session's runner
  outside,   \* ghost: the edits of the CLI
  overtaken, \* ghost: edits made while a refresh was under way
  passedOver \* ghost: edits of those two that a write of the host leaves out

ghosts == <<outside, overtaken, passedOver>>
credVars == <<held, onDisk, chain, landed, keyEdits, acked, push, pushes, secretsOf, gitOf, ghosts>>

SecretKinds == {"global", "workspace", "git"}
Readers == Sessions \cup {"page"}
NoCall == [at |-> "idle", after |-> 0, copy |-> {}, floor |-> {}]
ofKind(S, K) == {e \in S : keyEdits[e] \in K}

refreshing == \E r \in Readers : push[r].at \in {"chain", "apply"}
overtake(e) == overtaken' = overtaken \cup (IF refreshing THEN {e} ELSE {})

\* The edits on disk, and those that are to be once the writes are done.
written == onDisk \cup UNION {chain[i] : i \in 1..Len(chain)}

\* CredentialBroker.secrets: a workspace sees the global scope and its own.
secrets(s, copy) == ofKind(copy, IF s \in Scratch THEN {"global"} ELSE {"global", "workspace"})

\* resolvedGitCredentials: the table, and the secrets that answer it.  The
\* scope is that of the repository, which for a scratch session is empty.
gitCredentials(s, copy) == ofKind(copy, IF s \in Scratch THEN {"global", "git"} ELSE SecretKinds)

-----------------------------------------------------------------------------
(* The broker. *)

\* setSecret, deleteSecret, setGitHost, deleteGitHost with persist: memory at
\* once, a snapshot behind the writes under way.
Edit(k) ==
  /\ Len(keyEdits) < MaxKeyEdits
  /\ LET e == Len(keyEdits) + 1
     IN  /\ keyEdits' = Append(keyEdits, k)
         /\ held' = held \cup {e}
         /\ chain' = Append(chain, held \cup {e})
         /\ overtake(e)
  /\ passedOver' = passedOver \cup ((written \ held) \cap (overtaken \cup outside))
  /\ UNCHANGED <<onDisk, landed, acked, push, pushes, secretsOf, gitOf, outside>>

\* The rename of one write; the callers whose edits it holds are answered.
Persisted ==
  /\ chain # <<>>
  /\ onDisk' = Head(chain)
  /\ chain' = Tail(chain)
  /\ landed' = landed + 1
  /\ acked' = acked \cup Head(chain)
  /\ UNCHANGED <<held, keyEdits, push, pushes, secretsOf, gitOf, ghosts>>

\* The companion CLI replaces the file.
OutsideEdit(k) ==
  /\ Len(keyEdits) < MaxKeyEdits
  /\ LET e == Len(keyEdits) + 1
     IN  /\ keyEdits' = Append(keyEdits, k)
         /\ onDisk' = onDisk \cup {e}
         /\ acked' = acked \cup {e}
         /\ outside' = outside \cup {e}
         /\ overtake(e)
         /\ passedOver' = passedOver \cup (IF chain = <<>> THEN {} ELSE {e})
  /\ UNCHANGED <<held, chain, landed, push, pushes, secretsOf, gitOf>>

-----------------------------------------------------------------------------
(* A push to a runner, or the page's read. *)

\* pushCredentials and getSecrets begin with refresh, which waits for the
\* writes that are queued by now.
Call(r) ==
  /\ push[r].at \in {"idle", "ready"} /\ pushes < MaxPushes
  /\ pushes' = pushes + 1
  /\ push' = [push EXCEPT ![r] = [at |-> "chain", after |-> landed + Len(chain), copy |-> {},
                                  floor |-> acked]]
  /\ UNCHANGED <<held, onDisk, chain, landed, keyEdits, acked, secretsOf, gitOf, ghosts>>

\* mutant: refresh reads without waiting for its own writes.
ReadFileAtOnce(r) ==
  /\ push[r].at = "chain"
  /\ push' = [push EXCEPT ![r].at = "apply", ![r].copy = onDisk]
  /\ UNCHANGED <<held, onDisk, chain, landed, keyEdits, acked, pushes, secretsOf, gitOf, ghosts>>

\* refresh: the chain is over, the file is read.
ReadFile(r) ==
  /\ push[r].at = "chain" /\ landed >= push[r].after
  /\ push' = [push EXCEPT ![r].at = "apply", ![r].copy = onDisk]
  /\ UNCHANGED <<held, onDisk, chain, landed, keyEdits, acked, pushes, secretsOf, gitOf, ghosts>>

\* refresh: what was read replaces the memory.  A push sends the secrets of
\* that very copy.
Refreshed(r) ==
  /\ push[r].at = "apply"
  /\ held' = push[r].copy
  /\ push' = [push EXCEPT ![r] = IF r = "page" THEN NoCall ELSE [@ EXCEPT !.at = "secrets"]]
  /\ UNCHANGED <<onDisk, chain, landed, keyEdits, acked, pushes, secretsOf, gitOf, ghosts>>

\* SetSecrets replaces the whole environment.
SetSecrets(s) ==
  /\ push[s].at = "secrets"
  /\ push' = [push EXCEPT ![s].at = "git", ![s].copy = {}]
  /\ secretsOf' = [secretsOf EXCEPT ![s] = secrets(s, push[s].copy)]
  /\ UNCHANGED <<held, onDisk, chain, landed, keyEdits, acked, pushes, gitOf, ghosts>>

\* SetGitCredentials: resolved when SetSecrets has answered, from the memory
\* of that moment.
SetGitCredentials(s) ==
  /\ push[s].at = "git"
  /\ push' = [push EXCEPT ![s].at = "ready"]
  /\ gitOf' = [gitOf EXCEPT ![s] = gitCredentials(s, held)]
  /\ UNCHANGED <<held, onDisk, chain, landed, keyEdits, acked, pushes, secretsOf, ghosts>>

\* A step of the push fails: reuseCached evicts the client.
PushFails(s) ==
  /\ push[s].at \in {"secrets", "git"}
  /\ push' = [push EXCEPT ![s] = NoCall]
  /\ UNCHANGED <<held, onDisk, chain, landed, keyEdits, acked, pushes, secretsOf, gitOf, ghosts>>

\* The runner process restarts: it has nothing until the next push.
RunnerRestarts(s) ==
  /\ push[s].at # "idle"
  /\ push' = [push EXCEPT ![s] = NoCall]
  /\ secretsOf' = [secretsOf EXCEPT ![s] = {}]
  /\ gitOf' = [gitOf EXCEPT ![s] = {}]
  /\ UNCHANGED <<held, onDisk, chain, landed, keyEdits, acked, pushes, ghosts>>

CredInit ==
  /\ held = {} /\ onDisk = {} /\ chain = <<>> /\ landed = 0
  /\ keyEdits = <<>> /\ acked = {}
  /\ push = [r \in Readers |-> NoCall] /\ pushes = 0
  /\ secretsOf = [s \in Sessions |-> {}] /\ gitOf = [s \in Sessions |-> {}]
  /\ outside = {} /\ overtaken = {} /\ passedOver = {}

CredNext ==
  \/ \E k \in SecretKinds : Edit(k) \/ OutsideEdit(k)
  \/ Persisted
  \/ \E r \in Readers : Call(r) \/ ReadFile(r) \/ Refreshed(r)
  \/ \E s \in Sessions : SetSecrets(s) \/ SetGitCredentials(s) \/ PushFails(s) \/ RunnerRestarts(s)

CredSpec == CredInit /\ [][CredNext]_credVars

-----------------------------------------------------------------------------

\* The file keeps every edit that was answered, and a command runs with every
\* edit that was answered before its call began, however the refreshes, writes
\* and pushes of the sessions, the page and the CLI overlap.  The code loses
\* only an edit made during a refresh or by the CLI, and those only when memory
\* does not have it at the host's next edit, or the host's write was queued
\* before (passedOver).  And the git table is taken from memory later than the
\* secrets: an edit made during a refresh may be missing from it, because
\* another session's refresh has put the older file back.
EditsReach ==
  /\ acked \ passedOver \subseteq onDisk
  /\ \A s \in Sessions : push[s].at = "ready" =>
       /\ push[s].floor \cap secrets(s, acked \ passedOver) \subseteq secretsOf[s]
       /\ push[s].floor \cap gitCredentials(s, acked \ (passedOver \cup overtaken)) \subseteq gitOf[s]
=============================================================================
