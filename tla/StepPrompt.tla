------------------------------ MODULE StepPrompt ------------------------------
(***************************************************************************)
(* What the host adds to a step's prompt: the instructions the operator    *)
(* keeps in the settings (instructions/*.ts) and the notice that the       *)
(* session's sandbox came back (manager/sandbox-notices.ts).               *)
(*                                                                         *)
(* The agents are those of one session tree and share its sandbox.  A text *)
(* is a number, its size; 0 is the empty text.  The log of an agent is the *)
(* part of its surface that the host wrote: baselines of instructions, and *)
(* notices.  The sandbox is its state and the way it came to run; how it   *)
(* sleeps and wakes is SandboxLifecycle's.                                 *)
(***************************************************************************)
EXTENDS Naturals, Sequences, FiniteSetsExt

CONSTANTS Team,          \* agents of the tree
          MAX_INSTRUCTIONS_BYTES,
          MaxTexts,      \* bound: edits of the instructions
          MaxSleeps,     \* bound: times the sandbox is put away or lost
          MaxSteps,      \* bound: steps of an agent
          MaxFaults      \* bound: restarts, compactions and failed steps

VARIABLES
  global, workspace, \* InstructionStore.state: the two layers
  storedText,        \* what initialize would read
  writes, poisoned,  \* writeChain: snapshots not yet on disk; a write was rejected
  box,               \* "none", "running", "hibernated", "checkpointed"
  notice,            \* SandboxNotices.pending for the session
  arrivals,          \* ghost: times the sandbox woke or was restored
  phase, steps,      \* where each agent's step is; steps begun
  asks,              \* the decision has messages, none, or none on a turn's first step
  adds,              \* what the host adds to them
  log,               \* what the host wrote on each agent's surface
  rendered,          \* ghost: the baseline of the agent's last step
  texts, sleeps, faults

promptVars == <<global, workspace, storedText, writes, poisoned, box, notice, arrivals, phase, steps, asks, adds,
                log, rendered, texts, sleeps, faults>>
storeVars == <<global, workspace, storedText, writes, poisoned, texts>>
boxVars == <<box, notice, arrivals, sleeps>>
agentVars == <<phase, steps, asks, adds, log, rendered>>

-----------------------------------------------------------------------------
(* The instructions. *)

Layers(g, w) == [global |-> g, workspace |-> w]

\* assertWithinLimit
WithinLimit(g, w) == g + w <= MAX_INSTRUCTIONS_BYTES

\* InstructionStore.persist: a snapshot joins the chain, which ends for good
\* with a write that is rejected.
persist ==
  /\ writes' = IF poisoned THEN writes ELSE Append(writes, Layers(global', workspace'))
  /\ UNCHANGED poisoned

setGlobal(text) ==
  /\ texts < MaxTexts /\ text # global /\ WithinLimit(text, workspace)
  /\ texts' = texts + 1
  /\ global' = text /\ workspace' = workspace /\ persist
  /\ UNCHANGED <<storedText, boxVars, agentVars, faults>>

setWorkspace(text) ==
  /\ texts < MaxTexts /\ text # workspace /\ WithinLimit(global, text)
  /\ texts' = texts + 1
  /\ workspace' = text /\ global' = global /\ persist
  /\ UNCHANGED <<storedText, boxVars, agentVars, faults>>

Landed ==
  /\ writes # <<>>
  /\ storedText' = Head(writes) /\ writes' = Tail(writes)
  /\ UNCHANGED <<global, workspace, poisoned, texts, boxVars, agentVars, faults>>

WriteRejected ==
  /\ writes # <<>> /\ faults < MaxFaults
  /\ faults' = faults + 1
  /\ poisoned' = TRUE /\ writes' = <<>>
  /\ UNCHANGED <<global, workspace, storedText, texts, boxVars, agentVars>>

\* renderFor: the workspace's layer only with a record to name the repository.
Baseline == Layers(global, IF box = "none" THEN 0 ELSE workspace)
Cleared == Layers(0, 0)

\* The baselines on a surface, by their places; what the latest says.
baselines(q) == {i \in DOMAIN q : q[i].kind = "instructions"}
latest(q) == q[Max(baselines(q))].text

\* mutant: an empty text is never worth a message.
upToDateWhenEmpty(a) == Baseline = Cleared \/ (baselines(log[a]) # {} /\ latest(log[a]) = Baseline)

\* latestManagedInstructions: the last baseline on the surface, and without
\* one an empty text needs no notice that it was cleared.
upToDate(a) ==
  IF baselines(log[a]) = {} THEN Baseline = Cleared ELSE latest(log[a]) = Baseline

-----------------------------------------------------------------------------
(* The sandbox and its notices. *)

Quiet == \A a \in Team : phase[a] = "rest"

\* It is suspended one way or the other, released, or lost.
PutAway(to) ==
  /\ Quiet /\ box = "running" /\ sleeps < MaxSleeps
  /\ sleeps' = sleeps + 1
  /\ box' = to
  /\ UNCHANGED <<storeVars, notice, arrivals, agentVars, faults>>

\* afterWake and afterRestore: a notice for what happened; its wording, which
\* also tells a kept machine from a new one, is left out.
noticeOf(from) == [kind |-> from, n |-> arrivals']

\* ensureRunning, with its hooks.
brought ==
  /\ box' = "running"
  /\ arrivals' = IF box \in {"hibernated", "checkpointed"} THEN arrivals + 1 ELSE arrivals
  /\ notice' = IF box \in {"hibernated", "checkpointed"} THEN noticeOf(box) ELSE notice
  /\ UNCHANGED sleeps

\* A browser's read brings a sandbox back as well, never a first one.
BrowserReads ==
  /\ box \in {"hibernated", "checkpointed"}
  /\ brought
  /\ UNCHANGED <<storeVars, agentVars, faults>>

-----------------------------------------------------------------------------
(* agent/pre-step *)

Phase(a, p) == phase' = [phase EXCEPT ![a] = p]

StepBegins(a) ==
  /\ phase[a] = "rest" /\ steps[a] < MaxSteps
  /\ steps' = [steps EXCEPT ![a] = @ + 1]
  /\ Phase(a, "ensuring")
  /\ UNCHANGED <<storeVars, boxVars, asks, adds, log, rendered, faults>>

Ensured(a) ==
  /\ phase[a] = "ensuring"
  /\ brought
  /\ Phase(a, "deciding")
  /\ UNCHANGED <<storeVars, steps, asks, adds, log, rendered, faults>>

\* It throws, or an inner listener rejects the step.
StepFails(a) ==
  /\ phase[a] \in {"ensuring", "deciding"}
  /\ Phase(a, "rest")
  /\ UNCHANGED <<storeVars, boxVars, steps, asks, adds, log, rendered, faults>>

\* next() answers, with or without messages.
Decided(a, what) ==
  /\ phase[a] = "deciding"
  /\ asks' = [asks EXCEPT ![a] = what]
  /\ Phase(a, "instructing")
  /\ UNCHANGED <<storeVars, boxVars, steps, adds, log, rendered, faults>>

\* ManagedInstructions.install, after next(): the first step of a turn goes
\* without when it has no messages.
Instructs(a) ==
  /\ phase[a] = "instructing"
  /\ LET skip == asks[a] = "first"
     IN  /\ adds' = [adds EXCEPT ![a] = IF skip \/ upToDate(a) THEN <<>>
                                         ELSE <<[kind |-> "instructions", text |-> Baseline, n |-> 0]>>]
         /\ asks' = [asks EXCEPT ![a] = IF adds'[a] = <<>> THEN @ ELSE "messages"]
         /\ rendered' = [rendered EXCEPT ![a] = IF skip THEN @ ELSE Baseline]
  /\ Phase(a, "noticing")
  /\ UNCHANGED <<storeVars, boxVars, steps, log, faults>>

\* noticeMessage
message(k, n) == [kind |-> k, text |-> Cleared, n |-> n]

\* mutant: the notice is read and stays.
NoticesStays(a) ==
  /\ phase[a] = "noticing"
  /\ adds' = [adds EXCEPT ![a] = IF asks[a] = "messages" /\ notice.n # 0
                                 THEN <<message(notice.kind, notice.n)>> \o @ ELSE @]
  /\ Phase(a, "entering")
  /\ UNCHANGED <<notice, storeVars, box, arrivals, sleeps, steps, asks, log, rendered, faults>>

\* SandboxNotices.install, after next(): the notice rides a step with messages,
\* and reading it consumes it.
Notices(a) ==
  /\ phase[a] = "noticing"
  /\ LET take == asks[a] = "messages" /\ notice.n # 0
     IN  /\ notice' = IF take THEN [kind |-> "none", n |-> 0] ELSE notice
         /\ adds' = [adds EXCEPT ![a] =
                       IF take THEN <<message(notice.kind, notice.n)>> \o @ ELSE @]
  /\ asks' = [asks EXCEPT ![a] = "none"]
  /\ Phase(a, "entering")
  /\ UNCHANGED <<storeVars, box, arrivals, sleeps, steps, log, rendered, faults>>

\* The agent loop appends the messages and runs the step.
Enters(a) ==
  /\ phase[a] = "entering"
  /\ log' = [log EXCEPT ![a] = @ \o adds[a]]
  /\ adds' = [adds EXCEPT ![a] = <<>>]
  /\ Phase(a, "rest")
  /\ UNCHANGED <<storeVars, boxVars, steps, asks, rendered, faults>>

\* The surface is compacted: what was on it no longer is.
Compacts(a) ==
  /\ phase[a] = "rest" /\ log[a] # <<>> /\ faults < MaxFaults
  /\ faults' = faults + 1
  /\ log' = [log EXCEPT ![a] = <<>>]
  /\ rendered' = [rendered EXCEPT ![a] = Cleared]
  /\ UNCHANGED <<storeVars, boxVars, phase, steps, asks, adds>>

\* The host restarts: memory comes from the file, notices and steps are gone.
HostRestarts ==
  /\ faults < MaxFaults
  /\ faults' = faults + 1
  /\ global' = storedText.global /\ workspace' = storedText.workspace /\ writes' = <<>> /\ poisoned' = FALSE
  /\ notice' = [kind |-> "none", n |-> 0]
  /\ phase' = [a \in Team |-> "rest"] /\ adds' = [a \in Team |-> <<>>] /\ asks' = [a \in Team |-> "none"]
  /\ rendered' = [a \in Team |-> IF baselines(log[a]) = {} THEN Cleared ELSE latest(log[a])]
  /\ UNCHANGED <<storedText, texts, box, arrivals, sleeps, steps, log>>

-----------------------------------------------------------------------------

PromptInit ==
  /\ global = 0 /\ workspace = 0 /\ storedText = Cleared /\ writes = <<>> /\ poisoned = FALSE /\ texts = 0
  /\ box = "none" /\ notice = [kind |-> "none", n |-> 0] /\ arrivals = 0 /\ sleeps = 0
  /\ phase = [a \in Team |-> "rest"] /\ steps = [a \in Team |-> 0] /\ asks = [a \in Team |-> "none"]
  /\ adds = [a \in Team |-> <<>>] /\ log = adds /\ rendered = [a \in Team |-> Cleared] /\ faults = 0

PromptNext ==
  \/ \E text \in 0 .. MAX_INSTRUCTIONS_BYTES : setGlobal(text) \/ setWorkspace(text)
  \/ Landed \/ WriteRejected \/ BrowserReads \/ HostRestarts
  \/ \E to \in {"hibernated", "checkpointed", "none"} : PutAway(to)
  \/ \E a \in Team : \/ StepBegins(a) \/ Ensured(a) \/ StepFails(a) \/ Instructs(a) \/ Notices(a)
                     \/ Enters(a) \/ Compacts(a)
                     \/ \E what \in {"messages", "none", "first"} : Decided(a, what)

PromptSpec == PromptInit /\ [][PromptNext]_promptVars

-----------------------------------------------------------------------------

\* A step runs under the instructions the operator had when it was composed:
\* the last baseline on the agent's surface is that one, and a cleared one is
\* said to be cleared, whatever was sent, cleared, compacted or repeated before.
BaselineCurrent ==
  \A a \in Team : phase[a] = "rest" =>
    IF baselines(log[a]) = {} THEN rendered[a] = Cleared ELSE latest(log[a]) = rendered[a]

\* "the notice rides exactly one step" (take): however many agents of the tree
\* step at once, and whichever of their steps fail or have nothing to say, an
\* arrival of the sandbox is told once, in order, and the latest is told or
\* still waits to be.
NoticeOnce ==
  LET surface(a) == log[a] \o adds[a]
      told(a) == {i \in DOMAIN surface(a) : surface(a)[i].n # 0}
  IN  /\ \A a, b \in Team : \A i \in told(a), j \in told(b) :
           surface(a)[i].n = surface(b)[j].n => a = b /\ i = j
      /\ \A a \in Team : \A i, j \in told(a) : i < j => surface(a)[i].n < surface(a)[j].n
      /\ faults = 0 /\ arrivals > 0 =>
           notice.n = arrivals \/ \E a \in Team : \E i \in told(a) : surface(a)[i].n = arrivals
=============================================================================
