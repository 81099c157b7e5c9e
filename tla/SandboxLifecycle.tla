--------------------------- MODULE SandboxLifecycle ---------------------------
(***************************************************************************)
(* The lifecycle of ONE session's sandbox: the state machine of            *)
(* sandbox/manager/sandbox-lifecycle.ts together with what it drives - the *)
(* session record (in memory and on disk), the checkpoint files, the       *)
(* cached runner client and the sandbox backends.                          *)
(*                                                                         *)
(* Every operation of a session runs under the session's promise-chain     *)
(* lock (serialize), so at most one is in progress.  `pc' is the await the *)
(* lock holder is suspended on ("free" when nobody holds the lock); one    *)
(* action is the code between two awaits.  A host crash, the loss of a     *)
(* sandbox, a deadline passing and a change of the profile settings can    *)
(* happen at every await.                                                  *)
(*                                                                         *)
(* Records, locks and checkpoint files are keyed by session id, and a      *)
(* backend finds a sandbox by its session's name or label, so sessions do  *)
(* not meet in this machine; one session is enough.                        *)
(***************************************************************************)
EXTENDS Integers

CONSTANTS
    Kinds,       \* the backend kinds configured on this host
    Moves,       \* what the operator may do to the session's profile
    MaxBox,      \* bound: sandbox ids, reused once nothing names them
    MaxWork,     \* bound: pieces of work ever done
    MaxCrash,    \* bound: host crashes
    MaxMoves,    \* bound: profile changes
    WritesFail   \* whether a write of the session state file can fail

AllKinds == {"docker", "kas", "buildkite"}
AllMoves == {"edit", "remove", "repoint"}

ASSUME KindsAssumption  == Kinds \subseteq AllKinds /\ Kinds # {}
ASSUME MovesAssumption  == Moves \subseteq AllMoves
ASSUME BoundsAssumption == /\ MaxBox \in Nat /\ MaxWork \in Nat
                           /\ MaxCrash \in Nat /\ MaxMoves \in Nat
ASSUME WritesAssumption == WritesFail \in BOOLEAN

VARIABLES
    rec,      \* SessionStore.get: the session's record in memory
    disk,     \* the record in the session state file
    chain,    \* SessionStore.writeChain: a write that failed leaves it rejected
    bundle,   \* version of the work in <session>.bundle, or NoFile
    tar,      \* version of the artifacts in <session>.artifacts.tar, or NoFile
    client,   \* RunnerAttachment.clients: sandbox id of the cached runner, or 0
    box,      \* per kind: the one sandbox the backend keeps for the session
    profile,  \* backend kind the record's profile name resolves to, or "removed"
    pc,       \* what the lock holder awaits
    then,     \* where it continues after a write of the state file
    after,    \* where it continues after forgetSession or a claim
    held,     \* the record the lock holder works on
    ev,       \* "boot" while boot recovery runs, "op" otherwise
    outcome,  \* how the last operation ended
    head,     \* ghost: the version of the work the session is owed
    crashes, moves

vars == <<rec, disk, chain, bundle, tar, client, box, profile, pc, then,
          after, held, ev, outcome, head, crashes, moves>>

-----------------------------------------------------------------------------
(* Data *)

NoFile    == -1
Deadline  == {"none", "future", "past"}
RecState  == {"absent", "running", "hibernated", "checkpointed"}

\* core/types.ts: the fields of RunningRecord, HibernatedRecord and
\* CheckpointedRecord.  `sb' is the sandbox id, `dl' expiresAt, `cp' the
\* checkpointed commit and `arts' the artifacts tar saved with it, or NoFile.
Fields == [state : RecState, backend : AllKinds \cup {"none"}, sb : Nat,
           dl : Deadline, cp : Int, arts : Int]

Absent == [state |-> "absent", backend |-> "none", sb |-> 0, dl |-> "none",
           cp |-> NoFile, arts |-> NoFile]

RunningRecord(k, id) ==
    [state |-> "running", backend |-> k, sb |-> id, dl |-> "none",
     cp |-> NoFile, arts |-> NoFile]

HibernatedRecord(r) ==
    [state |-> "hibernated", backend |-> r.backend, sb |-> r.sb, dl |-> r.dl,
     cp |-> NoFile, arts |-> NoFile]

CheckpointedRecord(r) ==
    [state |-> "checkpointed", backend |-> r.backend, sb |-> 0, dl |-> r.dl,
     cp |-> r.cp, arts |-> r.arts]

\* The discriminated union: only a session without a live sandbox carries a
\* deadline, only a checkpointed one a checkpoint, and that one no sandbox.
WellFormed(r) ==
    \/ r = Absent
    \/ r.state = "running" /\ r = RunningRecord(r.backend, r.sb)
    \/ r.state = "hibernated" /\ r.dl # "none" /\ r.cp = NoFile /\ r.arts = NoFile
    \/ r.state = "checkpointed" /\ r.dl # "none" /\ r.cp # NoFile /\ r.sb = 0

\* What a backend keeps for the session: `tree' is the version of the work in
\* its workspace, `dl' the deletion deadline the current backend object or the
\* cluster holds, `stray' a deadline held by a timer of a replaced DockerBackend.
Box == [id : Nat, st : {"none", "up", "parked"}, tree : Nat,
        dl : Deadline, stray : Deadline]

Sandbox(id, st, tree, dl, stray) ==
    [id |-> id, st |-> st, tree |-> tree, dl |-> dl, stray |-> stray]

Pcs == {"free", "down", "broken", "persist", "forgetFiles", "reclaim",
        "fresh", "reuse", "health", "wake", "attach", "replaceDestroy",
        "claim", "load", "restoreAttach", "restoreUndo", "restoreRemove",
        "park", "parkExpire", "cpRunner", "cpSave", "cpBundle", "cpTar",
        "cpDestroy", "suspendEnd", "relDestroy", "bootExpire"}

supportsHibernate(k) == k # "buildkite"
HostTimers(k)        == k = "docker"

\* ProfileRegistry.findBackend: the record's profile name still resolves to a
\* backend of the kind that made the record's sandbox.
findBackend(r) == profile = r.backend

Live(r)  == r.backend \in Kinds /\ box[r.backend].id = r.sb
                                /\ box[r.backend].st # "none"
Up(r)    == Live(r) /\ box[r.backend].st = "up"

hasExpired(r) == r.state \in {"hibernated", "checkpointed"} /\ r.dl = "past"

Gone(b) == Sandbox(b.id, "none", b.tree, "none", "none")

\* backend.destroy of the sandbox a record names; one already gone is fine.
destroyed(r) == IF Live(r) THEN [box EXCEPT ![r.backend] = Gone(@)] ELSE box

\* Types, and the records of both stores are of one of the declared shapes.
TypeOK ==
    /\ rec \in Fields /\ disk \in Fields /\ held \in Fields
    /\ WellFormed(rec) /\ WellFormed(disk)
    /\ {rec.backend, disk.backend, held.backend} \subseteq Kinds \cup {"none"}
    /\ chain \in {"resolved", "rejected"}
    /\ bundle \in Int /\ tar \in Int
    /\ client \in Nat
    /\ box \in [Kinds -> Box]
    /\ profile \in Kinds \cup {"removed"}
    /\ pc \in Pcs /\ then \in Pcs /\ after \in Pcs /\ ev \in {"op", "boot"}
    /\ outcome \in {"none", "served", "ok", "failed"}
    /\ head \in Nat /\ crashes \in Nat /\ moves \in Nat

Init ==
    /\ rec = Absent /\ disk = Absent /\ held = Absent
    /\ chain = "resolved"
    /\ bundle = NoFile /\ tar = NoFile
    /\ client = 0
    /\ box = [k \in Kinds |-> Sandbox(0, "none", 0, "none", "none")]
    /\ profile \in Kinds
    /\ pc = "free" /\ then = "free" /\ after = "free" /\ ev = "op"
    /\ outcome = "none"
    /\ head = 0 /\ crashes = 0 /\ moves = 0


-----------------------------------------------------------------------------
(* The lock and the store *)

store  == <<rec, disk, chain>>
files  == <<bundle, tar>>
bounds == <<crashes, moves>>

\* The operation ends and the lock is released.  A boot recovery that throws
\* leaves `ready' rejected: the host is up and refuses everything.
Return(o) ==
    /\ pc' = IF ev = "boot" /\ o # "ok" THEN "broken" ELSE "free"
    /\ then' = "free" /\ after' = "free" /\ held' = Absent /\ ev' = "op"
    /\ outcome' = o

Throw == Return("failed")

\* The lock holder continues at the next await.
Goto(p) == pc' = p /\ UNCHANGED <<then, after, held, ev, outcome>>

\* SessionStore.set and .delete change memory at once and await the write.
Set(r, next) == rec' = r /\ pc' = "persist" /\ then' = next
                         /\ UNCHANGED <<disk, chain, ev, outcome>>

\* forgetSession: delete the record, then the checkpoint files.
forgetSession(next) == Set(Absent, "forgetFiles") /\ after' = next

\* SessionStore.persist: write a temporary file and rename it.  A rejected
\* write rejects the chain, and every later write with it.
Persist ==
    /\ pc = "persist"
    /\ \/ /\ chain = "resolved"
          /\ disk' = rec
          /\ Goto(then)
          /\ UNCHANGED chain
       \/ /\ chain = "rejected" \/ WritesFail
          /\ chain' = "rejected"
          /\ Throw
          /\ UNCHANGED disk
    /\ UNCHANGED <<rec, files, client, box, profile, head, bounds>>

\* forgetSession after the record: the files go, then the afterRelease hooks.
ForgetFiles ==
    /\ pc = "forgetFiles"
    /\ \/ bundle' = NoFile /\ tar' = NoFile /\ (Goto(after) \/ Throw)
       \/ UNCHANGED files /\ Throw
    /\ UNCHANGED <<store, client, box, profile, head, bounds>>

-----------------------------------------------------------------------------
(* ensureRunning *)

\* react: dispatch on the state of the record.  Expiry is consulted first.
EnsureRunning ==
    /\ pc = "free"
    /\ \/ /\ hasExpired(rec) /\ rec.state = "hibernated" /\ findBackend(rec)
          /\ pc' = "reclaim" /\ held' = rec /\ head' = 0
          /\ UNCHANGED <<store, then, after, ev, outcome>>
       \/ /\ hasExpired(rec) /\ rec.state = "checkpointed"
          /\ forgetSession("fresh") /\ held' = rec /\ head' = 0
       \/ /\ rec.state = "absent" /\ profile # "removed"
          /\ Goto("fresh") /\ UNCHANGED <<store, head>>
       \/ /\ rec.state = "running"
          /\ pc' = "reuse" /\ held' = rec
          /\ UNCHANGED <<store, then, after, ev, outcome, head>>
       \/ /\ rec.state = "hibernated" /\ ~hasExpired(rec) /\ findBackend(rec)
          /\ pc' = "wake" /\ held' = rec
          /\ UNCHANGED <<store, then, after, ev, outcome, head>>
       \/ /\ rec.state = "checkpointed" /\ ~hasExpired(rec)
          /\ pc' = "load" /\ held' = rec
          /\ UNCHANGED <<store, then, after, ev, outcome, head>>
       \/ /\ \/ rec.state = "hibernated" /\ ~findBackend(rec)
             \/ rec.state = "absent" /\ profile = "removed"
          /\ Throw /\ UNCHANGED <<store, head>>
    /\ UNCHANGED <<files, client, box, profile, bounds>>

\* reclaimExpired: destroy what a lapsed hibernated record names.
Reclaim ==
    /\ pc = "reclaim"
    /\ \/ box' = destroyed(held) /\ forgetSession("fresh") /\ UNCHANGED held
       \/ box' \in {box, destroyed(held)} /\ Throw /\ UNCHANGED store
    /\ UNCHANGED <<files, client, profile, head, bounds>>

\* provisionFresh awaits the repository, then claims a sandbox.
Fresh ==
    /\ pc = "fresh"
    /\ \/ /\ pc' = "claim" /\ after' = "claim" /\ held' = Absent
          /\ UNCHANGED <<then, ev, outcome>>
       \/ Throw
    /\ UNCHANGED <<store, files, client, box, profile, head, bounds>>

\* The ids nothing in the system names; a backend never gives out another.
FreeIds == {i \in 1..MaxBox :
              /\ i \notin {rec.sb, disk.sb, held.sb, client}
              /\ \A k \in Kinds : box[k].id # i}

\* backend.provision: a sandbox left behind under the session's name or label
\* is taken over, otherwise a new one is created.
provision(k) ==
    IF box[k].st # "none"
    THEN box' = [box EXCEPT ![k].st = "up"]
    ELSE \E i \in FreeIds :
            /\ \A j \in FreeIds : i <= j
            /\ box' = [box EXCEPT ![k] = Sandbox(i, "up", 0, "none", "none")]

\* Mutant: the running record is stored before the checkpoint is restored.
ClaimRecordsFirst ==
    /\ pc = "claim" /\ profile # "removed"
    /\ provision(profile)
    /\ held' = RunningRecord(profile, box'[profile].id)
    /\ Set(held', after)
    /\ UNCHANGED <<after, files, client, profile, head, bounds>>

\* claimSandbox, and provision's store.set unless a checkpoint waits to be
\* restored first.  A provision that fails may have created the sandbox.
Claim ==
    /\ pc = "claim"
    /\ IF profile = "removed"
       THEN Throw /\ UNCHANGED <<store, box>>
       ELSE \/ /\ provision(profile)
               /\ held' = RunningRecord(profile, box'[profile].id)
               /\ IF after = "restoreAttach"
                  THEN pc' = after /\ UNCHANGED <<store, then, ev, outcome>>
                  ELSE Set(held', "attach")
               /\ UNCHANGED after
            \/ /\ provision(profile) \/ UNCHANGED box
               /\ Throw /\ UNCHANGED store
    /\ UNCHANGED <<files, client, profile, head, bounds>>

\* RunnerAttachment.attach: only the runner of the record's own sandbox answers
\* the identity check.
Attach ==
    /\ pc = "attach"
    /\ \/ Up(held) /\ client' = held.sb /\ Return("served")
       \/ Throw /\ UNCHANGED client
    /\ UNCHANGED <<store, files, box, profile, head, bounds>>

\* RunnerAttachment.reuseCached: any failure evicts the cached client.
Reuse ==
    /\ pc = "reuse"
    /\ \/ /\ client # 0 /\ client = held.sb /\ Up(held)
          /\ Return("served") /\ UNCHANGED client
       \/ /\ client' = 0
          /\ IF findBackend(held) THEN Goto("health") ELSE Throw
    /\ UNCHANGED <<store, files, box, profile, head, bounds>>

\* serveRunning: a healthy sandbox is attached again, a dead one is woken.
Health ==
    /\ pc = "health"
    /\ \/ Up(held) /\ Goto("attach")
       \/ ~Up(held) /\ findBackend(held) /\ Goto("wake")
       \/ Throw
    /\ UNCHANGED <<store, files, client, box, profile, head, bounds>>

\* backend.wake clears the deadline this backend object or the cluster holds
\* before it starts the sandbox, so a wake that throws leaves any prefix.
Awake(b)       == Sandbox(b.id, "up", b.tree, "none", b.stray)
WakeEffects(b) == {b, [b EXCEPT !.dl = "none"], Awake(b)}

\* The record of a woken sandbox: running, and no deadline any more.
woken(r) == RunningRecord(r.backend, r.sb)

\* wakeOrReplace: the record says running before the runner is attached.
Wake ==
    /\ pc = "wake"
    /\ \/ /\ Live(held)
          /\ box' = [box EXCEPT ![held.backend] = Awake(@)]
          /\ held' = woken(held)
          /\ Set(held', "attach") /\ UNCHANGED after
       \/ ~Live(held) /\ Goto("replaceDestroy") /\ UNCHANGED <<store, box>>
       \/ /\ \E b \in WakeEffects(box[held.backend]) :
                 box' = IF Live(held) THEN [box EXCEPT ![held.backend] = b]
                                      ELSE box
          /\ Throw /\ UNCHANGED store
    /\ UNCHANGED <<files, client, profile, head, bounds>>

\* replaceLostSandbox: leftovers are destroyed whatever that answers, the
\* record goes, and a replacement is claimed under the same profile.
ReplaceDestroy ==
    /\ pc = "replaceDestroy"
    /\ box' \in {box, destroyed(held)}
    /\ forgetSession("claim") /\ UNCHANGED held
    /\ UNCHANGED <<files, client, profile, head, bounds>>

-----------------------------------------------------------------------------
(* ensureRunning of a checkpointed session *)

\* Mutant: the checkpoint files go as soon as they are read.
LoadRemoving ==
    /\ pc = "load"
    /\ \/ /\ bundle # NoFile /\ profile # "removed"
          /\ pc' = "claim" /\ after' = "restoreAttach"
          /\ bundle' = NoFile /\ tar' = NoFile
          /\ UNCHANGED <<then, held, ev, outcome>>
       \/ bundle = NoFile /\ Throw /\ UNCHANGED files
    /\ UNCHANGED <<store, client, box, profile, head, bounds>>

\* restoreCheckpoint: the bundle is read first, so a lost one fails before a
\* sandbox is spent on it.
Load ==
    /\ pc = "load"
    /\ \/ /\ bundle # NoFile /\ profile # "removed"
          /\ pc' = "claim" /\ after' = "restoreAttach"
          /\ UNCHANGED <<then, held, ev, outcome>>
       \/ Throw
    /\ UNCHANGED <<store, files, client, box, profile, head, bounds>>

\* The restore script refuses a commit that neither the bundle brought nor the
\* clone has.
HasCommit == bundle = rec.cp \/ box[held.backend].tree >= rec.cp

\* Attach to the claimed sandbox and unpack the checkpoint in it.  A restore
\* that fails may have moved the working tree already.
RestoreAttach ==
    /\ pc = "restoreAttach"
    /\ \/ /\ Up(held) /\ HasCommit
          /\ box' = [box EXCEPT ![held.backend].tree = rec.cp]
          /\ client' = held.sb
          /\ Set(held, "restoreRemove") /\ UNCHANGED <<after, held>>
       \/ /\ \/ UNCHANGED box
             \/ /\ Up(held) /\ HasCommit
                /\ box' = [box EXCEPT ![held.backend].tree = rec.cp]
          /\ Goto("restoreUndo") /\ UNCHANGED <<store, client>>
    /\ UNCHANGED <<files, profile, head, bounds>>

\* The sandbox of a failed restore is destroyed; the record stays checkpointed.
\* backendFor throws first when the profile moved meanwhile.
RestoreUndo ==
    /\ pc = "restoreUndo"
    /\ IF findBackend(held)
       THEN box' \in {box, destroyed(held)} /\ client' = 0
       ELSE UNCHANGED <<box, client>>
    /\ Throw
    /\ UNCHANGED <<store, files, profile, head, bounds>>

\* The restored record is on disk: the checkpoint files go.
RestoreRemove ==
    /\ pc = "restoreRemove"
    /\ \/ bundle' = NoFile /\ tar' = NoFile /\ Return("served")
       \/ UNCHANGED files /\ Throw
    /\ UNCHANGED <<store, client, box, profile, head, bounds>>

-----------------------------------------------------------------------------
(* hibernate *)

\* suspendRunning; a session that is not running has nothing to suspend.  The
\* deadline is computed before the sandbox is asked to stop.
Hibernate ==
    /\ pc = "free" /\ rec.state = "running"
    /\ IF findBackend(rec)
       THEN /\ pc' = IF supportsHibernate(rec.backend) THEN "park" ELSE "cpRunner"
            /\ held' = [rec EXCEPT !.dl = "future"]
            /\ UNCHANGED <<then, after, ev, outcome>>
       ELSE Throw
    /\ UNCHANGED <<store, files, client, box, profile, head, bounds>>

\* A SandboxNotFoundError anywhere in the suspension forgets the session.
NotFound == forgetSession("suspendEnd") /\ UNCHANGED held

\* Mutant: the deadline is put on the sandbox before it is stopped.
ParkExpiringFirst ==
    /\ pc = "park" /\ Live(held)
    /\ \/ /\ box' = [box EXCEPT ![held.backend].st = "parked",
                                ![held.backend].dl = held.dl]
          /\ Goto("parkExpire")
       \/ box' = [box EXCEPT ![held.backend].dl = held.dl] /\ Throw
    /\ UNCHANGED <<store, files, client, profile, head, bounds>>

\* hibernateSandbox, backend.hibernate.
Park ==
    /\ pc = "park"
    /\ \/ /\ Live(held) /\ box' = [box EXCEPT ![held.backend].st = "parked"]
          /\ Goto("parkExpire") /\ UNCHANGED store
       \/ ~Live(held) /\ NotFound /\ UNCHANGED box
       \/ /\ \/ UNCHANGED box
             \/ Live(held) /\ box' = [box EXCEPT ![held.backend].st = "parked"]
          /\ Throw /\ UNCHANGED store
    /\ UNCHANGED <<files, client, profile, head, bounds>>

\* hibernateSandbox, backend.expireAt, then the hibernated record.  Docker arms
\* a timer in this process and never throws; the cluster stores the deadline.
ParkExpire ==
    /\ pc = "parkExpire"
    /\ \/ /\ Live(held) \/ HostTimers(held.backend)
          /\ box' = IF Live(held) THEN [box EXCEPT ![held.backend].dl = held.dl]
                                  ELSE box
          /\ Set(HibernatedRecord(held), "suspendEnd")
          /\ UNCHANGED <<after, held>>
       \/ /\ ~HostTimers(held.backend) /\ ~Live(held)
          /\ NotFound /\ UNCHANGED box
       \/ ~HostTimers(held.backend) /\ Throw /\ UNCHANGED <<box, store>>
    /\ UNCHANGED <<files, client, profile, head, bounds>>

\* runnerForCheckpoint: the cached runner, or reconnect to a sandbox the
\* backend still reports running.
CpRunner ==
    /\ pc = "cpRunner"
    /\ \/ client # 0 /\ Goto("cpSave") /\ UNCHANGED <<store, client>>
       \/ client = 0 /\ Up(held) /\ client' = held.sb /\ Goto("cpSave")
                     /\ UNCHANGED store
       \/ client = 0 /\ ~Up(held) /\ NotFound /\ UNCHANGED client
       \/ client = 0 /\ Throw /\ UNCHANGED <<store, client>>
    /\ UNCHANGED <<files, box, profile, head, bounds>>

\* The record with what was saved: the commit, and whether artifacts came along.
saved(r, commit, a) ==
    [state |-> r.state, backend |-> r.backend, sb |-> r.sb, dl |-> r.dl,
     cp |-> commit, arts |-> a]

\* saveCheckpoint: the work as it is in the sandbox, with the artifacts folder
\* or without it (empty, over the cap, or its save failed).
CpSave ==
    /\ pc = "cpSave"
    /\ \/ /\ Up(held) /\ client = held.sb
          /\ \E a \in {box[held.backend].tree, NoFile} :
                held' = saved(held, box[held.backend].tree, a)
          /\ pc' = "cpBundle" /\ UNCHANGED <<then, after, ev, outcome>>
       \/ Throw
    /\ UNCHANGED <<store, files, client, box, profile, head, bounds>>

\* CheckpointStore.save, the bundle.
CpBundle ==
    /\ pc = "cpBundle"
    /\ \/ bundle' = held.cp /\ Goto("cpTar")
       \/ UNCHANGED bundle /\ Throw
    /\ UNCHANGED <<store, tar, client, box, profile, head, bounds>>

\* CheckpointStore.save, the artifacts tar: written, or a stale one removed.
saveTarKeepsStale == tar' = IF held.arts = NoFile THEN tar ELSE held.arts  \* mutant
saveTar == tar' = held.arts

\* Mutant: the sandbox is destroyed before the record is written.
CpTarDestroyFirst ==
    /\ pc = "cpTar"
    /\ saveTar
    /\ Set(CheckpointedRecord(held), "suspendEnd")
    /\ box' = destroyed(held)
    /\ UNCHANGED <<after, held, bundle, client, profile, head, bounds>>

\* ... and the checkpointed record, which names no sandbox any more.
CpTar ==
    /\ pc = "cpTar"
    /\ \/ /\ saveTar
          /\ Set(CheckpointedRecord(held), "cpDestroy")
          /\ UNCHANGED <<after, held>>
       \/ UNCHANGED <<tar, store>> /\ Throw
    /\ UNCHANGED <<bundle, client, box, profile, head, bounds>>

\* checkpointSandbox destroys the sandbox last; a destroy that fails leaves it
\* running, with the client still cached.
CpDestroy ==
    /\ pc = "cpDestroy"
    /\ \/ box' = destroyed(held) /\ Goto("suspendEnd")
       \/ box' \in {box, destroyed(held)} /\ Throw
    /\ UNCHANGED <<store, files, client, profile, head, bounds>>

\* suspendRunning detaches the runner.
SuspendEnd ==
    /\ pc = "suspendEnd"
    /\ client' = 0
    /\ Return("ok")
    /\ UNCHANGED <<store, files, box, profile, head, bounds>>

-----------------------------------------------------------------------------
(* release, boot and crash *)

\* releaseSession up to its first await; r is the record.
releaseSession(r, e) ==
    /\ client' = 0 /\ head' = 0
    /\ held' = r
    /\ IF r.state = "checkpointed"
       THEN /\ rec' = Absent /\ pc' = "persist" /\ then' = "forgetFiles"
            /\ after' = "suspendEnd"
       ELSE /\ rec' = r /\ pc' = "relDestroy" /\ UNCHANGED <<then, after>>
    /\ ev' = e

\* An orphaned record is kept.
Release ==
    /\ pc = "free" /\ rec.state # "absent" /\ findBackend(rec)
    /\ releaseSession(rec, "op")
    /\ UNCHANGED <<disk, chain, files, box, profile, outcome, bounds>>

\* releaseSession after the destroy.
RelDestroy ==
    /\ pc = "relDestroy"
    /\ \/ box' = destroyed(held) /\ forgetSession("suspendEnd") /\ UNCHANGED held
       \/ box' \in {box, destroyed(held)} /\ Throw /\ UNCHANGED store
    /\ UNCHANGED <<files, client, profile, head, bounds>>

\* The host process ends: memory is gone, and with it Docker's expiry timers.
Crash ==
    /\ pc # "down"
    /\ pc = "broken" \/ crashes < MaxCrash
    /\ crashes' = IF pc = "broken" THEN crashes ELSE crashes + 1
    /\ pc' = "down" /\ then' = "free" /\ after' = "free" /\ held' = Absent
    /\ ev' = "op" /\ outcome' = "none"
    /\ rec' = Absent /\ chain' = "resolved" /\ client' = 0
    /\ box' = [k \in Kinds |-> IF HostTimers(k)
                               THEN Sandbox(box[k].id, box[k].st, box[k].tree,
                                            "none", "none")
                               ELSE box[k]]
    /\ UNCHANGED <<disk, files, profile, head, moves>>

\* SandboxLifecycle.initialize: load the records, release a lapsed one, and put
\* the deadline of a hibernated one back on its sandbox.
Boot ==
    /\ pc = "down"
    /\ \/ /\ \/ disk.state \in {"absent", "running"} \/ ~findBackend(disk)
             \/ disk.state = "checkpointed" /\ ~hasExpired(disk)
          /\ rec' = disk /\ pc' = "free"
          /\ UNCHANGED <<then, after, held, ev, client, head>>
       \/ /\ hasExpired(disk) /\ findBackend(disk)
          /\ releaseSession(disk, "boot")
       \/ /\ disk.state = "hibernated" /\ ~hasExpired(disk) /\ findBackend(disk)
          /\ rec' = disk /\ pc' = "bootExpire" /\ held' = disk /\ ev' = "boot"
          /\ UNCHANGED <<then, after, client, head>>
    /\ UNCHANGED <<disk, chain, files, box, profile, outcome, bounds>>

\* initialize's expireAt: a missing sandbox releases the record, any other
\* error fails the boot.
BootExpire ==
    /\ pc = "bootExpire"
    /\ \/ /\ Live(held) \/ HostTimers(held.backend)
          /\ box' = IF Live(held) THEN [box EXCEPT ![held.backend].dl = held.dl]
                                  ELSE box
          /\ Return("ok") /\ UNCHANGED <<rec, client, head>>
       \/ /\ ~HostTimers(held.backend) /\ ~Live(held)
          /\ releaseSession(rec, "boot") /\ UNCHANGED <<box, outcome>>
       \/ /\ ~HostTimers(held.backend) /\ Throw
          /\ UNCHANGED <<box, rec, client, head>>
    /\ UNCHANGED <<disk, chain, files, profile, bounds>>

-----------------------------------------------------------------------------
(* The environment *)

\* A turn works in the sandbox its ensureRunning handed out.
Work ==
    /\ pc = "free" /\ outcome = "served" /\ head < MaxWork
    /\ rec.state = "running" /\ client = rec.sb /\ Up(rec)
    /\ box[rec.backend].tree < MaxWork
    /\ box' = [box EXCEPT ![rec.backend].tree = @ + 1]
    /\ head' = box[rec.backend].tree + 1
    /\ UNCHANGED <<store, files, client, profile, pc, then, after, held, ev,
                   outcome, bounds>>

\* The checkpoint files hold the session's work until a restore has finished.
BundleIsTruth ==
    disk.state = "checkpointed" /\ ~(pc = "persist" /\ then = "restoreRemove")

\* The backend's sandbox goes away: the session is owed what the files hold.
Vanish(k) ==
    /\ box' = [box EXCEPT ![k] = Gone(@)]
    /\ head' = IF BundleIsTruth THEN head ELSE 0
    /\ UNCHANGED <<store, files, client, profile, pc, then, after, held, ev,
                   outcome, bounds>>

\* Lost for reasons of its own: a node died, a job timed out.
Lose(k) == box[k].st # "none" /\ Vanish(k)

\* Deleted by Docker's timer or by the cluster, its deadline having passed.
Expire(k) == box[k].st # "none" /\ "past" \in {box[k].dl, box[k].stray} /\ Vanish(k)

\* Time passes every deadline that is set.
Pass(d) == IF d = "future" THEN "past" ELSE d

Lapse ==
    /\ \/ "future" \in {rec.dl, disk.dl, held.dl}
       \/ \E k \in Kinds : "future" \in {box[k].dl, box[k].stray}
    /\ rec'  = [rec  EXCEPT !.dl = Pass(@)]
    /\ disk' = [disk EXCEPT !.dl = Pass(@)]
    /\ held' = [held EXCEPT !.dl = Pass(@)]
    /\ box'  = [k \in Kinds |-> Sandbox(box[k].id, box[k].st, box[k].tree,
                                     Pass(box[k].dl), Pass(box[k].stray))]
    /\ UNCHANGED <<chain, files, client, profile, pc, then, after, ev, outcome,
                   head, bounds>>

\* ProfileRegistry.update under an edited profile of the same kind builds a new
\* backend object; a timer the old DockerBackend armed stays armed.  (Taken
\* between operations only: an operation keeps the object it began with.)
EditProfile ==
    /\ "edit" \in Moves /\ profile # "removed" /\ pc = "free"
    /\ box' = [k \in Kinds |->
                 IF k = profile /\ HostTimers(k) /\ box[k].dl # "none"
                 THEN Sandbox(box[k].id, box[k].st, box[k].tree, "none",
                              IF box[k].stray = "none" THEN box[k].dl
                                                       ELSE box[k].stray)
                 ELSE box[k]]
    /\ UNCHANGED profile

\* ... under a map without the profile, or with its name on another backend.
MoveProfile ==
    \E p \in (IF "repoint" \in Moves THEN Kinds ELSE {})
               \cup (IF "remove" \in Moves THEN {"removed"} ELSE {})
               \cup (IF "remove" \in Moves /\ disk.backend \in Kinds
                     THEN {disk.backend} ELSE {}) :
        p # profile /\ profile' = p /\ UNCHANGED box

update ==
    /\ pc # "down" /\ moves < MaxMoves
    /\ moves' = moves + 1
    /\ EditProfile \/ MoveProfile
    /\ UNCHANGED <<store, files, client, pc, then, after, held, ev, outcome,
                   head, crashes>>

-----------------------------------------------------------------------------

Serve    == EnsureRunning \/ Reclaim \/ Fresh \/ Claim \/ Attach \/ Reuse
              \/ Health \/ Wake \/ ReplaceDestroy
Restore  == Load \/ RestoreAttach \/ RestoreUndo \/ RestoreRemove
Suspend  == Hibernate \/ Park \/ ParkExpire \/ CpRunner \/ CpSave \/ CpBundle
              \/ CpTar \/ CpDestroy \/ SuspendEnd
Host     == Persist \/ ForgetFiles \/ Release \/ RelDestroy \/ Crash \/ Boot
              \/ BootExpire
Environment == Work \/ Lapse \/ update \/ \E k \in Kinds : Lose(k) \/ Expire(k)

Next == Serve \/ Restore \/ Suspend \/ Host \/ Environment

Spec == Init /\ [][Next]_vars

\* The lock holder's awaits all end (every call has a timeout or an answer), and
\* a host that is down is restarted.
AwaitsEnd ==
    /\ WF_vars(Reclaim \/ Fresh \/ Claim \/ Attach \/ Reuse \/ Health \/ Wake
                 \/ ReplaceDestroy \/ Restore)
    /\ WF_vars(Park \/ ParkExpire \/ CpRunner \/ CpSave \/ CpBundle \/ CpTar
                 \/ CpDestroy \/ SuspendEnd)
    /\ WF_vars(Persist \/ ForgetFiles \/ RelDestroy \/ Boot \/ BootExpire)
    /\ WF_vars(Crash /\ pc = "broken")

\* A step of the lock holder after its first await, and that it did not fail.
Awaited == pc # "free" /\ (Serve \/ Restore \/ Suspend \/ Persist \/ ForgetFiles
                             \/ RelDestroy \/ BootExpire)
Ok == ~(pc' \in {"free", "broken"} /\ outcome' = "failed") /\ pc' # "restoreUndo"

\* An outage: a call of the lock holder fails that could have succeeded, or the
\* backend loses a sandbox.
Outage == \/ /\ pc # pc' /\ ~Ok
             /\ ENABLED (Awaited /\ Ok)
          \/ \E k \in Kinds : Lose(k)

\* Turns keep asking for their sandbox, and outages stop at some point.
CalmSpec == Spec /\ AwaitsEnd /\ SF_vars(EnsureRunning) /\ <>[][~Outage]_vars

-----------------------------------------------------------------------------
(* Safety *)

\* A turn has been handed the runner of the record's sandbox.
Served == pc = "free" /\ outcome = "served" /\ rec.state = "running"
                      /\ client = rec.sb /\ Up(rec)

\* A turn never works in a sandbox that lacks work the session did before,
\* unless the backend lost that work or the session was released or expired:
\* no crash, failed call or retry between save, record, destroy, claim, restore
\* and wake hands out a fresh or half-restored clone while the work exists.
NoWorkLost == Served => box[rec.backend].tree >= head

\* While the record on disk says checkpointed, the files beside it are the
\* checkpoint it names, and they hold all the work the session is owed; a crash
\* at any point leaves the next turn something it can restore.
CheckpointIsTruth ==
    disk.state = "checkpointed" =>
        /\ bundle = disk.cp
        /\ tar = disk.arts
        /\ disk.cp >= head

\* hibernateSandbox orders its calls so that no turn ever works in an "active
\* sandbox with a hidden expiry" (sandbox-lifecycle.ts:471).
NoHiddenExpiry ==
    Served => box[rec.backend].dl = "none" /\ box[rec.backend].stray = "none"

-----------------------------------------------------------------------------
(* Liveness *)

\* Whatever crashes, half-done suspensions, failed restores and lost sandboxes
\* came before, a session that keeps asking is served: there is no record, file
\* or sandbox state in which every later ensureRunning must fail.
ServedAgain == []<>Served

=============================================================================
