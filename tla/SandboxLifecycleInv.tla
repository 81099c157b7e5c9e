-------------------------- MODULE SandboxLifecycleInv --------------------------
(***************************************************************************)
(* The inductive invariant behind the safety properties of                 *)
(* SandboxLifecycle: what the lock holder may rely on at each await, and   *)
(* where the session's work is.                                            *)
(***************************************************************************)
EXTENDS SandboxLifecycle

\* Awaits of operations that began on a record with a sandbox.
OnSandbox == {"reuse", "health", "wake", "reclaim", "relDestroy", "park",
              "parkExpire", "cpRunner", "cpSave", "cpBundle", "cpTar",
              "replaceDestroy", "bootExpire"}

SameBox(r, s) == r.backend = s.backend /\ r.sb = s.sb

\* Writes succeed, and memory and disk differ only while one is awaited.
StoreSynced ==
    /\ chain = "resolved"
    /\ pc \notin {"persist", "down"} => rec = disk

\* What the lock holder awaits a write for.
WriteAwaited ==
    pc = "persist" =>
        \/ /\ then = "attach" /\ rec.state = "running" /\ rec = held
           /\ rec.backend \in Kinds
           /\ \/ disk = Absent
              \/ SameBox(disk, rec) /\ disk.state \in {"running", "hibernated"}
        \/ /\ then = "forgetFiles" /\ rec = Absent
           /\ after \in {"fresh", "claim", "suspendEnd"}
        \/ /\ then = "suspendEnd" /\ rec.state = "hibernated"
           /\ disk.state = "running" /\ SameBox(disk, rec)
           /\ supportsHibernate(disk.backend)
        \/ /\ then = "cpDestroy" /\ rec.state = "checkpointed"
           /\ disk.state = "running" /\ ~supportsHibernate(disk.backend)
        \/ /\ then = "restoreRemove" /\ rec.state = "running" /\ rec = held
           /\ rec.backend \in Kinds /\ disk.state = "checkpointed"

\* The record the lock holder works on is the stored one's.
HolderAgrees ==
    /\ pc \in OnSandbox => /\ SameBox(held, disk) /\ held.backend \in Kinds
                           /\ disk.state \in {"running", "hibernated"}
    /\ pc \in {"reclaim", "bootExpire"} => disk.state = "hibernated"
    /\ pc \in {"reuse", "health"} => disk.state = "running"
    /\ pc = "replaceDestroy" => ~Live(held)
    /\ pc = "bootExpire" => held.dl # "none"
    /\ pc \in {"park", "parkExpire"} =>
           /\ disk.state = "running" /\ supportsHibernate(held.backend)
           /\ held.state = "running" /\ held.dl # "none" /\ held.cp = NoFile
           /\ held.arts = NoFile
    /\ pc \in {"cpRunner", "cpSave", "cpBundle", "cpTar"} =>
           /\ disk.state = "running" /\ ~supportsHibernate(held.backend)
           /\ held.dl # "none"
    /\ pc \in {"forgetFiles", "fresh"} => disk = Absent
    /\ pc = "forgetFiles" => after \in {"fresh", "claim", "suspendEnd"}
    /\ pc = "claim" => \/ after = "claim" /\ disk = Absent
                       \/ after = "restoreAttach" /\ disk.state = "checkpointed"
    /\ pc \in {"load", "restoreAttach", "restoreUndo", "cpDestroy"} =>
           disk.state = "checkpointed"
    /\ pc \in {"restoreAttach", "restoreUndo"} =>
           held.backend \in Kinds /\ held = RunningRecord(held.backend, held.sb)
    /\ pc = "restoreRemove" => disk.state = "running"
    /\ pc = "attach" => held.backend \in Kinds /\ disk.state = "running"
    /\ pc \in {"broken", "down"} => ev = "op"

\* A stored record names a configured kind, and only a backend that can
\* hibernate has hibernated records and parked sandboxes.
KindKnown ==
    /\ disk.state # "absent" => disk.backend \in Kinds
    /\ rec.state # "absent" => rec.backend \in Kinds
    /\ disk.state = "hibernated" => supportsHibernate(disk.backend)
    /\ \A k \in Kinds : box[k].st = "parked" => supportsHibernate(k)

\* r's sandbox still holds what the session is owed.
Holds(r) == Live(r) /\ box[r.backend].tree >= head

\* Where the work is.
WorkKept ==
    /\ disk.state = "absent" => head = 0
    /\ disk.state \in {"running", "hibernated"} => head = 0 \/ Holds(disk)
    /\ disk.state = "checkpointed" =>
           /\ bundle = disk.cp /\ disk.cp >= head
           /\ tar = disk.arts

\* ... and where it is on the way to.
WorkMoving ==
    /\ pc = "persist" /\ then = "restoreRemove" => head = 0 \/ Holds(held)
    /\ pc = "persist" /\ then = "forgetFiles" => head = 0
    /\ pc \in {"reclaim", "relDestroy", "replaceDestroy"} => head = 0
    /\ pc \in {"cpBundle", "cpTar"} => held.cp >= head /\ held.cp >= 0
    /\ pc = "cpTar" => bundle = held.cp
    /\ pc = "persist" /\ then = "cpDestroy" =>
           /\ bundle = rec.cp /\ rec.cp >= head
           /\ tar = rec.arts

\* A deadline is on the sandbox of a stored record, and on a sandbox that is up
\* only while the record says hibernated.
DeadlineKept ==
    /\ \A k \in Kinds : box[k].dl # "none" =>
           /\ disk.backend = k /\ disk.state \in {"running", "hibernated"}
           /\ Live(disk) /\ supportsHibernate(k)
           /\ box[k].st = "up" => disk.state = "hibernated"
    /\ pc = "persist" /\ then \in {"attach", "forgetFiles"} =>
           \A k \in Kinds : box[k].dl = "none"
    /\ pc = "parkExpire" => ~Up(held)

\* No expiry timer of a replaced backend object is left armed.
NoStray == \A k \in Kinds : box[k].stray = "none"

WorkInv == /\ TypeOK /\ StoreSynced /\ WriteAwaited /\ HolderAgrees /\ KindKnown
           /\ WorkKept /\ WorkMoving

DeadlineInv == WorkInv /\ DeadlineKept /\ NoStray

-----------------------------------------------------------------------------
(* What the session is promised, implemented *)

\* The work found where the stored record points.
keptWork == IF disk.state = "checkpointed" THEN bundle
            ELSE IF Live(disk) THEN box[disk.backend].tree ELSE 0

Promise == INSTANCE SessionPromise
               WITH st <- disk.state, owed <- head, kept <- keptWork

\* The lifecycle implements the promise: the stored record only makes the
\* transitions of the state machine's table, and a step that moves the record or
\* the work never leaves the record pointing at less work than is owed.
ImplementsPromise == Promise!Spec

=============================================================================
