----------------------------- MODULE RunnerSetup -----------------------------
(***************************************************************************)
(* The setup of a sandbox: the runner's Setup handler (setup.go), which    *)
(* clones the repository, moves it to the profile's revision, runs the     *)
(* repository's hook and writes a marker, under a lock.  The host calls it *)
(* at every attach (runner-attachment.ts); a call that is given up leaves  *)
(* its handler behind.  The marker is on the machine, the checkout on the  *)
(* workspace volume: a machine may be rebuilt around the volume.           *)
(***************************************************************************)
EXTENDS Naturals

CONSTANTS Handlers,   \* Setup handlers at once
          MaxSetups,  \* bound: calls
          MaxRebuilds \* bound: machines rebuilt or restarted

VARIABLES
  repo,     \* the session has a repository URL; revision: and a revision
  revision,
  step,     \* where each handler is
  gaveUp,   \* handlers whose context is cancelled
  locked,   \* the handler holding the marker's lock
  marker,   \* setup-done is on the machine
  git,      \* .git on the volume: "absent", "whole", or "partial", of a clone
            \* that failed
  atRev,    \* the checkout was moved to the revision
  hookOk,   \* ghost: runs of the hook that ended well on this machine
  setups, rebuilds

setupVars == <<repo, revision, step, gaveUp, locked, marker, git, atRev, hookOk,
               setups, rebuilds>>

Steps == {"lock", "config", "marker", "git", "clone", "checkout", "hook", "mark"}
InSetup(h) == step[h] \in Steps
Nobody == "nobody"

ASSUME HandlersAssumption == Nobody \notin Handlers

To(h, s) == step' = [step EXCEPT ![h] = s]

\* Every return unlocks.
Leave(h, outcome) == To(h, outcome) /\ locked' = IF locked = h THEN Nobody ELSE locked

\* attach calls Setup; a client that gave up may call again at once.
CallSetup(h) ==
  /\ ~InSetup(h) /\ setups < MaxSetups
  /\ \A g \in Handlers : InSetup(g) => g \in gaveUp
  /\ setups' = setups + 1
  /\ To(h, "lock")
  /\ gaveUp' = gaveUp \ {h}
  /\ UNCHANGED <<repo, revision, locked, marker, git, atRev, hookOk, rebuilds>>

\* The call is cancelled or its tunnel breaks.
GiveUpSetup(h) ==
  /\ InSetup(h) /\ h \notin gaveUp
  /\ gaveUp' = gaveUp \cup {h}
  /\ UNCHANGED <<repo, revision, step, locked, marker, git, atRev, hookOk, setups,
                 rebuilds>>

\* mutant: no lock around the marker.
LockMarkerFree(h) ==
  /\ step[h] = "lock"
  /\ To(h, "config")
  /\ UNCHANGED <<repo, revision, locked, gaveUp, marker, git, atRev, hookOk, setups, rebuilds>>

LockMarker(h) ==
  /\ step[h] = "lock" /\ locked = Nobody
  /\ locked' = h
  /\ To(h, "config")
  /\ UNCHANGED <<repo, revision, gaveUp, marker, git, atRev, hookOk, setups, rebuilds>>

\* The helper is configured; a machine with the marker is done; otherwise the
\* volume decides whether there is something to clone, which takes an
\* empty workspace.
Look(h) ==
  /\ \/ step[h] = "config" /\ To(h, "marker") /\ UNCHANGED locked
     \/ step[h] = "config" /\ Leave(h, "failed")
     \/ step[h] = "marker" /\ marker /\ Leave(h, "done")
     \/ step[h] = "marker" /\ ~marker /\ To(h, "git") /\ UNCHANGED locked
     \/ /\ step[h] = "git"
        /\ To(h, IF git = "absent" /\ repo THEN "clone" ELSE "hook")
        /\ UNCHANGED locked
     \/ step[h] = "git" /\ git = "absent" /\ repo /\ Leave(h, "failed")
  /\ UNCHANGED <<repo, revision, gaveUp, marker, git, atRev, hookOk, setups, rebuilds>>

\* git clone: done, failed, or ended with the call.  One that fails mostly takes
\* back what it made, unless it is killed or only its checkout failed.
Clone(h) ==
  /\ step[h] = "clone"
  /\ \/ /\ git' = "whole"
        /\ To(h, IF revision THEN "checkout" ELSE "hook")
        /\ UNCHANGED locked
     \/ /\ Leave(h, "failed")
        /\ git' \in {"absent", "partial"}
  /\ UNCHANGED <<repo, revision, gaveUp, marker, atRev, hookOk, setups, rebuilds>>

\* git checkout, after a clone of this call only.
Checkout(h) ==
  /\ step[h] = "checkout"
  /\ \/ atRev' = TRUE /\ To(h, "hook") /\ UNCHANGED locked
     \/ Leave(h, "failed") /\ UNCHANGED atRev
  /\ UNCHANGED <<repo, revision, gaveUp, marker, git, hookOk, setups, rebuilds>>

\* The repository's own hook, if it has one.
Hook(h) ==
  /\ step[h] = "hook"
  /\ \/ hookOk' = hookOk + 1 /\ To(h, "mark") /\ UNCHANGED locked
     \/ repo /\ Leave(h, "failed") /\ UNCHANGED hookOk
  /\ UNCHANGED <<repo, revision, gaveUp, marker, git, atRev, setups, rebuilds>>

\* The marker, then the cache is trimmed: errors are ignored.
Mark(h) ==
  /\ step[h] = "mark"
  /\ \/ marker' = TRUE /\ Leave(h, "done")
     \/ Leave(h, "failed") /\ UNCHANGED marker
  /\ UNCHANGED <<repo, revision, gaveUp, git, atRev, hookOk, setups, rebuilds>>

\* The machine is rebuilt around the volume, or its runner restarts: handlers
\* die where they are.
MachineLost(rebuilt) ==
  /\ rebuilds < MaxRebuilds
  /\ rebuilds' = rebuilds + 1
  /\ step' = [h \in Handlers |-> IF InSetup(h) THEN "failed" ELSE step[h]]
  /\ locked' = Nobody
  /\ git' \in (IF \E h \in Handlers : step[h] = "clone" THEN {"absent", "partial"} ELSE {git})
  /\ marker' = (marker /\ ~rebuilt)
  /\ hookOk' = IF rebuilt THEN 0 ELSE hookOk
  /\ UNCHANGED <<repo, revision, gaveUp, atRev, setups>>

SetupInit ==
  /\ repo \in BOOLEAN /\ revision \in BOOLEAN
  /\ step = [h \in Handlers |-> "idle"] /\ gaveUp = {}
  /\ locked = Nobody /\ marker = FALSE /\ git = "absent" /\ atRev = FALSE
  /\ hookOk = 0 /\ setups = 0 /\ rebuilds = 0

SetupNext ==
  \/ \E h \in Handlers : \/ CallSetup(h) \/ GiveUpSetup(h) \/ LockMarker(h) \/ Look(h)
                         \/ Clone(h) \/ Checkout(h) \/ Hook(h) \/ Mark(h)
  \/ \E rebuilt \in BOOLEAN : MachineLost(rebuilt)

SetupSpec == SetupInit /\ [][SetupNext]_setupVars

-----------------------------------------------------------------------------

\* One setup at a time, and none after the one that succeeded: while a machine
\* has its marker no handler is past the marker's check, whatever calls were
\* given up, so the hook is not run under a session's commands; and a marker
\* stands for a hook that ended well on this machine.
SetupOnce ==
  /\ marker => hookOk > 0
  /\ marker => \A h \in Handlers : step[h] \notin {"git", "clone", "checkout", "hook", "mark"}
  /\ \A g, h \in Handlers :
       step[g] \in Steps \ {"lock"} /\ step[h] \in Steps \ {"lock"} => g = h
=============================================================================
