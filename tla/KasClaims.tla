------------------------------ MODULE KasClaims ------------------------------
(***************************************************************************)
(* The Kubernetes backend (backends/kas.ts) for one session: a SandboxClaim *)
(* with a name derived from the session takes a sandbox from a warm pool,   *)
(* and a Secret holds the runner's token.  The calls come from the          *)
(* lifecycle engine (sandbox-lifecycle.ts), one at a time; an action is one *)
(* request to the API server, or one answer of a poll.                      *)
(*                                                                         *)
(* Kubernetes is external: it assigns, starts, stops and deletes on its own *)
(* time, its conditions lag behind what was asked, and a foreground         *)
(* deletion keeps the claim until the sandbox it owns is gone.  Attaching   *)
(* to the runner always succeeds here; the Tunnel module has its failures.  *)
(***************************************************************************)
EXTENDS Naturals

CONSTANTS MaxBoxes,    \* bound: sandboxes the warm pool hands out
          MaxTroubles  \* bound: failed requests, crashes and hands in the cluster

VARIABLES
  claim,     \* the SandboxClaim of the session
  boxes,     \* the sandboxes handed out so far
  token,     \* the Secret: absent, this host's token, or something else
  storing,   \* writeRegistrationToken of the call and of prepare
  job,       \* the engine's call: its operation, its next request, its sandbox
  record,    \* the session's record
  serving,   \* the session works on the sandbox of its record
  troubles

kasVars == <<claim, boxes, token, storing, job, record, serving, troubles>>
cluster == <<claim, boxes, token>>

NoClaim == [there |-> FALSE, deleting |-> FALSE, deadline |-> FALSE, box |-> 0]
NoJob == [op |-> "none", at |-> "rest", box |-> 0]
Ended == [NoJob EXCEPT !.at = "ended"]
NoRecord == [state |-> "none", box |-> 0]
BoxIds == 1 .. MaxBoxes

ASSUME KasAssumption == MaxBoxes \in Nat

Trouble == troubles < MaxTroubles /\ troubles' = troubles + 1
At(o, p) == job.op = o /\ job.at = p
Ask(o, p) == job' = [job EXCEPT !.op = o, !.at = p]
conditionIsTrue(b, c) == boxes[b].there /\ boxes[b].cond = c

-----------------------------------------------------------------------------
(* The engine's calls.                                                     *)

Provision ==
  /\ job = NoJob /\ record = NoRecord
  /\ Ask("provision", "token")
  /\ storing' = [storing EXCEPT !["call"] = "patch"]
  /\ UNCHANGED <<cluster, record, serving, troubles>>

Hibernate ==
  /\ job = NoJob /\ record.state = "running"
  /\ job' = [op |-> "hibernate", at |-> "patch", box |-> record.box]
  /\ UNCHANGED <<cluster, storing, record, serving, troubles>>

\* wake: the new pod reads the Secret, so the token is written first.
toWake ==
  /\ job' = [op |-> "wake", at |-> "token", box |-> record.box]
  /\ storing' = [storing EXCEPT !["call"] = "patch"]

Wake ==
  /\ job = NoJob /\ record.state = "hibernated"
  /\ toWake
  /\ UNCHANGED <<cluster, record, serving, troubles>>

\* health: a sandbox that is ready is attached to, any other is woken.
Health ==
  /\ job = NoJob /\ record.state = "running" /\ ~serving
  /\ IF conditionIsTrue(record.box, "Ready")
     THEN serving' = TRUE /\ UNCHANGED <<job, storing>>
     ELSE toWake /\ UNCHANGED serving
  /\ UNCHANGED <<cluster, record, troubles>>

\* ensureRunning past the record's deadline: destroy, forget, provision.
Reclaim ==
  /\ job = NoJob /\ record.state = "hibernated"
  /\ Ask("reclaim", "delete")
  /\ UNCHANGED <<cluster, storing, record, serving, troubles>>

\* An archived session is released and never runs again.
Release ==
  /\ job = NoJob /\ record # NoRecord
  /\ Ask("release", "delete")
  /\ serving' = FALSE
  /\ UNCHANGED <<cluster, storing, record, troubles>>

-----------------------------------------------------------------------------
(* The Secret.                                                             *)

\* prepare, when the backend is created.
Prepare ==
  /\ storing["prepare"] = "unasked"
  /\ storing' = [storing EXCEPT !["prepare"] = "patch"]
  /\ UNCHANGED <<cluster, job, record, serving, troubles>>

\* The write of w is over; the call goes on with its next request.
stored(w) ==
  /\ storing' = [storing EXCEPT ![w] = "rest"]
  /\ job' = IF w = "prepare" THEN job
            ELSE [job EXCEPT !.at = IF job.op = "provision" THEN "create" ELSE "getClaim"]

\* Patch, or create when there is none, or patch again when somebody else
\* created it in between; a Secret deleted before that patch fails the write.
writeRegistrationToken(w) ==
  /\ \/ /\ storing[w] \in {"patch", "patchAgain"} /\ token # "absent"
        /\ token' = "ours" /\ stored(w)
     \/ /\ storing[w] = "patch" /\ token = "absent"
        /\ storing' = [storing EXCEPT ![w] = "create"]
        /\ UNCHANGED <<token, job>>
     \/ /\ storing[w] = "create" /\ token = "absent"
        /\ token' = "ours" /\ stored(w)
     \/ /\ storing[w] = "create" /\ token # "absent"
        /\ storing' = [storing EXCEPT ![w] = "patchAgain"]
        /\ UNCHANGED <<token, job>>
     \/ /\ storing[w] = "patchAgain" /\ token = "absent"
        /\ storing' = [storing EXCEPT ![w] = "rest"]
        /\ job' = IF w = "call" THEN NoJob ELSE job
        /\ UNCHANGED token
  /\ UNCHANGED <<claim, boxes, record, serving, troubles>>

-----------------------------------------------------------------------------
(* provision                                                               *)

\* A claim that is there already, left by a call that never saved it, is
\* taken over: 409.
CreateClaim ==
  /\ At("provision", "create")
  /\ claim' = IF claim.there THEN claim ELSE [NoClaim EXCEPT !.there = TRUE]
  /\ Ask("provision", "waitForClaim")
  /\ UNCHANGED <<boxes, token, storing, record, serving, troubles>>

\* A poll that finds the object gone throws the 404 as it is.
WaitForClaim ==
  /\ At("provision", "waitForClaim")
  /\ \/ ~claim.there /\ job' = NoJob
     \/ claim.box # 0 /\ job' = [op |-> "provision", at |-> "ready", box |-> claim.box]
  /\ UNCHANGED <<cluster, storing, record, serving, troubles>>

\* The record is saved, the runner attached.
Provisioned ==
  /\ At("provision", "ready")
  /\ \/ /\ ~boxes[job.box].there
        /\ UNCHANGED <<record, serving>>
     \/ /\ conditionIsTrue(job.box, "Ready")
        /\ record' = [state |-> "running", box |-> job.box]
        /\ serving' = TRUE
  /\ job' = NoJob
  /\ UNCHANGED <<cluster, storing, troubles>>

-----------------------------------------------------------------------------
(* hibernate, then expireAt and the record                                 *)

operatingMode(b, mode) == boxes' = [boxes EXCEPT ![b].mode = mode]

\* The engine forgets a sandbox that hibernate or expireAt finds gone.
forget == record' = NoRecord /\ serving' = FALSE /\ job' = NoJob

PatchSuspended ==
  /\ At("hibernate", "patch")
  /\ \/ /\ boxes[job.box].there
        /\ operatingMode(job.box, "Suspended")
        /\ serving' = FALSE
        /\ Ask("hibernate", "suspended")
        /\ UNCHANGED record
     \/ /\ ~boxes[job.box].there
        /\ forget
        /\ UNCHANGED boxes
  /\ UNCHANGED <<claim, token, storing, troubles>>

\* mutant: the patch is taken for the pod's end.
WaitSuspendedAtOnce ==
  /\ At("hibernate", "suspended")
  /\ Ask("hibernate", "expireAt")
  /\ UNCHANGED <<cluster, storing, record, serving, troubles>>

WaitSuspended ==
  /\ At("hibernate", "suspended")
  /\ \/ conditionIsTrue(job.box, "Suspended") /\ Ask("hibernate", "expireAt")
        /\ UNCHANGED <<record, serving>>
     \/ ~boxes[job.box].there /\ forget
  /\ UNCHANGED <<cluster, storing, troubles>>

\* Of hibernate, and of the boot that finds a hibernated record.
ExpireAt ==
  /\ job.at = "expireAt"
  /\ IF claim.there
     THEN /\ claim' = [claim EXCEPT !.deadline = TRUE]
          /\ IF job.op = "boot" THEN job' = NoJob ELSE Ask("hibernate", "save")
          /\ UNCHANGED <<record, serving>>
     ELSE forget /\ UNCHANGED claim
  /\ UNCHANGED <<boxes, token, storing, troubles>>

SaveHibernated ==
  /\ At("hibernate", "save")
  /\ record' = [record EXCEPT !.state = "hibernated"]
  /\ job' = NoJob
  /\ UNCHANGED <<cluster, storing, serving, troubles>>

-----------------------------------------------------------------------------
(* wake                                                                    *)

\* replaceLostSandbox: destroy the leftovers, forget, provision.
replaceLost == Ask("replace", "delete")

\* clearExpiry reads the claim and removes the lifecycle it has; nobody adds
\* one in between.
ClearExpiry ==
  /\ \/ At("wake", "getClaim") /\ claim.there
        /\ Ask("wake", IF claim.deadline THEN "remove" ELSE "patch")
        /\ UNCHANGED claim
     \/ At("wake", "remove") /\ claim.there
        /\ claim' = [claim EXCEPT !.deadline = FALSE]
        /\ Ask("wake", "patch")
     \/ job.op = "wake" /\ job.at \in {"getClaim", "remove"} /\ ~claim.there
        /\ replaceLost
        /\ UNCHANGED claim
  /\ UNCHANGED <<boxes, token, storing, record, serving, troubles>>

PatchRunning ==
  /\ At("wake", "patch")
  /\ \/ boxes[job.box].there /\ operatingMode(job.box, "Running") /\ Ask("wake", "ready")
     \/ ~boxes[job.box].there /\ replaceLost /\ UNCHANGED boxes
  /\ UNCHANGED <<claim, token, storing, record, serving, troubles>>

Woken ==
  /\ At("wake", "ready")
  /\ \/ /\ conditionIsTrue(job.box, "Ready")
        /\ record' = [record EXCEPT !.state = "running"]
        /\ serving' = TRUE
        /\ job' = NoJob
     \/ /\ ~boxes[job.box].there
        /\ replaceLost
        /\ UNCHANGED <<record, serving>>
  /\ UNCHANGED <<cluster, storing, troubles>>

-----------------------------------------------------------------------------
(* destroy                                                                 *)

deleted(c) == IF c.there THEN [c EXCEPT !.deleting = TRUE] ELSE c

\* The request returns once the deletion has begun; a replacement goes on
\* whatever it answers.
DeleteClaim ==
  /\ job.at = "delete"
  /\ \/ claim' = deleted(claim) /\ UNCHANGED troubles
     \/ job.op = "replace" /\ UNCHANGED claim /\ Trouble
  /\ record' = NoRecord /\ serving' = FALSE
  /\ IF job.op \in {"replace", "reclaim"}
     THEN job' = [NoJob EXCEPT !.op = "provision", !.at = "token"]
          /\ storing' = [storing EXCEPT !["call"] = "patch"]
     ELSE job' = (IF job.op = "release" THEN Ended ELSE NoJob) /\ UNCHANGED storing
  /\ UNCHANGED <<boxes, token>>

-----------------------------------------------------------------------------
(* Failures of the host: a request refused, unanswered or past              *)
(* readyTimeoutMs, and a crash.                                             *)

Throws ==
  /\ job \notin {NoJob, Ended} /\ Trouble
  /\ job' = NoJob
  /\ storing' = [storing EXCEPT !["call"] = "rest"]
  /\ UNCHANGED <<cluster, record, serving>>

PrepareFails ==
  /\ storing["prepare"] \notin {"unasked", "rest"} /\ Trouble
  /\ storing' = [storing EXCEPT !["prepare"] = "rest"]
  /\ UNCHANGED <<cluster, job, record, serving>>

\* The engine that boots again puts the deadline of a hibernated record back.
Crash ==
  /\ job # Ended /\ Trouble
  /\ job' = IF record.state = "hibernated" THEN [NoJob EXCEPT !.op = "boot", !.at = "expireAt"] ELSE NoJob
  /\ serving' = FALSE
  /\ storing' = [call |-> "rest", prepare |-> "unasked"]
  /\ UNCHANGED <<cluster, record>>

-----------------------------------------------------------------------------
(* Kubernetes.                                                             *)

\* The pool hands the claim a sandbox whose pod may still be starting.
Assign ==
  /\ claim.there /\ ~claim.deleting /\ claim.box = 0
  /\ \E b \in BoxIds :
       /\ boxes[b].mode = "unused"
       /\ \A c \in BoxIds : boxes[c].mode = "unused" => b <= c
       /\ boxes' = [boxes EXCEPT ![b] = [there |-> TRUE, mode |-> "Running", cond |-> "none"]]
       /\ claim' = [claim EXCEPT !.box = b]
  /\ UNCHANGED <<token, storing, job, record, serving, troubles>>

\* The condition leaves the old mode, then reaches the new one.
Converge(b) ==
  /\ boxes[b].there
  /\ LET goal == IF boxes[b].mode = "Running" THEN "Ready" ELSE "Suspended"
     IN /\ boxes[b].cond # goal
        /\ boxes' = [boxes EXCEPT ![b].cond = IF @ = "none" THEN goal ELSE "none"]
  /\ UNCHANGED <<claim, token, storing, job, record, serving, troubles>>

ShutdownTime ==
  /\ claim.there /\ claim.deadline /\ ~claim.deleting
  /\ claim' = deleted(claim)
  /\ UNCHANGED <<boxes, token, storing, job, record, serving, troubles>>

\* Foreground deletion: the sandbox first, then the claim.
Collect ==
  /\ claim.deleting
  /\ IF claim.box # 0 /\ boxes[claim.box].there
     THEN boxes' = [boxes EXCEPT ![claim.box].there = FALSE] /\ UNCHANGED claim
     ELSE claim' = NoClaim /\ UNCHANGED boxes
  /\ UNCHANGED <<token, storing, job, record, serving, troubles>>

\* Somebody else's hand in the cluster: the Secret removed or made by hand.
SecretTouched ==
  /\ Trouble
  /\ token' \in {"absent", "other"} \ {token}
  /\ UNCHANGED <<claim, boxes, storing, job, record, serving>>

KasInit ==
  /\ claim = NoClaim
  /\ boxes = [b \in BoxIds |-> [there |-> FALSE, mode |-> "unused", cond |-> "none"]]
  /\ token = "absent"
  /\ storing = [call |-> "rest", prepare |-> "unasked"]
  /\ job = NoJob
  /\ record = NoRecord
  /\ serving = FALSE
  /\ troubles = 0

KasNext ==
  \/ Provision \/ Hibernate \/ Wake \/ Health \/ Reclaim \/ Release \/ Prepare
  \/ \E w \in {"call", "prepare"} : writeRegistrationToken(w)
  \/ CreateClaim \/ WaitForClaim \/ Provisioned
  \/ PatchSuspended \/ WaitSuspended \/ ExpireAt \/ SaveHibernated
  \/ ClearExpiry \/ PatchRunning \/ Woken
  \/ DeleteClaim
  \/ Throws \/ PrepareFails \/ Crash
  \/ Assign \/ (\E b \in BoxIds : Converge(b)) \/ ShutdownTime \/ Collect \/ SecretTouched

KasSpec == KasInit /\ [][KasNext]_kasVars

-----------------------------------------------------------------------------

\* A sandbox in use carries no deletion time, whatever call failed or which
\* answer was lost on the way: wake reads the claim instead of trusting the
\* record, and expireAt comes after the pod has stopped.
ServedForGood == serving /\ ~claim.deleting => ~claim.deadline

=============================================================================
