--------------------------- MODULE SessionPromise ---------------------------
(***************************************************************************)
(* What the sandbox lifecycle promises a session, with no sandbox, file,   *)
(* lock or crash in sight: the states of the session's stored record and   *)
(* the transitions between them (the table at the head of                  *)
(* sandbox-lifecycle.ts), and that the work the session is owed is kept in *)
(* the place that state names.                                             *)
(***************************************************************************)
EXTENDS Naturals

VARIABLES
    st,     \* state of the stored record
    owed,   \* version of the work the session counts on
    kept    \* version found in the place st names: the sandbox or the files

vars == <<st, owed, kept>>

States == {"absent", "running", "hibernated", "checkpointed"}

Init == st = "absent" /\ owed = 0 /\ kept = 0

\* absent -> running.  The sandbox may be a leftover, with work nobody counts on.
Begin == st = "absent" /\ st' = "running" /\ kept' \in Nat /\ UNCHANGED owed

\* A turn works.
Do == st = "running" /\ kept' = kept + 1 /\ owed' = kept' /\ UNCHANGED st

\* running -> hibernated, and back: the workspace stays as it is.
Park == st = "running" /\ st' = "hibernated" /\ UNCHANGED <<owed, kept>>
Wake == st = "hibernated" /\ st' = "running" /\ UNCHANGED <<owed, kept>>

\* running -> checkpointed: the files hold all that is owed.
Save == /\ st = "running" /\ st' = "checkpointed"
        /\ kept' \in Nat /\ kept' >= owed
        /\ UNCHANGED owed

\* checkpointed -> running: all of it is back, or nothing is owed any more.
Restore == /\ st = "checkpointed" /\ st' = "running"
           /\ kept' \in Nat /\ kept' >= owed
           /\ UNCHANGED owed

\* The session stops counting on its work: it is released, it expired, or the
\* backend lost its sandbox.
Renounce == /\ owed' = 0 /\ UNCHANGED st
            /\ \/ kept' = kept
               \/ st # "checkpointed" /\ kept' = 0

\* The record goes, once nothing is owed.
Forget == owed = 0 /\ st' = "absent" /\ kept' = 0 /\ UNCHANGED owed

Next == Begin \/ Do \/ Park \/ Wake \/ Save \/ Restore \/ Renounce \/ Forget

Spec == Init /\ [][Next]_vars

=============================================================================
