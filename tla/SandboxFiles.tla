----------------------------- MODULE SandboxFiles -----------------------------
(***************************************************************************)
(* The file tools of the agents of one session: the filesystem seam        *)
(* (fs.ts), whose patch, delete and move are several calls to the runner;  *)
(* the runner's file handlers (service.go), each of which checks its guard *)
(* and then commits, under a lock on the path; and the attachments copied  *)
(* into the sandbox before a request (attachment-copies.ts).  Processes in *)
(* the sandbox write without any lock, and the sandbox may be replaced by  *)
(* a fresh one under the session.                                          *)
(*                                                                         *)
(* Every write makes a new version (device, inode, size, time and mode in  *)
(* the code), a number; version 0 is an absent file.  A text is the number *)
(* of the version it was first written as.                                 *)
(***************************************************************************)
EXTENDS Naturals, FiniteSets

CONSTANTS Paths,        \* canonical paths
          Callers,      \* agents with a file call in flight
          Attachments,  \* paths of the attachment copies, among Paths
          MaxVersions,  \* bound: writes
          MaxCalls      \* bound: file calls

ASSUME FilesAssumption == MaxVersions \in Nat /\ Attachments \subseteq Paths /\ "none" \notin Callers

VARIABLES file,      \* the sandbox's files
          versions,  \* versions made so far
          calls,     \* file calls begun
          op,        \* each agent's call
          lockOf,    \* Service.locks: who holds a path's lock
          copies     \* AttachmentCopies.bySession for this session

fileVars == <<file, versions, calls, op, lockOf, copies>>

None == "none"
Absent == [ver |-> 0, text |-> 0]
Unguarded == MaxVersions + 1
Idle == [k |-> "idle", at |-> "rest", p |-> CHOOSE p \in Paths : TRUE, q |-> CHOOSE p \in Paths : TRUE,
         exp |-> 0, dst |-> 0, ver |-> 0, text |-> 0, raced |-> FALSE]
Fresh(t) == [ver |-> versions + 1, text |-> t]

\* The path a call writes: a move writes its destination first.
target(o) == IF o.k = "move" /\ o.at # "unlink" THEN o.q ELSE o.p

Stop(c) == op' = [op EXCEPT ![c] = Idle]

-----------------------------------------------------------------------------
(* The seam. *)

\* stat, lstat, listDir, readText and the outcomes of earlier writes: what an
\* agent knows of a path when it calls, or that it did not look.  A view that
\* is older still is refused like one that is overtaken during the call.
Seen(p) == {0, file[p].ver, Unguarded}

FirstStep(k) == CASE k \in {"write", "edit", "attach"} -> "check"
                  [] k \in {"patch", "delete"} -> "read"
                  [] OTHER -> "stat"

\* writeText, editText, patchText, deleteFile, moveFile: guarded by what the
\* agent saw, or not.  A move needs two paths, and has a guard for each.
Begin(c, k, p, q, exp, dst) ==
  /\ op[c].k = "idle" /\ calls < MaxCalls
  /\ calls' = calls + 1
  /\ p \notin Attachments /\ q \notin Attachments
  /\ (k = "move") = (p # q)
  /\ k # "move" => dst = 0
  /\ exp = 0 => k = "write"
  /\ op' = [op EXCEPT ![c] = [Idle EXCEPT !.k = k, !.at = FirstStep(k), !.p = p, !.q = q,
                                          !.exp = exp, !.dst = dst]]
  /\ UNCHANGED <<file, versions, lockOf, copies>>

\* AttachmentCopies.ensureOne: a copy the session does not have yet, written
\* if it is absent.
Ensure(c, a) ==
  /\ op[c].k = "idle" /\ calls < MaxCalls
  /\ calls' = calls + 1
  /\ a \notin copies
  /\ op' = [op EXCEPT ![c] = [Idle EXCEPT !.k = "attach", !.at = "check", !.p = a, !.q = a]]
  /\ UNCHANGED <<file, versions, lockOf, copies>>

\* moveFile's stat of the source.
Stat(c) ==
  /\ op[c].at = "stat"
  /\ LET f == file[op[c].p]
     IN  IF f.ver = 0 \/ op[c].exp \notin {Unguarded, f.ver} THEN Stop(c)
         ELSE op' = [op EXCEPT ![c].at = "read", ![c].ver = f.ver]
  /\ UNCHANGED <<file, versions, calls, lockOf, copies>>

\* The text a patch, a move or a removal's diff starts from.
ReadText(c) ==
  /\ op[c].at = "read"
  /\ LET f == file[op[c].p]
     IN  IF f.ver = 0 THEN Stop(c)
         ELSE op' = [op EXCEPT ![c].at = IF op[c].k = "delete" THEN "unlink" ELSE "check",
                               ![c].text = f.text]
  /\ UNCHANGED <<file, versions, calls, lockOf, copies>>

-----------------------------------------------------------------------------
(* The runner. *)

\* The guard of one handler: createIfAbsent is version 0.
guardOf(o) ==
  CASE o.k = "move" /\ o.at = "unlink" -> IF o.exp = Unguarded THEN o.ver ELSE o.exp
    [] o.k = "move" /\ o.at # "unlink" -> o.dst
    [] OTHER -> o.exp

allows(o, f) ==
  /\ guardOf(o) \in {Unguarded, f.ver}
  /\ o.k = "edit" \/ o.at = "unlink" => f.ver # 0

\* ensureOne remembers the copy once the write succeeded or found the file.
copied(o) == copies' = IF o.k = "attach" THEN copies \cup {o.p} ELSE copies

\* mutant: the check is made before the lock is taken.
CheckUnlocked(c) ==
  /\ op[c].at \in {"check", "unlink"}
  /\ LET o == op[c]
         f == file[target(o)]
     IN  IF allows(o, f)
         THEN /\ op' = [op EXCEPT ![c].at = IF o.at = "check" THEN "commit" ELSE "remove",
                                  ![c].text = IF o.k = "edit" THEN f.text ELSE @]
              /\ UNCHANGED copies
         ELSE /\ Stop(c)
              /\ copied(o)
  /\ UNCHANGED <<file, versions, calls, lockOf>>

\* WriteFile, EditFile and DeleteFile: the lock, the read, the guard.  A
\* refused call is over; for an attachment, a file that exists is success.
Check(c) ==
  /\ op[c].at \in {"check", "unlink"}
  /\ lockOf[target(op[c])] = None
  /\ LET o == op[c]
         f == file[target(o)]
     IN  IF allows(o, f)
         THEN /\ op' = [op EXCEPT ![c].at = IF o.at = "check" THEN "commit" ELSE "remove",
                                  ![c].text = IF o.k = "edit" THEN f.text ELSE @]
              /\ lockOf' = [lockOf EXCEPT ![target(o)] = c]
              /\ UNCHANGED copies
         ELSE /\ Stop(c)
              /\ copied(o)
              /\ UNCHANGED lockOf
  /\ UNCHANGED <<file, versions, calls>>

released(p) == lockOf' = [lockOf EXCEPT ![p] = None]

\* atomicWrite: the rename replaces what is there.  A move carries the text
\* it read, every other write makes a new one.
Commit(c) ==
  /\ op[c].at = "commit" /\ versions < MaxVersions
  /\ LET o == op[c]
         t == target(o)
         text == IF o.k = "move" THEN o.text ELSE versions + 1
     IN  /\ file' = [file EXCEPT ![t] = Fresh(text)]
         /\ versions' = versions + 1
         /\ copied(o)
         /\ released(t)
         /\ IF o.k = "move" THEN op' = [op EXCEPT ![c].at = "unlink", ![c].raced = FALSE] ELSE Stop(c)
  /\ UNCHANGED calls

\* os.Remove, of deleteFile and of a move's source.
Unlink(c) ==
  /\ op[c].at = "remove"
  /\ LET o == op[c]
     IN  /\ file' = [file EXCEPT ![o.p] = Absent]
         /\ released(o.p)
  /\ Stop(c)
  /\ UNCHANGED <<versions, calls, copies>>

-----------------------------------------------------------------------------
(* The sandbox. *)

\* A process in the sandbox writes or removes a file.
ProcessWrites(p) ==
  /\ p \notin Attachments
  /\ \/ /\ versions < MaxVersions
        /\ file' = [file EXCEPT ![p] = Fresh(versions + 1)]
        /\ versions' = versions + 1
     \/ /\ file[p].ver # 0
        /\ file' = [file EXCEPT ![p] = Absent]
        /\ UNCHANGED versions
  /\ op' = [c \in Callers |-> IF lockOf[p] = c THEN [op[c] EXCEPT !.raced = TRUE] ELSE op[c]]
  /\ UNCHANGED <<calls, lockOf, copies>>

\* The sandbox is replaced by a fresh one; calls in flight fail.
SandboxReplaced ==
  /\ \E p \in Paths : file[p].ver # 0
  /\ file' = [p \in Paths |-> Absent]
  /\ op' = [c \in Callers |-> Idle]
  /\ lockOf' = [p \in Paths |-> None]
  /\ UNCHANGED <<versions, calls, copies>>

FilesInit ==
  /\ file = [p \in Paths |-> Absent]
  /\ versions = 0
  /\ calls = 0
  /\ op = [c \in Callers |-> Idle]
  /\ lockOf = [p \in Paths |-> None]
  /\ copies = {}

FilesNext ==
  \/ \E c \in Callers :
       \/ \E k \in {"write", "edit", "patch", "delete", "move"}, p, q \in Paths :
            \E exp \in Seen(p), dst \in Seen(q) : Begin(c, k, p, q, exp, dst)
       \/ \E a \in Attachments : Ensure(c, a)
       \/ Stat(c) \/ ReadText(c) \/ Check(c) \/ Commit(c) \/ Unlink(c)
  \/ \E p \in Paths : ProcessWrites(p)
  \/ SandboxReplaced

FilesSpec == FilesInit /\ [][FilesNext]_fileVars

-----------------------------------------------------------------------------

\* A guarded write replaces the version the agent saw, a patch is applied to
\* the text it replaces, and a move takes away the text it has put at the
\* destination, whatever the other agents' calls do meanwhile; only a process
\* that writes between a handler's check and its rename can come in between.
GuardHonoured ==
  \A c \in Callers :
    LET o == op[c]
        f == file[target(o)]
    IN  ~o.raced =>
          /\ o.at = "commit" /\ guardOf(o) # Unguarded =>
               f.ver = guardOf(o) /\ (o.k = "patch" => o.text = f.text)
          /\ o.at = "remove" /\ o.k = "move" => o.text = file[o.p].text
=============================================================================
