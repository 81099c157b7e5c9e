--------------------------- MODULE BuildkiteBuilds ---------------------------
(***************************************************************************)
(* The Buildkite backend (backends/buildkite.ts): one sandbox is one build *)
(* tagged with its session, and the pipeline's cluster holds the runner's  *)
(* token as a secret that every new build writes again.                    *)
(*                                                                         *)
(* Buildkite is external: it creates, starts and ends builds, keeps secret *)
(* keys unique, and may carry a request out without its answer arriving.   *)
(* The lifecycle engine runs one call per session at a time, and keeps the *)
(* build number of the session's record.                                   *)
(***************************************************************************)
EXTENDS Naturals, Sequences, FiniteSets

CONSTANTS Owners,       \* sessions on this backend
          MaxBuilds,    \* bound: builds made
          MaxMishaps    \* bound: lost answers, refusals, crashes and deletions by hand

VARIABLES
  builds,   \* Buildkite: the builds by number
  secretKey,\* Buildkite: the cluster has the secret
  writing,  \* BuildkiteBackend.storing: what the write under way has found
  callStep, \* where each session's call is
  number,   \* the build that call is about
  savedBuild, \* the build of the session's record, 0 without one
  clashes,  \* ghost: secrets refused because their key exists
  mishaps

buildVars == <<builds, secretKey, writing, callStep, number, savedBuild, clashes, mishaps>>

Live(b) == builds[b].state \in {"scheduled", "running"}
buildsOf(o) == {b \in 1 .. Len(builds) : builds[b].owner = o /\ Live(b)}
canceled(b) == [builds EXCEPT ![b].state = IF Live(b) THEN "canceled" ELSE @]

Goto(o, p) == callStep' = [callStep EXCEPT ![o] = p]
Mishap == mishaps < MaxMishaps /\ mishaps' = mishaps + 1

-----------------------------------------------------------------------------
(* provision *)

StartProvision(o) ==
  /\ callStep[o] = "rest" /\ savedBuild[o] = 0
  /\ Goto(o, "finding")
  /\ UNCHANGED <<builds, secretKey, writing, number, savedBuild, clashes, mishaps>>

\* Whoever comes while a write is under way waits for it.
storeRegistrationToken == writing' = IF writing = <<>> THEN <<"asked">> ELSE writing

\* mutant: no look for a build an earlier call left behind.
FindLiveBuildSkipped(o) ==
  /\ callStep[o] = "finding"
  /\ Goto(o, "storing") /\ storeRegistrationToken
  /\ UNCHANGED <<builds, secretKey, number, savedBuild, clashes, mishaps>>

\* findLiveBuild: a build an earlier call left behind is used.
FindLiveBuild(o) ==
  /\ callStep[o] = "finding"
  /\ \/ /\ buildsOf(o) # {}
        /\ \E b \in buildsOf(o) : number' = [number EXCEPT ![o] = b]
        /\ Goto(o, "waiting") /\ UNCHANGED writing
     \/ /\ buildsOf(o) = {}
        /\ Goto(o, "storing") /\ storeRegistrationToken
        /\ UNCHANGED number
  /\ UNCHANGED <<builds, secretKey, savedBuild, clashes, mishaps>>

\* writeRegistrationToken: the pipeline's cluster, then the secret by its key.
WriterLooks(i) ==
  /\ i <= Len(writing) /\ writing[i] = "asked"
  /\ writing' = [writing EXCEPT ![i] = IF secretKey THEN "there" ELSE "missing"]
  /\ UNCHANGED <<builds, secretKey, callStep, number, savedBuild, clashes, mishaps>>

\* A write settles, and with it the calls that wait for it.
settled(i, ok) ==
  /\ writing' = SubSeq(writing, 1, i - 1) \o SubSeq(writing, i + 1, Len(writing))
  /\ callStep' = [o \in Owners |-> IF callStep[o] # "storing" THEN callStep[o] ELSE IF ok THEN "posting" ELSE "rest"]

\* The secret is created, or given a new value; Buildkite refuses a key it has
\* and a value for a secret that is gone.
WriterWrites(i) ==
  /\ i <= Len(writing) /\ writing[i] # "asked"
  /\ LET ok == secretKey = (writing[i] = "there")
     IN  /\ secretKey' = (secretKey \/ writing[i] = "missing")
         /\ settled(i, ok)
         /\ clashes' = IF secretKey /\ ~ok THEN clashes + 1 ELSE clashes
  /\ UNCHANGED <<builds, number, savedBuild, mishaps>>

\* A request of the write fails; it may have been carried out.
WriterFails(i) ==
  /\ i <= Len(writing) /\ Mishap
  /\ settled(i, FALSE)
  /\ secretKey' \in {secretKey, secretKey \/ writing[i] = "missing"}
  /\ UNCHANGED <<builds, number, savedBuild, clashes>>

created(o) == Append(builds, [owner |-> o, state |-> "scheduled"])

PostBuild(o) ==
  /\ callStep[o] = "posting" /\ Len(builds) < MaxBuilds
  /\ builds' = created(o)
  /\ number' = [number EXCEPT ![o] = Len(builds')]
  /\ Goto(o, "waiting")
  /\ UNCHANGED <<secretKey, writing, savedBuild, clashes, mishaps>>

\* The request fails; the build may have been made.
PostFails(o) ==
  /\ callStep[o] = "posting" /\ Len(builds) < MaxBuilds /\ Mishap
  /\ builds' \in {builds, created(o)}
  /\ Goto(o, "rest")
  /\ UNCHANGED <<secretKey, writing, number, savedBuild, clashes>>

\* waitForRunning: the poll sees the build running, and the engine saves it.
BuildRunning(o) ==
  /\ callStep[o] = "waiting" /\ builds[number[o]].state = "running"
  /\ savedBuild' = [savedBuild EXCEPT ![o] = number[o]]
  /\ Goto(o, "rest")
  /\ UNCHANGED <<builds, secretKey, writing, number, clashes, mishaps>>

\* It finished before its runner started, or disappeared.
GivesUp(o) ==
  /\ callStep[o] = "waiting" /\ ~Live(number[o])
  /\ Goto(o, "rest")
  /\ UNCHANGED <<builds, secretKey, writing, number, savedBuild, clashes, mishaps>>

\* The deadline passes: the build is cancelled, whatever Buildkite answers.
TimesOut(o) ==
  /\ callStep[o] = "waiting" /\ builds[number[o]].state = "scheduled" /\ Mishap
  /\ builds' \in {builds, canceled(number[o])}
  /\ Goto(o, "rest")
  /\ UNCHANGED <<secretKey, writing, number, savedBuild, clashes>>

-----------------------------------------------------------------------------
(* The other operations, and the engine around them. *)

\* wake, as the engine's probe: a live build is waited for, a finished one is
\* missing and is replaced.
WakeBuild(o) ==
  /\ callStep[o] = "rest" /\ savedBuild[o] # 0
  /\ \/ /\ Live(savedBuild[o])
        /\ number' = [number EXCEPT ![o] = savedBuild[o]] /\ Goto(o, "waiting") /\ UNCHANGED savedBuild
     \/ /\ ~Live(savedBuild[o])
        /\ savedBuild' = [savedBuild EXCEPT ![o] = 0] /\ Goto(o, "finding") /\ UNCHANGED number
  /\ UNCHANGED <<builds, secretKey, writing, clashes, mishaps>>

\* destroy: a build that is gone or finished is fine.
Destroy(o) ==
  /\ callStep[o] = "rest" /\ savedBuild[o] # 0
  /\ builds' = canceled(savedBuild[o])
  /\ savedBuild' = [savedBuild EXCEPT ![o] = 0]
  /\ UNCHANGED <<secretKey, writing, callStep, number, clashes, mishaps>>

\* The cancel fails where the engine goes on regardless.
DestroyFails(o) ==
  /\ callStep[o] = "rest" /\ savedBuild[o] # 0 /\ Mishap
  /\ builds' \in {builds, canceled(savedBuild[o])}
  /\ savedBuild' = [savedBuild EXCEPT ![o] = 0]
  /\ UNCHANGED <<secretKey, writing, callStep, number, clashes>>

\* The host stops; what it asked for may have been carried out.
HostStops ==
  /\ Mishap
  /\ callStep' = [o \in Owners |-> "rest"] /\ writing' = <<>>
  /\ builds' \in {builds} \cup {created(o) : o \in {p \in Owners : callStep[p] = "posting" /\ Len(builds) < MaxBuilds}}
  /\ secretKey' \in {secretKey, secretKey \/ \E i \in 1 .. Len(writing) : writing[i] = "missing"}
  /\ UNCHANGED <<number, savedBuild, clashes>>

\* Buildkite: a job starts, a build ends, and someone deletes the secret.
JobStarts(b) ==
  /\ b <= Len(builds) /\ builds[b].state = "scheduled"
  /\ builds' = [builds EXCEPT ![b].state = "running"]
  /\ UNCHANGED <<secretKey, writing, callStep, number, savedBuild, clashes, mishaps>>

BuildEnds(b) ==
  /\ b <= Len(builds) /\ Live(b) /\ Mishap
  /\ builds' = [builds EXCEPT ![b].state = "failed"]
  /\ UNCHANGED <<secretKey, writing, callStep, number, savedBuild, clashes>>

SecretDeleted ==
  /\ secretKey /\ Mishap
  /\ secretKey' = FALSE
  /\ UNCHANGED <<builds, writing, callStep, number, savedBuild, clashes>>

-----------------------------------------------------------------------------

BuildsInit ==
  /\ builds = <<>> /\ secretKey = FALSE /\ writing = <<>>
  /\ callStep = [o \in Owners |-> "rest"] /\ number = [o \in Owners |-> 0] /\ savedBuild = number
  /\ clashes = 0 /\ mishaps = 0

BuildsNext ==
  \/ \E o \in Owners : \/ StartProvision(o) \/ FindLiveBuild(o) \/ PostBuild(o) \/ PostFails(o)
                       \/ BuildRunning(o) \/ GivesUp(o) \/ TimesOut(o)
                       \/ WakeBuild(o) \/ Destroy(o) \/ DestroyFails(o)
  \/ \E i \in 1 .. Cardinality(Owners) : WriterLooks(i) \/ WriterWrites(i) \/ WriterFails(i)
  \/ \E b \in 1 .. MaxBuilds : JobStarts(b) \/ BuildEnds(b)
  \/ HostStops \/ SecretDeleted

BuildsSpec == BuildsInit /\ [][BuildsNext]_buildVars

-----------------------------------------------------------------------------

\* A session never has two live builds: one left behind by a crash, a lost
\* answer or a cancel that failed is found and used by the next provision.
OneLiveBuild == \A o \in Owners : Cardinality(buildsOf(o)) <= 1

\* "two separate first writes would both create the secret, and Buildkite
\* rejects the second key" (storeRegistrationToken): provisions of one backend
\* never do, whatever they overlap with.
NoKeyClash == clashes = 0
=============================================================================
