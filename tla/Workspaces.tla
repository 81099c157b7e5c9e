------------------------------ MODULE Workspaces ------------------------------
(***************************************************************************)
(* Repository workspaces (workspace-anchor.ts), the Scratch workspace       *)
(* (scratch-workspace.ts), and the repository a session's sandbox gets      *)
(* (sandbox-manager.ts).  A workspace is a host directory, the anchor, with *)
(* a file that names its repository; the directory's name is a hash of the  *)
(* normalized URL, so an anchor is identified by that URL here.             *)
(*                                                                         *)
(* A URL is its form, its repository, whether its path is written in another *)
(* case, and whether it ends in ".git".  Repositories whose own name ends in  *)
(* ".git" are left out.                                                    *)
(***************************************************************************)
EXTENDS Naturals, FiniteSets

CONSTANTS Repos,       \* repositories
          Makers,      \* calls of createRepositoryWorkspace
          Visits,      \* sessions
          MaxMade,     \* bound: calls of createRepositoryWorkspace
          MaxStops     \* bound: crashes, deleted workspaces, writes that fail

ASSUME WorkspaceConstants == {MaxMade, MaxStops} \subseteq Nat

\* "ssh" is an scp or SSH address without a port, GitHub's counting as https;
\* "http" is HTTP, git:// or SSH with a port; "junk" is no URL, or one with
\* credentials or a query.
Forms == {"https", "ssh", "http", "junk"}
Spellings == [form : Forms, repo : Repos, caps : BOOLEAN, suffix : {"none", ".git"}]
Url(r) == [form |-> "https", repo |-> r, caps |-> FALSE, suffix |-> "none"]

\* What is no URL: a refusal, none, the empty one, and paths.
Other(what) == [form |-> what, repo |-> "none", caps |-> FALSE, suffix |-> "none"]
Bad == Other("bad")
NoAddress == Other("none")
EmptyUrl == Other("empty")
ScratchPath == Other("scratch")
Elsewhere == Other("elsewhere")
Nowhere == Other("nowhere")

VARIABLES metadata,  \* per URL: the anchor's metadata, "none", "part" or "whole"
          maker,     \* creations in progress, and their temporary file
          workspaces,\* registry of dsh: URLs, the scratch path, other directories
          visit,     \* sessions: their cwd and the repository in their record, the
                     \* empty URL for one in the Scratch workspace
          configured,\* config.repository, or NoAddress
          promptSaid,\* ghost: what the prompt said of the session, before its record
          made, stops

workspaceVars == <<metadata, maker, workspaces, visit, configured, promptSaid, made, stops>>

NoMaker == [at |-> "idle", url |-> Bad, file |-> "none"]
NoVisit == [cwd |-> Nowhere, record |-> NoAddress]

-----------------------------------------------------------------------------
(* Addresses. *)

\* SSH becomes HTTPS; HTTP, git:// and a port are refused, the rest is left to
\* the next check.
httpsRepositoryUrl(i) ==
  CASE i.form = "ssh" -> [i EXCEPT !.form = "https"]
    [] i.form = "http" -> Bad
    [] OTHER -> i

\* The ".git" goes; the form and the case of the path stay.
normalizeWorkspaceRepositoryUrl(i) == IF i.form \in {"junk", "bad"} THEN Bad ELSE [i EXCEPT !.suffix = "none"]

\* The URLs that metadata may hold: new ones, and the SSH, HTTP and git forms
\* of older versions.
AnchorUrls == {u \in Spellings : normalizeWorkspaceRepositoryUrl(u) = u}
OlderAnchors == {u \in AnchorUrls : u.form # "https"}

-----------------------------------------------------------------------------
(* Creating a workspace. *)

Set(m, at) == maker' = [maker EXCEPT ![m].at = at]
Ends(m) == maker' = [maker EXCEPT ![m] = NoMaker]

createAnchor(m, i) ==
  LET u == normalizeWorkspaceRepositoryUrl(httpsRepositoryUrl(i))
  IN /\ maker[m].at = "idle" /\ made < MaxMade
     /\ made' = made + 1
     /\ maker' = [maker EXCEPT ![m] = IF u = Bad THEN NoMaker
                                         ELSE [NoMaker EXCEPT !.at = "read", !.url = u]]
     /\ UNCHANGED <<configured, metadata, workspaces, visit, promptSaid, stops>>

\* readAnchorMetadata: no file yet, a whole one, or one cut short, which fails
\* the creation.
ReadMetadata(m) ==
  /\ maker[m].at \in {"read", "again"}
  /\ LET found == metadata[maker[m].url]
     IN  CASE found = "whole" -> Set(m, "register")
           [] found = "none" /\ maker[m].at = "read" -> Set(m, "write")
           [] OTHER -> Ends(m)
  /\ UNCHANGED <<configured, metadata, workspaces, visit, promptSaid, made, stops>>

\* writeFile of a temporary of its own, which takes its time and may fail.
WriteTemporary(m) ==
  /\ \/ maker[m].at = "write" /\ maker' = [maker EXCEPT ![m].at = "writing", ![m].file = "part"]
        /\ UNCHANGED stops
     \/ maker[m].at = "writing" /\ maker' = [maker EXCEPT ![m].at = "rename", ![m].file = "whole"]
        /\ UNCHANGED stops
     \/ maker[m].at = "writing" /\ Ends(m) /\ stops < MaxStops /\ stops' = stops + 1
  /\ UNCHANGED <<configured, metadata, workspaces, visit, promptSaid, made>>

\* The rename that makes the temporary the file.
WriteMetadata(m) ==
  /\ maker[m].at = "rename"
  /\ metadata' = [metadata EXCEPT ![maker[m].url] = maker[m].file]
  /\ maker' = [maker EXCEPT ![m].at = "again", ![m].file = "none"]
  /\ UNCHANGED <<configured, workspaces, visit, promptSaid, made, stops>>

\* registry.create answers the workspace there is for a path it knows.
Register(m) ==
  /\ maker[m].at = "register"
  /\ workspaces' = workspaces \cup {maker[m].url}
  /\ Ends(m)
  /\ UNCHANGED <<configured, metadata, visit, promptSaid, made, stops>>

-----------------------------------------------------------------------------
(* The registry and the settings pages. *)

\* The stock delete, which the Scratch row wraps.
DeleteWorkspace(w) ==
  /\ w \in workspaces /\ w # ScratchPath
  /\ stops < MaxStops /\ stops' = stops + 1
  /\ workspaces' = workspaces \ {w}
  /\ UNCHANGED <<configured, metadata, maker, visit, promptSaid, made>>

\* A directory that is no anchor has none; metadata that cannot be read throws.
repositoryForAnchor(w) ==
  IF w \notin AnchorUrls \/ metadata[w] = "none" THEN NoAddress
  ELSE IF metadata[w] = "whole" THEN w ELSE Bad

\* What the settings pages list; one entry that throws fails the whole list.
workspaceScopes == {repositoryForAnchor(w) : w \in workspaces} \ {NoAddress}

-----------------------------------------------------------------------------
(* The repository of a session. *)

Open(v, w) ==
  /\ visit[v] = NoVisit /\ w \in workspaces
  /\ visit' = [visit EXCEPT ![v].cwd = w]
  /\ UNCHANGED <<configured, metadata, maker, workspaces, promptSaid, made, stops>>

\* From the record once there is one, before that from the cwd.
inScratchWorkspace(v) ==
  IF visit[v].record # NoAddress THEN visit[v].record = EmptyUrl ELSE visit[v].cwd = ScratchPath

Prompted(v) ==
  /\ visit[v].cwd # Nowhere /\ promptSaid[v] = "nothing"
  /\ promptSaid' = [promptSaid EXCEPT ![v] = IF inScratchWorkspace(v) THEN "scratch" ELSE "repository"]
  /\ UNCHANGED <<configured, metadata, maker, workspaces, visit, made, stops>>

\* mutant: the configured repository comes first.
repositoryForConfigured(v, origin) ==
  IF configured # NoAddress THEN configured
  ELSE IF inScratchWorkspace(v) THEN EmptyUrl
  ELSE IF repositoryForAnchor(visit[v].cwd) # NoAddress THEN repositoryForAnchor(visit[v].cwd)
  ELSE origin

\* None in the Scratch workspace, then the anchor's, the configured one, and
\* last the origin of a clone at the cwd, which may not be there.
repositoryFor(v, origin) ==
  IF inScratchWorkspace(v) THEN EmptyUrl
  ELSE IF repositoryForAnchor(visit[v].cwd) # NoAddress THEN repositoryForAnchor(visit[v].cwd)
  ELSE IF configured # NoAddress THEN configured
  ELSE origin

ProvisionVisit(v, origin) ==
  /\ visit[v].cwd # Nowhere /\ visit[v].record = NoAddress
  /\ repositoryFor(v, origin) \notin {NoAddress, Bad}
  /\ visit' = [visit EXCEPT ![v].record = repositoryFor(v, origin)]
  /\ UNCHANGED <<configured, metadata, maker, workspaces, promptSaid, made, stops>>

-----------------------------------------------------------------------------

\* The control plane stops in the middle of its creations.  At boot the
\* Scratch row registers its workspace again.
AnchorsCrash ==
  /\ stops < MaxStops /\ stops' = stops + 1
  /\ maker' = [m \in Makers |-> NoMaker]
  /\ workspaces' = workspaces \cup {ScratchPath}
  /\ UNCHANGED <<configured, metadata, visit, promptSaid, made>>

WorkspacesInit ==
  /\ \E older \in SUBSET OlderAnchors :
       /\ metadata = [u \in AnchorUrls |-> IF u \in older THEN "whole" ELSE "none"]
       /\ workspaces = {ScratchPath, Elsewhere} \cup older
  /\ maker = [m \in Makers |-> NoMaker]
  /\ visit = [v \in Visits |-> NoVisit]
  /\ configured \in {Url(r) : r \in Repos} \cup {NoAddress}
  /\ promptSaid = [v \in Visits |-> "nothing"]
  /\ made = 0 /\ stops = 0

WorkspacesNext ==
  \/ \E m \in Makers :
       \/ \E i \in Spellings : createAnchor(m, i)
       \/ ReadMetadata(m) \/ WriteTemporary(m) \/ WriteMetadata(m) \/ Register(m)
  \/ \E w \in workspaces : DeleteWorkspace(w)
  \/ \E v \in Visits :
       \/ \E w \in workspaces : Open(v, w)
       \/ Prompted(v)
       \/ \E origin \in {Url(r) : r \in Repos} \cup {NoAddress} : ProvisionVisit(v, origin)
  \/ AnchorsCrash

WorkspacesSpec == WorkspacesInit /\ [][WorkspacesNext]_workspaceVars

-----------------------------------------------------------------------------

\* Neither a crash, a failed write nor a concurrent creation leaves an anchor
\* whose metadata is cut short: it would fail each later creation of that
\* workspace and, through one entry, every settings page.
AnchorsReadable ==
  /\ Bad \notin workspaceScopes
  /\ \A m \in Makers : maker[m].at \in {"read", "again"} => metadata[maker[m].url] # "part"

\* A session's sandbox holds the repository of the workspace it was opened
\* in, and the one the prompt told of: none in Scratch, whatever is
\* configured, and the anchor's own URL, of an older form too, even when the
\* workspace was deleted since.
RightRepository ==
  \A v \in Visits : visit[v].record # NoAddress =>
    /\ visit[v].cwd = ScratchPath <=> visit[v].record = EmptyUrl
    /\ visit[v].cwd \in AnchorUrls => visit[v].record = visit[v].cwd
    /\ promptSaid[v] # "nothing" => (promptSaid[v] = "scratch" <=> visit[v].record = EmptyUrl)
=============================================================================
