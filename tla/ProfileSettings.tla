--------------------------- MODULE ProfileSettings ---------------------------
(***************************************************************************)
(* Sandbox profiles as settings: the deployment's document and the page's  *)
(* edits resolved piece by piece (config.ts, runtime-settings.ts), the     *)
(* registry of backends rebuilt from them (profile-registry.ts), the       *)
(* profile a session chose (profile-choice.ts), and the provisioning that  *)
(* reads all of it (sandbox-manager.ts, sandbox-lifecycle.ts).             *)
(*                                                                         *)
(* A profile is what its fields come to: one that works on Docker, one on  *)
(* Kubernetes, whose backend loads a kubeconfig when it is built and folds *)
(* in the common ready timeout, and one the resolver throws at.  Names are *)
(* numbers, so that "the first configured" is the least; the deployment's  *)
(* come first.                                                             *)
(***************************************************************************)
EXTENDS Naturals, FiniteSets, FiniteSetsExt

CONSTANTS Names, Chart,     \* profile names; those of the deployment
          Rooms,            \* root sessions
          MaxPageEdits,     \* bound: edits of the page
          MaxOther          \* bound: choices, restarts and changes of the kubeconfig

ASSUME ProfileAssumption == Names \subseteq Nat \ {0} /\ Chart \subseteq Names

VARIABLES
  chart,      \* the deployment's profiles, read once
  page,       \* the page's own profiles, "none" where it has none
  pageDefault,\* the page's default profile, 0 if unset
  ready,      \* the page's ready timeout: "unset", "long", or "negative"
  kubeconfig, \* the kubeconfig file can be loaded
  hostUp,     \* the row is mounted
  registry,   \* ProfileRegistry.profiles: resolved profiles by name
  builtFor,   \* ProfileRegistry.backends: what each backend was built for
  applied,    \* appliedProfilesJson
  warned,     \* warnedSignature
  picked,     \* pendingProfiles of the session store
  sandbox,    \* the profile of the session's record, 0 without one
  doing,      \* where the session's ensureRunning is, and what it picked
  good,       \* ghost: the profiles last synchronised that could all be served
  pageEdits, other

settingVars == <<chart, page, pageDefault, ready, kubeconfig, hostUp, registry, builtFor, applied,
                 warned, picked, sandbox, doing, good, pageEdits, other>>
hostVars == <<hostUp, registry, builtFor, applied, warned, good>>
pageVars == <<chart, page, pageDefault, ready>>

\* A broken profile has a value the checks of its kind refuse.
BackendKinds == {"docker", "kas", "broken"}
AtRest == [at |-> "rest", name |-> 0, profile |-> 0, edits |-> 0, whole |-> FALSE]

-----------------------------------------------------------------------------
(* Resolution. *)

\* withDeploymentBase: the deployment owns its names.
raw == [n \in {k \in Names : k \in Chart \/ page[k] # "none"} |-> IF n \in Chart THEN chart[n] ELSE page[n]]

\* The ready timeout of the slice; one that is not positive is left out.
readyTimeout == IF ready = "negative" THEN "unset" ELSE ready

\* resolveProfile: every default applied.
resolveProfile(kind) == [kind |-> kind, ready |-> IF kind = "kas" THEN readyTimeout ELSE "none"]

\* resolveDegradingRuntime: what cannot be resolved is dropped, with a warning.
profiles == [n \in {k \in DOMAIN raw : raw[k] # "broken"} |-> resolveProfile(raw[n])]
defaultProfile ==
  IF DOMAIN profiles = {} THEN 0
  ELSE IF pageDefault \in DOMAIN profiles THEN pageDefault ELSE Min(DOMAIN profiles)
warnings ==
  [ignored |-> {n \in DOMAIN raw : raw[n] = "broken"},
   default |-> pageDefault # 0 /\ DOMAIN profiles # {} /\ pageDefault \notin DOMAIN profiles,
   ready |-> ready = "negative"]

\* RuntimeSettings.current: a changed set of warnings is logged.
current == warned' = warnings

-----------------------------------------------------------------------------
(* The registry. *)

\* createBackend throws for Kubernetes when the kubeconfig cannot be loaded.
buildable(p) == p.kind # "kas" \/ kubeconfig

unchanged(n) == n \in DOMAIN registry /\ registry[n] = profiles[n]

\* ProfileRegistry.update: all or nothing, and unchanged profiles keep theirs.
update ==
  /\ registry' = profiles
  /\ builtFor' = [n \in DOMAIN profiles |-> IF unchanged(n) THEN builtFor[n] ELSE profiles[n]]

updates == \A n \in DOMAIN profiles : unchanged(n) \/ buildable(profiles[n])

\* mutant: the profiles count as applied whether or not they could be.
syncForgets ==
  /\ current
  /\ applied' = profiles
  /\ IF applied # profiles /\ updates THEN update ELSE UNCHANGED <<registry, builtFor>>
  /\ UNCHANGED hostUp

\* syncRuntimeSettings: nothing to do when nothing changed; a refused update
\* leaves what was applied, so the next call tries again.
syncRuntimeSettings ==
  /\ current
  /\ IF applied # profiles /\ updates THEN update /\ applied' = profiles
     ELSE UNCHANGED <<registry, builtFor, applied>>
  /\ UNCHANGED hostUp

-----------------------------------------------------------------------------
(* The operator. *)

EditProfile(n, kind) ==
  /\ hostUp /\ pageEdits < MaxPageEdits /\ page[n] # kind
  /\ pageEdits' = pageEdits + 1
  /\ page' = [page EXCEPT ![n] = kind]
  /\ UNCHANGED <<chart, pageDefault, ready, kubeconfig, hostVars, picked, sandbox, doing, other>>

EditScalar(n, r) ==
  /\ hostUp /\ pageEdits < MaxPageEdits /\ <<n, r>> # <<pageDefault, ready>>
  /\ pageEdits' = pageEdits + 1
  /\ pageDefault' = n /\ ready' = r
  /\ UNCHANGED <<chart, page, kubeconfig, hostVars, picked, sandbox, doing, other>>

\* The Sandboxes page reads the resolved slice.
getSandboxSettings ==
  /\ hostUp /\ current
  /\ UNCHANGED <<pageVars, kubeconfig, hostUp, registry, builtFor, applied, good, picked, sandbox, doing, pageEdits, other>>

KubeconfigMoves ==
  /\ other < MaxOther
  /\ other' = other + 1
  /\ kubeconfig' = ~kubeconfig
  /\ UNCHANGED <<pageVars, hostVars, picked, sandbox, doing, pageEdits>>

\* buildBackends, for the constructor: every backend, or it throws.
boots == \A n \in DOMAIN profiles : buildable(profiles[n])

\* The row is constructed again: the settings resolve as they do live, and the
\* backends are all built.
Boot ==
  /\ other < MaxOther
  /\ other' = other + 1
  /\ doing' = [s \in Rooms |-> AtRest]
  /\ hostUp' = boots
  /\ registry' = profiles /\ builtFor' = profiles /\ applied' = profiles /\ warned' = warnings
  /\ good' = profiles
  /\ UNCHANGED <<pageVars, kubeconfig, picked, sandbox, pageEdits>>

-----------------------------------------------------------------------------
(* Sessions. *)

\* ProfileChoice.pendingName.
pendingName(s) == IF picked[s] # 0 THEN picked[s] ELSE defaultProfile

\* ProfileChoice.set: a configured profile, for a session without a sandbox.
Choose(s, n) ==
  /\ hostUp /\ other < MaxOther
  /\ n \in DOMAIN profiles /\ sandbox[s] = 0
  /\ other' = other + 1
  /\ picked' = [picked EXCEPT ![s] = n]
  /\ current
  /\ UNCHANGED <<pageVars, kubeconfig, hostUp, registry, builtFor, applied, good, sandbox, doing, pageEdits>>

\* Every profile of the settings can be served, if the last ones that could
\* are: it is one of those, or its backend can be built now.
servable == \A n \in DOMAIN profiles : (n \in DOMAIN good /\ good[n] = profiles[n]) \/ buildable(profiles[n])

\* ensureRunning: the settings are synchronised before the session's lock.
EnsureRunning(s) ==
  /\ hostUp /\ doing[s].at = "rest" /\ sandbox[s] = 0
  /\ syncRuntimeSettings
  /\ doing' = [doing EXCEPT ![s] = [AtRest EXCEPT !.at = "queued", !.edits = pageEdits,
                 !.whole = servable]]
  /\ good' = IF servable THEN profiles ELSE good
  /\ UNCHANGED <<pageVars, kubeconfig, picked, sandbox, pageEdits, other>>

\* provisionFresh, in the lock: ProfileChoice.pending, then the repository.
Pick(s) ==
  /\ hostUp /\ doing[s].at = "queued"
  /\ current
  /\ LET n == pendingName(s)
     IN  doing' = [doing EXCEPT ![s] = IF n \in DOMAIN profiles
                                       THEN [@ EXCEPT !.at = "picked", !.name = n, !.profile = profiles[n]]
                                       ELSE AtRest]
  /\ UNCHANGED <<pageVars, kubeconfig, hostUp, registry, builtFor, applied, good, picked, sandbox, pageEdits, other>>

\* claimSandbox: the backend of that name; without one it throws.
Claim(s) ==
  /\ hostUp /\ doing[s].at = "picked"
  /\ doing' = [doing EXCEPT ![s] = IF @.name \in DOMAIN registry THEN [@ EXCEPT !.at = "provisioning"] ELSE AtRest]
  /\ UNCHANGED <<pageVars, kubeconfig, hostVars, picked, sandbox, pageEdits, other>>

\* The backend answers, or fails; the store takes the record and drops the
\* choice.
BoxProvisioned(s, ok) ==
  /\ hostUp /\ doing[s].at = "provisioning"
  /\ doing' = [doing EXCEPT ![s] = AtRest]
  /\ IF ok THEN sandbox' = [sandbox EXCEPT ![s] = doing[s].name] /\ picked' = [picked EXCEPT ![s] = 0]
     ELSE UNCHANGED <<sandbox, picked>>
  /\ UNCHANGED <<pageVars, kubeconfig, hostVars, pageEdits, other>>

Released(s) ==
  /\ hostUp /\ other < MaxOther /\ sandbox[s] # 0
  /\ other' = other + 1
  /\ sandbox' = [sandbox EXCEPT ![s] = 0]
  /\ UNCHANGED <<pageVars, kubeconfig, hostVars, picked, doing, pageEdits>>

-----------------------------------------------------------------------------

SettingsInit ==
  /\ chart \in [Chart -> BackendKinds] /\ page = [n \in Names |-> "none"]
  /\ pageDefault = 0 /\ ready = "unset" /\ hostUp = TRUE
  /\ kubeconfig \in BOOLEAN /\ boots
  /\ registry = profiles /\ builtFor = profiles /\ applied = profiles /\ warned = warnings
  /\ good = profiles
  /\ picked = [s \in Rooms |-> 0] /\ sandbox = picked
  /\ doing = [s \in Rooms |-> AtRest]
  /\ pageEdits = 0 /\ other = 0

SettingsNext ==
  \/ \E n \in Names, kind \in BackendKinds \cup {"none"} : EditProfile(n, kind)
  \/ \E n \in Names \cup {0}, r \in {"unset", "long", "negative"} : EditScalar(n, r)
  \/ getSandboxSettings \/ KubeconfigMoves \/ Boot
  \/ \E s \in Rooms : \/ EnsureRunning(s) \/ Pick(s) \/ Claim(s) \/ Released(s)
                      \/ \E n \in Names : Choose(s, n)
                      \/ \E ok \in BOOLEAN : BoxProvisioned(s, ok)

SettingsSpec == SettingsInit /\ [][SettingsNext]_settingVars

-----------------------------------------------------------------------------

\* The backends never mix two versions of the settings: they are those of the
\* last version synchronised that could all be served, whatever is edited,
\* refused, tried again or kept.  So a session whose call was refused an
\* update, or whose profile is edited under it, is provisioned by the last good
\* version or not at all; and one whose call synchronised a version that could
\* be served, with no edit since, by a backend built for the profile it picks
\* as it stands.
PickServed ==
  /\ registry = good /\ builtFor = good
  /\ \A s \in Rooms :
       doing[s].at = "picked" /\ doing[s].edits = pageEdits /\ doing[s].whole
       => /\ doing[s].name \in DOMAIN builtFor
          /\ builtFor[doing[s].name] = doing[s].profile
=============================================================================
