-------------------------------- MODULE MCHost --------------------------------
(***************************************************************************)
(* The host's smaller components, checked in one run.  They share no state:*)
(* a behaviour moves the one that focus names and leaves the others as they *)
(* began, so that the run explores the sum of their states.                *)
(***************************************************************************)
EXTENDS McpChoice, Credentials, SessionTools, ProfileSettings, BuildkiteBuilds,
        StepPrompt, SandboxFiles, RunnerSetup, KasClaims, FileReference,
        Workspaces, SessionRoots

VARIABLE focus

Components == {"choice", "credentials", "tools", "call", "settings", "buildkite",
               "prompt", "files", "setup", "kas", "reference",
               "workspaces", "roots"}

\* A session, its subagent, that one's subagent, and a fork of the last.
MCParent == [a \in Family |-> a - 1]

hostRunVars == <<focus, choiceVars, credVars, toolVars, settingVars, buildVars,
                 promptVars, fileVars, setupVars, kasVars, referenceVars,
                 workspaceVars, rootVars>>

\* At most one anchor of an older version, in lower case.
OneOlder == {{u} : u \in {o \in OlderAnchors : ~o.caps}}

\* Where a component out of focus may begin in several states, one is enough.
MCInit ==
  /\ focus \in Components
  /\ ChoiceInit /\ (focus # "choice" => begun = 0)
  /\ CredInit /\ ToolsInit
  /\ SettingsInit /\ (focus # "settings" => kubeconfig /\ \A n \in Chart : chart[n] = "docker")
  /\ BuildsInit /\ PromptInit /\ FilesInit
  /\ SetupInit /\ (focus # "setup" => repo /\ revision)
  /\ KasInit /\ ReferenceInit
  /\ WorkspacesInit /\ (focus # "workspaces" => configured = NoAddress)
  /\ workspaces \cap AnchorUrls \in {{}} \cup (IF focus # "workspaces" THEN {} ELSE OneOlder)
  /\ RootsInit

Only(c, others) == focus = c /\ UNCHANGED <<focus, others>>

ChoiceStep ==
  /\ Only("choice", <<credVars, toolVars, settingVars, buildVars, promptVars, fileVars,
                setupVars, kasVars, referenceVars, workspaceVars, rootVars>>)
  /\ ChoiceNext
CredentialsStep ==
  /\ Only("credentials", <<choiceVars, toolVars, settingVars, buildVars, promptVars, fileVars,
                setupVars, kasVars, referenceVars, workspaceVars, rootVars>>)
  /\ CredNext
\* Who has the tools and the call of one of them meet in nothing.
ToolsStep ==
  /\ \/ Only("tools", kidVars)
     \/ Only("call", crewVars)
  /\ UNCHANGED <<choiceVars, credVars, settingVars, buildVars, promptVars, fileVars,
                setupVars, kasVars, referenceVars, workspaceVars, rootVars>>
  /\ ToolsNext
SettingsStep ==
  /\ Only("settings", <<choiceVars, credVars, toolVars, buildVars, promptVars, fileVars,
                setupVars, kasVars, referenceVars, workspaceVars, rootVars>>)
  /\ SettingsNext
BuildkiteStep ==
  /\ Only("buildkite", <<choiceVars, credVars, toolVars, settingVars, promptVars, fileVars,
                setupVars, kasVars, referenceVars, workspaceVars, rootVars>>)
  /\ BuildsNext
PromptStep ==
  /\ Only("prompt", <<choiceVars, credVars, toolVars, settingVars, buildVars, fileVars,
                setupVars, kasVars, referenceVars, workspaceVars, rootVars>>)
  /\ PromptNext
FilesStep ==
  /\ Only("files", <<choiceVars, credVars, toolVars, settingVars, buildVars, promptVars,
                setupVars, kasVars, referenceVars, workspaceVars, rootVars>>)
  /\ FilesNext
SetupStep ==
  /\ Only("setup", <<choiceVars, credVars, toolVars, settingVars, buildVars, promptVars,
                fileVars, kasVars, referenceVars, workspaceVars, rootVars>>)
  /\ SetupNext
KasStep ==
  /\ Only("kas", <<choiceVars, credVars, toolVars, settingVars, buildVars, promptVars,
                fileVars, setupVars, referenceVars, workspaceVars, rootVars>>)
  /\ KasNext
ReferenceStep ==
  /\ Only("reference", <<choiceVars, credVars, toolVars, settingVars, buildVars, promptVars,
                fileVars, setupVars, kasVars, workspaceVars, rootVars>>)
  /\ ReferenceNext
WorkspacesStep ==
  /\ Only("workspaces", <<choiceVars, credVars, toolVars, settingVars, buildVars, promptVars,
                fileVars, setupVars, kasVars, referenceVars, rootVars>>)
  /\ WorkspacesNext
RootsStep ==
  /\ Only("roots", <<choiceVars, credVars, toolVars, settingVars, buildVars, promptVars,
                fileVars, setupVars, kasVars, referenceVars, workspaceVars>>)
  /\ RootsNext

MCNext ==
  \/ ChoiceStep \/ CredentialsStep \/ ToolsStep \/ SettingsStep \/ BuildkiteStep
  \/ PromptStep \/ FilesStep \/ SetupStep \/ KasStep \/ ReferenceStep
  \/ WorkspacesStep \/ RootsStep

MCSpec == MCInit /\ [][MCNext]_hostRunVars
=============================================================================
