------------------------------ MODULE MCStreams ------------------------------
(***************************************************************************)
(* What a client waits for: a command's output, a terminal, a programmatic *)
(* tool call, a navigation through the login, a preview.  The five share   *)
(* no state: a behaviour moves the one that focus names and leaves the     *)
(* others as they began, so that one run explores the sum of their states. *)
(***************************************************************************)
EXTENDS ExecCall, Terminal, PtcRun, SignIn, PreviewRelay

VARIABLE focus

streamsRunVars == <<focus, execVars, termVars, ptcVars, signVars, previewVars>>

\* Where a component out of focus may begin in several states, one is enough.
MCInit ==
  /\ focus \in {"exec", "terminal", "ptc", "signin", "preview"}
  /\ ExecInit /\ (focus # "exec" => kind = "shell" /\ deaf = "none")
  /\ TermInit /\ (focus # "terminal" => ~tDeaf)
  /\ PtcInit
  /\ SignInit /\ (focus # "signin" => mode = "passcode" /\ ~cookie)
  /\ PreviewInit

Only(c, others) == focus = c /\ UNCHANGED <<focus, others>>

ExecStep == Only("exec", <<termVars, ptcVars, signVars, previewVars>>) /\ ExecNext
TerminalStep == Only("terminal", <<execVars, ptcVars, signVars, previewVars>>) /\ TermNext
PtcStep == Only("ptc", <<execVars, termVars, signVars, previewVars>>) /\ PtcNext
SignInStep == Only("signin", <<execVars, termVars, ptcVars, previewVars>>) /\ SignNext
PreviewStep == Only("preview", <<execVars, termVars, ptcVars, signVars>>) /\ PreviewNext

MCNext == ExecStep \/ TerminalStep \/ PtcStep \/ SignInStep \/ PreviewStep

\* ExecFairness, TermFairness, SignFairness and PreviewFairness of the component in focus.
MCFairness ==
  /\ WF_execVars(focus = "exec" /\ ExecStart) /\ WF_execVars(focus = "exec" /\ SendChunk)
  /\ WF_execVars(focus = "exec" /\ SendExit) /\ WF_execVars(focus = "exec" /\ Drained)
  /\ WF_execVars(focus = "exec" /\ Write) /\ WF_execVars(focus = "exec" /\ CopyEnds)
  /\ WF_execVars(focus = "exec" /\ Reaped) /\ WF_execVars(focus = "exec" /\ GraceExpires)
  /\ WF_execVars(focus = "exec" /\ Terminate)
  /\ WF_termVars(focus = "terminal" /\ Consume) /\ WF_termVars(focus = "terminal" /\ StreamEnds)
  /\ WF_termVars(focus = "terminal" /\ TerminalStart) /\ WF_termVars(focus = "terminal" /\ Control)
  /\ WF_termVars(focus = "terminal" /\ WriteInput) /\ WF_termVars(focus = "terminal" /\ ControlsDone)
  /\ WF_termVars(focus = "terminal" /\ Ladder) /\ WF_termVars(focus = "terminal" /\ Pump)
  /\ WF_termVars(focus = "terminal" /\ ExitWatch) /\ WF_termVars(focus = "terminal" /\ SendClosed)
  /\ WF_termVars(focus = "terminal" /\ Return) /\ WF_termVars(focus = "terminal" /\ ReadInput)
  /\ \A t \in Tabs : WF_signVars(focus = "signin" /\ Answer(t))
  /\ WF_signVars(focus = "signin" /\ \E ok \in BOOLEAN : Discovered(ok))
  /\ WF_previewVars(focus = "preview" /\ Waited)
  /\ WF_previewVars(focus = "preview" /\ previewMessages)
  /\ WF_previewVars(focus = "preview" /\ RelayTakes)
  /\ WF_previewVars(focus = "preview" /\ RelayFails)
  /\ WF_previewVars(focus = "preview" /\ browser = "gone" /\ Wrote)
  /\ WF_previewVars(focus = "preview" /\ Closed)
  /\ WF_previewVars(focus = "preview" /\ ProxyCancelled)

MCSpec == MCInit /\ [][MCNext]_streamsRunVars /\ MCFairness
=============================================================================
