------------------------------- MODULE Terminal -------------------------------
(***************************************************************************)
(* One interactive terminal: the control plane's handle (remote-terminal   *)
(* .ts over message-queue.ts) and the runner's handler (terminal.go) with  *)
(* its pump, its exit watcher, its control loop and the termination        *)
(* ladder, over one bidirectional stream.  The sender goroutine and the    *)
(* response half of the stream are one channel, `tEvents`, which the       *)
(* handle consumes in order.                                               *)
(*                                                                         *)
(* The shell may leave a member behind that holds the PTY, in its process  *)
(* group or out of it.  Queries, signals and their answers are numbered by *)
(* ghosts: the code pairs them by order alone.                             *)
(***************************************************************************)
EXTENDS Naturals, Sequences

CONSTANTS MaxAsks,    \* bound: queries and signals sent
          MaxTyped,   \* bound: inputs and resizes sent
          MaxShown,   \* bound: outputs the session writes
          EventCap,   \* terminalEventBuffer (64 in the code)
          InputCap    \* inputs the line discipline holds

VARIABLES
  tHandle,   \* RemoteTerminal's flags and deferreds
  tAsk,      \* the control in flight: 0, or the number of a query
  tAsked,    \* queries sent
  tTyped,    \* inputs sent
  tPaired,   \* ghost: every answer so far belonged to its query
  tSeen,     \* outputs delivered
  tReqs,     \* MessageQueue and the request half: requests in flight
  tReqEnd,   \* the request half has ended
  tLost,     \* the tunnel broke under the stream
  tEvents,   \* the response queue
  tCtl,      \* receiveTerminalControls: "idle", "recv", "write", "done", "err"
  tLadder,   \* terminate: "off", "term", "kill", "closed"
  tPump,     \* the output pump: "idle", "run", "end"
  tGone,     \* masterGone
  tReaped,   \* session.exited
  tExitSent, \* the exit watcher has queued the status
  tShut,     \* the closed event is queued
  tRet,      \* the handler has returned
  tHungUp,   \* the master was closed over processes that still held the PTY
  lead,      \* the terminal's shell
  member,    \* the process it left behind: in its group or not
  tDeaf,     \* the shell ignores SIGTERM
  tPty,      \* outputs the PTY holds
  tShown,    \* outputs written
  tInput     \* inputs the line discipline holds

handleVars == <<tHandle, tAsk, tAsked, tTyped, tPaired, tSeen>>
tStreamVars == <<tReqs, tReqEnd, tLost>>
tRunVars == <<tCtl, tLadder, tPump, tGone, tReaped, tExitSent, tShut, tRet, tHungUp>>
ptyVars == <<lead, member, tDeaf, tPty, tShown, tInput>>
termVars == <<handleVars, tStreamVars, tEvents, tRunVars, ptyVars>>

Req(k, n) == [kind |-> k, n |-> n]
room == Len(tEvents) < EventCap

\* terminalEvents.send: a full queue waits, a closed one drops.
send(k, n) == room /\ tEvents' = Append(tEvents, Req(k, n))

ptyHeld == lead = "running" \/ member \in {"group", "apart"}

-----------------------------------------------------------------------------
(* The handle. *)

\* reply: one control in flight, the chain holds the next one until its answer.
ask(n) == tAsk = 0 /\ tAsk' = n /\ tReqs' = Append(tReqs, Req("ask", n))

\* A query of the foreground group or the activity, or a signal.
Ask ==
  /\ ~tHandle.closed /\ tAsked < MaxAsks
  /\ tAsked' = tAsked + 1
  /\ ask(tAsked + 1)
  /\ UNCHANGED <<tHandle, tTyped, tPaired, tSeen, tReqEnd, tLost, tEvents, tRunVars, ptyVars>>

\* write and resize.
Type ==
  /\ ~tHandle.closed /\ tAsk = 0 /\ tTyped < MaxTyped
  /\ tTyped' = tTyped + 1
  /\ tReqs' = Append(tReqs, Req("input", 0))
  /\ UNCHANGED <<tHandle, tAsk, tAsked, tPaired, tSeen, tReqEnd, tLost, tEvents, tRunVars, ptyVars>>

terminate ==
  /\ ~tHandle.closed
  /\ tHandle' = [tHandle EXCEPT !.closed = TRUE]
  /\ tReqEnd' = TRUE
  /\ UNCHANGED <<tAsk, tAsked, tTyped, tPaired, tSeen, tReqs, tLost, tEvents, tRunVars, ptyVars>>

\* RemoteTerminal.fail.
fail ==
  /\ tHandle' = [tHandle EXCEPT !.closed = TRUE, !.finished = TRUE,
                                !.done = IF tHandle.done = "none" THEN "failed" ELSE @]
  /\ tReqEnd' = TRUE
  /\ tAsk' = 0

\* One response, in the order of the stream; after a failure the sender
\* drains the queue and nobody listens.
Consume ==
  /\ tEvents # <<>>
  /\ tEvents' = Tail(tEvents)
  /\ LET e == Head(tEvents)
     IN  IF tLost THEN UNCHANGED <<handleVars, tReqEnd>>
         ELSE CASE e.kind = "started" ->
                     /\ tHandle' = [tHandle EXCEPT !.started = TRUE]
                     /\ UNCHANGED <<tAsk, tPaired, tSeen, tReqEnd>>
                [] e.kind = "output" ->
                     /\ tSeen' = tSeen + 1
                     /\ UNCHANGED <<tHandle, tAsk, tPaired, tReqEnd>>
                [] e.kind = "exited" ->
                     /\ tHandle' = [tHandle EXCEPT !.done = "exit"]
                     /\ UNCHANGED <<tAsk, tPaired, tSeen, tReqEnd>>
                [] e.kind = "closed" ->
                     /\ tHandle' = [tHandle EXCEPT !.closed = TRUE, !.quiescent = TRUE,
                                                   !.finished = TRUE]
                     /\ tReqEnd' = TRUE
                     /\ UNCHANGED <<tAsk, tPaired, tSeen>>
                [] OTHER ->
                     /\ tPaired' = (tPaired /\ tAsk \in {0, e.n})
                     /\ tAsk' = 0
                     /\ UNCHANGED <<tHandle, tSeen, tReqEnd>>
  /\ UNCHANGED <<tAsked, tTyped, tReqs, tLost, tRunVars, ptyVars>>

\* The response stream is over: cleanly, or with the handler's error.
StreamEnds ==
  /\ tRet /\ tEvents = <<>> /\ ~tLost
  /\ tHandle.over = FALSE
  /\ IF tCtl = "err" \/ tHandle.done = "none"
     THEN /\ tReqEnd' = TRUE
          /\ tAsk' = 0
          /\ tHandle' = [tHandle EXCEPT !.closed = TRUE, !.finished = TRUE, !.over = TRUE,
                                        !.done = IF @ = "none" THEN "failed" ELSE @]
     ELSE /\ tHandle' = [tHandle EXCEPT !.finished = TRUE, !.over = TRUE]
          /\ UNCHANGED <<tAsk, tReqEnd>>
  /\ UNCHANGED <<tAsked, tTyped, tPaired, tSeen, tReqs, tLost, tEvents, tRunVars, ptyVars>>

\* The tunnel breaks, or the allocation's signal aborts before the pid.
TunnelBreaks ==
  /\ ~tLost /\ ~tHandle.over
  /\ tLost' = TRUE
  /\ fail
  /\ UNCHANGED <<tAsked, tTyped, tPaired, tSeen, tReqs, tEvents, tRunVars, ptyVars>>

-----------------------------------------------------------------------------
(* The handler. *)

\* The shell leads a session of its own on a new PTY.
startTerminal == lead' = "running" /\ tCtl' = "recv" /\ tPump' = "run"

\* The first request allocates the PTY and starts the shell, or cannot.
TerminalStart ==
  /\ tCtl = "idle"
  /\ \/ /\ tReqs # <<>> /\ ~tLost
        /\ tReqs' = Tail(tReqs)
        /\ startTerminal
        /\ send("started", 0)
        /\ UNCHANGED tRet
     \/ /\ tCtl' = "err"
        /\ tRet' = TRUE
        /\ UNCHANGED <<tReqs, lead, tPump, tEvents>>
  /\ UNCHANGED <<handleVars, tReqEnd, tLost, tLadder, tGone, tReaped, tExitSent, tShut, tHungUp,
                 member, tDeaf, tPty, tShown, tInput>>

\* Every query and every signal is answered, with an empty answer when no
\* group is in the foreground.
answer(n) == send("answer", n)

\* mutant: a signal no group accepts is not answered.
ControlUnanswered ==
  /\ tCtl = "recv" /\ tReqs # <<>> /\ ~tLost
  /\ tReqs' = Tail(tReqs)
  /\ IF Head(tReqs).kind = "ask"
     THEN UNCHANGED tCtl /\ IF lead = "running" THEN answer(Head(tReqs).n) ELSE UNCHANGED tEvents
     ELSE tCtl' = "write" /\ UNCHANGED tEvents
  /\ UNCHANGED <<handleVars, tReqEnd, tLost, tLadder, tPump, tGone, tReaped, tExitSent, tShut,
                 tRet, tHungUp, ptyVars>>

\* One control: queries and signals are answered in order, input is written.
Control ==
  /\ tCtl = "recv" /\ tReqs # <<>> /\ ~tLost
  /\ tReqs' = Tail(tReqs)
  /\ IF Head(tReqs).kind = "ask"
     THEN answer(Head(tReqs).n) /\ UNCHANGED tCtl
     ELSE tCtl' = "write" /\ UNCHANGED tEvents
  /\ UNCHANGED <<handleVars, tReqEnd, tLost, tLadder, tPump, tGone, tReaped, tExitSent, tShut,
                 tRet, tHungUp, ptyVars>>

\* A write waits for room in the line discipline, whatever happens to the
\* stream meanwhile, and fails once nobody holds the PTY.
WriteInput ==
  /\ tCtl = "write"
  /\ \/ ptyHeld /\ tInput < InputCap /\ tInput' = tInput + 1 /\ tCtl' = "recv"
     \/ ~ptyHeld /\ tCtl' = "err" /\ UNCHANGED tInput
  /\ UNCHANGED <<handleVars, tStreamVars, tEvents, tLadder, tPump, tGone, tReaped, tExitSent, tShut,
                 tRet, tHungUp, lead, member, tDeaf, tPty, tShown>>

\* The request half is over: the client ended it, or the transport is gone.
ControlsDone ==
  /\ tCtl = "recv"
  /\ \/ tLost /\ tCtl' = "err"
     \/ ~tLost /\ tReqs = <<>> /\ tReqEnd /\ tCtl' = "done"
  /\ UNCHANGED <<handleVars, tStreamVars, tEvents, tLadder, tPump, tGone, tReaped, tExitSent,
                 tShut, tRet, tHungUp, ptyVars>>

quiet == tReaped /\ tGone

\* mutant: the grace runs out and nothing follows.
LadderStops ==
  /\ tCtl \in {"done", "err"} /\ ~tRet
  /\ \/ /\ tLadder = "off" /\ tLadder' = "term"
        /\ lead' = IF tDeaf THEN lead ELSE "ended"
        /\ member' = IF member = "group" THEN "gone" ELSE member
        /\ UNCHANGED tHungUp
     \/ /\ tLadder = "term" /\ quiet /\ tLadder' = "closed"
        /\ UNCHANGED <<lead, member, tHungUp>>
  /\ UNCHANGED <<handleVars, tStreamVars, tEvents, tCtl, tPump, tGone, tReaped, tExitSent, tShut,
                 tRet, tDeaf, tPty, tShown, tInput>>

\* terminate: TERM to the group; KILL when the grace ran out; the master is
\* closed when the session is quiet or the second wait is over.
Ladder ==
  /\ tCtl \in {"done", "err"} /\ ~tRet
  /\ \/ /\ tLadder = "off" /\ tLadder' = "term"
        /\ lead' = IF tDeaf THEN lead ELSE "ended"
        /\ member' = IF member = "group" THEN "gone" ELSE member
        /\ UNCHANGED tHungUp
     \/ /\ tLadder = "term" /\ ~quiet /\ tLadder' = "kill"
        /\ lead' = "ended"
        /\ member' = IF member = "group" THEN "gone" ELSE member
        /\ UNCHANGED tHungUp
     \/ /\ tLadder = "kill" \/ (tLadder = "term" /\ quiet)
        /\ tLadder' = "closed"
        /\ tHungUp' = (tPump = "run")
        /\ member' = IF member = "apart" THEN "gone" ELSE member
        /\ UNCHANGED lead
  /\ UNCHANGED <<handleVars, tStreamVars, tEvents, tCtl, tPump, tGone, tReaped, tExitSent, tShut,
                 tRet, tDeaf, tPty, tShown, tInput>>

\* The output pump: a chunk, or the end of the PTY.
Pump ==
  /\ tPump = "run"
  /\ \/ /\ tPty > 0 /\ tLadder # "closed"
        /\ send("output", 0)
        /\ tPty' = tPty - 1
        /\ UNCHANGED <<tPump, tGone>>
     \/ /\ tLadder = "closed" \/ (tPty = 0 /\ ~ptyHeld)
        /\ tPump' = "end"
        /\ tGone' = TRUE
        /\ UNCHANGED <<tEvents, tPty>>
  /\ UNCHANGED <<handleVars, tStreamVars, tCtl, tLadder, tReaped, tExitSent, tShut, tRet, tHungUp,
                 lead, member, tDeaf, tShown, tInput>>

\* The exit watcher reaps the shell and queues its status.
ExitWatch ==
  /\ \/ ~tReaped /\ lead = "ended" /\ tReaped' = TRUE /\ UNCHANGED <<tEvents, tExitSent>>
     \/ tReaped /\ ~tExitSent /\ send("exited", 0) /\ tExitSent' = TRUE /\ UNCHANGED tReaped
  /\ UNCHANGED <<handleVars, tStreamVars, tCtl, tLadder, tPump, tGone, tShut, tRet, tHungUp, ptyVars>>

\* mutant: closed is reported with the shell's exit, output or not.
SendClosedEarly ==
  /\ tExitSent /\ ~tShut
  /\ send("closed", 0)
  /\ tShut' = TRUE
  /\ UNCHANGED <<handleVars, tStreamVars, tCtl, tLadder, tPump, tGone, tReaped, tExitSent, tRet,
                 tHungUp, ptyVars>>

SendClosed ==
  /\ tExitSent /\ tPump = "end" /\ ~tShut
  /\ send("closed", 0)
  /\ tShut' = TRUE
  /\ UNCHANGED <<handleVars, tStreamVars, tCtl, tLadder, tPump, tGone, tReaped, tExitSent, tRet,
                 tHungUp, ptyVars>>

Return ==
  /\ tLadder = "closed" /\ tExitSent /\ tPump = "end" /\ tShut /\ tEvents = <<>>
  /\ ~tRet
  /\ tRet' = TRUE
  /\ UNCHANGED <<handleVars, tStreamVars, tEvents, tCtl, tLadder, tPump, tGone, tReaped, tExitSent,
                 tShut, tHungUp, ptyVars>>

-----------------------------------------------------------------------------
(* The session's processes. *)

ReadInput ==
  /\ ptyHeld /\ tInput > 0
  /\ tInput' = tInput - 1
  /\ UNCHANGED <<handleVars, tStreamVars, tEvents, tRunVars, lead, member, tDeaf, tPty, tShown>>

SessionRuns ==
  /\ \/ ptyHeld /\ tShown < MaxShown /\ tLadder # "closed"
        /\ tShown' = tShown + 1 /\ tPty' = tPty + 1 /\ UNCHANGED <<lead, member>>
     \/ lead = "running" /\ member = "none" /\ member' \in {"group", "apart"}
        /\ UNCHANGED <<lead, tPty, tShown>>
     \/ lead = "running" /\ lead' = "ended" /\ UNCHANGED <<member, tPty, tShown>>
     \/ member \in {"group", "apart"} /\ member' = "gone" /\ UNCHANGED <<lead, tPty, tShown>>
  /\ UNCHANGED <<handleVars, tStreamVars, tEvents, tRunVars, tDeaf, tInput>>

TermInit ==
  /\ tHandle = [started |-> FALSE, closed |-> FALSE, quiescent |-> FALSE, done |-> "none",
                finished |-> FALSE, over |-> FALSE]
  /\ tAsk = 0 /\ tAsked = 0 /\ tTyped = 0 /\ tPaired = TRUE /\ tSeen = 0
  /\ tReqs = <<Req("start", 0)>> /\ tReqEnd = FALSE /\ tLost = FALSE
  /\ tEvents = <<>>
  /\ tCtl = "idle" /\ tLadder = "off" /\ tPump = "idle" /\ tGone = FALSE /\ tReaped = FALSE
  /\ tExitSent = FALSE /\ tShut = FALSE /\ tRet = FALSE /\ tHungUp = FALSE
  /\ lead = "none" /\ member = "none" /\ tDeaf \in BOOLEAN
  /\ tPty = 0 /\ tShown = 0 /\ tInput = 0

TermNext ==
  \/ Ask \/ Type \/ terminate \/ Consume \/ StreamEnds \/ TunnelBreaks
  \/ TerminalStart \/ Control \/ WriteInput \/ ControlsDone \/ Ladder \/ Pump \/ ExitWatch \/ SendClosed \/ Return
  \/ ReadInput \/ SessionRuns

\* The goroutines, the sender and the handle's loop run; a process that holds
\* the PTY reads its input, which a write to it waits for.
TermFairness ==
  /\ WF_termVars(Consume) /\ WF_termVars(StreamEnds) /\ WF_termVars(TerminalStart)
  /\ WF_termVars(Control) /\ WF_termVars(WriteInput) /\ WF_termVars(ControlsDone) /\ WF_termVars(Ladder)
  /\ WF_termVars(Pump) /\ WF_termVars(ExitWatch) /\ WF_termVars(SendClosed)
  /\ WF_termVars(Return) /\ WF_termVars(ReadInput)

TermSpec == TermInit /\ [][TermNext]_termVars /\ TermFairness

-----------------------------------------------------------------------------

\* A terminal its client ended or lost is gone at both ends: the handle is
\* settled, the shell is reaped, the handler has returned.
TerminalEnds == tHandle.closed ~> (tHandle.finished /\ tRet /\ lead # "running")

\* Every query and signal is answered or rejected, by its own answer.
AskSettles == [](tAsk # 0 => <>(tAsk = 0)) /\ []tPaired

\* A terminal reported quiescent has its exit status and all its output:
\* nothing the session wrote is behind the closed event, unless a terminate
\* closed the master over it.
ClosedIsLast ==
  tHandle.quiescent => tHandle.done = "exit" /\ (~tHungUp => tSeen = tShown)
=============================================================================
