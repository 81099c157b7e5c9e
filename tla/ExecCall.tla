------------------------------- MODULE ExecCall -------------------------------
(***************************************************************************)
(* One command in the sandbox, from the caller's handle to the process:    *)
(* the shell and subprocess seams of the control plane (shell.ts,          *)
(* subprocess.ts), the exec stream through the tunnel, and the runner's    *)
(* Exec handler with its goroutines (service.go): the one that reaps the   *)
(* command, the one that copies its output, the one that terminates its    *)
(* process group, and the handler that sends.                              *)
(*                                                                         *)
(* Standard output and standard error are one pipe here, and the command's *)
(* k-th chunk of output is the number k.  The command may leave a          *)
(* background process behind that keeps the pipe open; `deaf` names the    *)
(* process, if any, that ignores SIGTERM.                                  *)
(***************************************************************************)
EXTENDS Naturals, Sequences, FiniteSets

CONSTANTS MaxChunks,  \* bound: chunks the command writes
          ChunkCap,   \* capacity of the handler's channel (16 in the code)
          TailMax,    \* outputMaxBytes, in chunks
          MaxCauses   \* bound: reasons for which the caller gives up

VARIABLES
  kind,    \* the seam the call came through: "shell" or "process"
  deaf,    \* who ignores SIGTERM: "none", "cmd" or "child"
  call,    \* the caller's handle
  cause,   \* why the caller gave up: "timeout", "abort", "kill"
  got,     \* ghost: every chunk the caller received
  tail,    \* TailBuffer: the retained text, characters written, dropped
  drain,   \* the consuming cursor, and ghost: what it has read, flagged lossy
  wire,    \* responses on their way to the caller
  lost,    \* the tunnel broke under the stream
  hand,    \* the Exec handler
  ctxDone, \* the request's context is cancelled
  execDone,\* execCtx is cancelled
  waiter,  \* the goroutine in cmd.Wait
  copier,  \* os/exec's copying goroutine
  term,    \* terminateProcessGroup
  cut,     \* WaitDelay expired and closed the pipe
  chunks,  \* the channel between the writer and the handler
  pipe,    \* what the kernel's pipe holds
  cmd,     \* the command
  child,   \* the process it left behind
  wrote    \* chunks the command has written

callerVars == <<kind, deaf, call, cause, got, tail, drain>>
streamVars == <<wire, lost>>
runnerVars == <<hand, ctxDone, execDone, waiter, copier, term, cut, chunks>>
osVars == <<pipe, cmd, child, wrote>>
execVars == <<callerVars, streamVars, runnerVars, osVars>>

Ended == {"exited", "killed"}
Event(e) == [event |-> e, chunk |-> 0]
Output(k) == [event |-> "output", chunk |-> k]
Pending == call.st \in {"prep", "running"}
holders == cmd = "running" \/ child = "running"

-----------------------------------------------------------------------------
(* The caller. *)

Settle(code, note) == call' = [st |-> "settled", code |-> code, note |-> note]

\* The runner client is there.  The shell gives up here when it was aborted
\* or timed out meanwhile; a process goes on and its stream throws.
Ready ==
  /\ call.st = "prep"
  /\ IF kind = "shell" /\ "abort" \in cause THEN Settle("none", "rejected") /\ UNCHANGED hand
     ELSE IF kind = "shell" /\ "timeout" \in cause THEN Settle("none", "expired") /\ UNCHANGED hand
     ELSE call' = [call EXCEPT !.st = "running"] /\ hand' = "start"
  /\ UNCHANGED <<kind, deaf, cause, got, tail, drain, streamVars, osVars,
                 ctxDone, execDone, waiter, copier, term, cut, chunks>>

\* The sandbox cannot be had.
Reject ==
  /\ call.st = "prep"
  /\ Settle("none", IF kind = "shell" THEN "rejected" ELSE "failed")
  /\ UNCHANGED <<kind, deaf, cause, got, tail, drain, streamVars, runnerVars, osVars>>

\* The executor's timer, the spec's signal, and kill() or terminate().
GiveUp(why) ==
  /\ Pending
  /\ why \notin cause /\ Cardinality(cause) < MaxCauses
  /\ why = "timeout" => kind = "shell"
  /\ why = "kill" => (kind = "process" \/ call.st = "running")
  /\ cause' = cause \cup {why}
  /\ UNCHANGED <<kind, deaf, call, got, tail, drain, streamVars, runnerVars, osVars>>

\* TailBuffer.append.
append(k) ==
  LET t == Append(tail.text, k)
  IN  [text |-> IF Len(t) > TailMax THEN Tail(t) ELSE t,
       written |-> tail.written + 1,
       dropped |-> tail.dropped \/ Len(t) > TailMax]

\* TailBuffer.readFrom.
readFrom(from) ==
  LET base == tail.written - Len(tail.text)
  IN  IF from < base
      THEN [text |-> tail.text, lossy |-> TRUE]
      ELSE [text |-> SubSeq(tail.text, from - base + 1, Len(tail.text)), lossy |-> FALSE]

\* mutant: a consuming read does not say what it skipped.
readOutputSilent ==
  /\ kind = "shell" /\ call.st # "prep"
  /\ drain.at < tail.written
  /\ drain' = [at |-> tail.written, heard |-> drain.heard \o readFrom(drain.at).text,
               lossy |-> drain.lossy]
  /\ UNCHANGED <<kind, deaf, call, cause, got, tail, streamVars, runnerVars, osVars>>

readOutput ==
  /\ kind = "shell" /\ call.st # "prep"
  /\ drain.at < tail.written
  /\ LET view == readFrom(drain.at)
     IN  drain' = [at |-> tail.written, heard |-> drain.heard \o view.text,
                   lossy |-> drain.lossy \/ view.lossy \/ tail.dropped]
  /\ UNCHANGED <<kind, deaf, call, cause, got, tail, streamVars, runnerVars, osVars>>

\* What a stream that throws makes of the call: a timeout or an abort is a
\* SIGTERM to the shell's caller, anything else a failure.
Thrown ==
  IF kind = "shell" /\ cause \cap {"timeout", "abort"} # {}
  THEN Settle("aborted", "ok")
  ELSE Settle("none", "failed")

\* RemoteProcess.run returns at the exit status; runShell keeps it and reads
\* on to the end of the stream.
exited(e) == IF kind = "process" THEN Settle(e, "ok") ELSE call' = [call EXCEPT !.code = e]

\* A process's pipe or collection keeps every chunk, a shell's buffer the tail.
writeOutput(k) == got' = Append(got, k) /\ tail' = append(k)

\* One response of the exec stream.
Receive ==
  /\ call.st = "running"
  /\ wire # <<>>
  /\ wire' = Tail(wire)
  /\ LET e == Head(wire).event
     IN  CASE e = "output" -> writeOutput(Head(wire).chunk) /\ UNCHANGED call
           [] e = "started" -> UNCHANGED <<got, tail, call>>
           [] e \in {"exit", "signal"} ->
                exited(e) /\ UNCHANGED <<got, tail>>
           [] e = "end" -> /\ IF call.code = "none" THEN Thrown ELSE Settle(call.code, "ok")
                           /\ UNCHANGED <<got, tail>>
           [] OTHER -> Thrown /\ UNCHANGED <<got, tail>>
  /\ UNCHANGED <<kind, deaf, cause, drain, lost, runnerVars, osVars>>

\* The aborted signal throws out of the loop over the stream.
Throws ==
  /\ call.st = "running"
  /\ cause # {}
  /\ Thrown
  /\ UNCHANGED <<kind, deaf, cause, got, tail, drain, streamVars, runnerVars, osVars>>

-----------------------------------------------------------------------------
(* The stream between them. *)

\* The caller's cancellation reaches the runner.
Cancelled ==
  /\ ~ctxDone
  /\ call.st = "settled" \/ (call.st = "running" /\ cause # {})
  /\ hand \notin {"idle", "returned"}
  /\ ctxDone' = TRUE
  /\ execDone' = TRUE
  /\ UNCHANGED <<callerVars, streamVars, hand, waiter, copier, term, cut, chunks, osVars>>

\* The tunnel breaks: responses in flight are lost from some point on.
Breaks ==
  /\ ~lost
  /\ call.st = "running"
  /\ lost' = TRUE
  /\ \E k \in 0 .. Len(wire) : wire' = Append(SubSeq(wire, 1, k), Event("error"))
  /\ ctxDone' = TRUE
  /\ execDone' = TRUE
  /\ UNCHANGED <<callerVars, hand, waiter, copier, term, cut, chunks, osVars>>

put(events) == wire' = IF lost THEN wire ELSE wire \o events

-----------------------------------------------------------------------------
(* The runner's Exec. *)

\* The command starts, or cannot.
ExecStart ==
  /\ hand = "start"
  /\ \/ /\ ~ctxDone
        /\ hand' = "loop"
        /\ cmd' = "running"
        /\ waiter' = "wait"
        /\ copier' = "run"
        /\ put(<<Event("started")>>)
        /\ UNCHANGED execDone
     \/ /\ hand' = "returned"
        /\ execDone' = TRUE
        /\ put(<<Event("error")>>)
        /\ UNCHANGED <<cmd, waiter, copier>>
  /\ UNCHANGED <<callerVars, lost, ctxDone, term, cut, chunks, pipe, child, wrote>>

\* The loop over the channel: a send that fails cancels and waits.
SendChunk ==
  /\ hand = "loop"
  /\ chunks # <<>>
  /\ \/ /\ ~lost
        /\ put(<<Output(Head(chunks))>>)
        /\ chunks' = Tail(chunks)
        /\ UNCHANGED <<hand, execDone>>
     \/ /\ ctxDone
        /\ hand' = "drain"
        /\ execDone' = TRUE
        /\ UNCHANGED <<wire, chunks>>
  /\ UNCHANGED <<callerVars, lost, ctxDone, waiter, copier, term, cut, osVars>>

\* The channel is closed: the exit status, unless the request is cancelled.
SendExit ==
  /\ hand = "loop"
  /\ chunks = <<>>
  /\ waiter = "done"
  /\ hand' = "returned"
  /\ execDone' = TRUE
  /\ put(IF ctxDone THEN <<Event("error")>>
         ELSE <<Event(IF cmd = "exited" THEN "exit" ELSE "signal"), Event("end")>>)
  /\ UNCHANGED <<callerVars, lost, ctxDone, waiter, copier, term, cut, chunks, osVars>>

Drained ==
  /\ hand = "drain"
  /\ waiter = "done"
  /\ hand' = "returned"
  /\ put(<<Event("error")>>)
  /\ UNCHANGED <<callerVars, lost, ctxDone, execDone, waiter, copier, term, cut, chunks, osVars>>

\* mutant: a full channel is waited on whatever happens to the call.
WriteAlways ==
  /\ copier = "run"
  /\ pipe # <<>>
  /\ Len(chunks) < ChunkCap
  /\ chunks' = Append(chunks, Head(pipe))
  /\ pipe' = Tail(pipe)
  /\ UNCHANGED <<callerVars, streamVars, hand, ctxDone, execDone, waiter, copier, term, cut,
                 cmd, child, wrote>>

\* execChunkWriter.Write: into the channel, or off when execCtx is done.
Write ==
  /\ copier = "run"
  /\ pipe # <<>>
  /\ \/ /\ Len(chunks) < ChunkCap
        /\ chunks' = Append(chunks, Head(pipe))
        /\ pipe' = Tail(pipe)
        /\ UNCHANGED copier
     \/ /\ execDone
        /\ copier' = "end"
        /\ pipe' = <<>>
        /\ UNCHANGED chunks
  /\ UNCHANGED <<callerVars, streamVars, hand, ctxDone, execDone, waiter, term, cut,
                 cmd, child, wrote>>

\* The copy ends with the last holder of the pipe, or with a closed pipe.
CopyEnds ==
  /\ copier = "run"
  /\ pipe = <<>>
  /\ ~holders \/ cut
  /\ copier' = "end"
  /\ UNCHANGED <<callerVars, streamVars, hand, ctxDone, execDone, waiter, term, cut, chunks, osVars>>

\* mutant: the pipe is closed as soon as the command is reaped, as Wait does
\* to a StdoutPipe.
ReapedAtOnce ==
  /\ \/ waiter = "wait" /\ cmd \in Ended /\ waiter' = "grace" /\ pipe' = <<>>
     \/ waiter = "grace" /\ copier = "end" /\ waiter' = "done" /\ UNCHANGED pipe
  /\ UNCHANGED <<callerVars, streamVars, hand, ctxDone, execDone, copier, term, cut, chunks,
                 cmd, child, wrote>>

\* cmd.Wait: the command is reaped, the copy has ended.
Reaped ==
  /\ \/ waiter = "wait" /\ cmd \in Ended /\ waiter' = "grace"
     \/ waiter = "grace" /\ copier = "end" /\ waiter' = "done"
  /\ UNCHANGED <<callerVars, streamVars, hand, ctxDone, execDone, copier, term, cut, chunks, osVars>>

\* WaitDelay: the pipe is closed; the copier may hold one chunk already.
GraceExpires ==
  /\ waiter = "grace"
  /\ copier = "run"
  /\ ~cut
  /\ cut' = TRUE
  /\ \E held \in {k \in {0, 1} : k <= Len(pipe)} : pipe' = SubSeq(pipe, 1, held)
  /\ UNCHANGED <<callerVars, streamVars, hand, ctxDone, execDone, waiter, copier, term, chunks,
                 cmd, child, wrote>>

\* terminateProcessGroup: SIGTERM, and SIGKILL two seconds later, to a group
\* whose command is not reaped.
Terminate ==
  /\ waiter \in {"wait", "grace"}
  /\ execDone
  /\ \/ /\ term = "watch"
        /\ term' = "termed"
        /\ cmd' = IF cmd = "running" /\ deaf # "cmd" THEN "killed" ELSE cmd
        /\ child' = IF child = "running" /\ deaf # "child" THEN "gone" ELSE child
     \/ /\ term = "termed"
        /\ term' = "killed"
        /\ cmd' = IF cmd = "running" THEN "killed" ELSE cmd
        /\ child' = IF child = "running" THEN "gone" ELSE child
  /\ UNCHANGED <<callerVars, streamVars, hand, ctxDone, execDone, waiter, copier, cut, chunks,
                 pipe, wrote>>

-----------------------------------------------------------------------------
(* The command. *)

Runs ==
  /\ \/ /\ cmd = "running"
        /\ \/ wrote < MaxChunks /\ ~cut /\ wrote' = wrote + 1 /\ pipe' = Append(pipe, wrote + 1)
              /\ UNCHANGED <<cmd, child>>
           \/ child = "none" /\ child' = "running" /\ UNCHANGED <<cmd, wrote, pipe>>
           \/ cmd' = "exited" /\ UNCHANGED <<child, wrote, pipe>>
     \/ /\ child = "running"
        /\ child' = "gone"
        /\ UNCHANGED <<cmd, wrote, pipe>>
  /\ UNCHANGED <<callerVars, streamVars, runnerVars>>

ExecInit ==
  /\ kind \in {"shell", "process"}
  /\ deaf \in {"none", "cmd", "child"}
  /\ call = [st |-> "prep", code |-> "none", note |-> "ok"]
  /\ cause = {}
  /\ got = <<>>
  /\ tail = [text |-> <<>>, written |-> 0, dropped |-> FALSE]
  /\ drain = [at |-> 0, heard |-> <<>>, lossy |-> FALSE]
  /\ wire = <<>> /\ lost = FALSE
  /\ hand = "idle" /\ ctxDone = FALSE /\ execDone = FALSE
  /\ waiter = "idle" /\ copier = "idle" /\ term = "watch" /\ cut = FALSE /\ chunks = <<>>
  /\ pipe = <<>> /\ cmd = "none" /\ child = "none" /\ wrote = 0

ExecNext ==
  \/ Ready \/ Reject \/ \E why \in {"timeout", "abort", "kill"} : GiveUp(why)
  \/ readOutput \/ Receive \/ Throws
  \/ Cancelled \/ Breaks
  \/ ExecStart \/ SendChunk \/ SendExit \/ Drained
  \/ Write \/ CopyEnds \/ Reaped \/ GraceExpires \/ Terminate
  \/ Runs

\* The goroutines and the two timers run; the caller and the command need not.
ExecFairness ==
  /\ WF_execVars(ExecStart) /\ WF_execVars(SendChunk) /\ WF_execVars(SendExit)
  /\ WF_execVars(Drained) /\ WF_execVars(Write) /\ WF_execVars(CopyEnds)
  /\ WF_execVars(Reaped) /\ WF_execVars(GraceExpires) /\ WF_execVars(Terminate)

ExecSpec == ExecInit /\ [][ExecNext]_execVars /\ ExecFairness

-----------------------------------------------------------------------------

\* An exit status is the command's own, and it comes with all the command
\* wrote, in order, unless WaitDelay closed the pipe first: the status is
\* never reported ahead of output that is still in the pipe or the channel.
OutputHonest ==
  call.code = "exit" =>
    /\ cmd = "exited"
    /\ Len(got) <= wrote /\ \A i \in 1 .. Len(got) : got[i] = i
    /\ ~cut => Len(got) = wrote

\* A cancelled call leaves no command behind: it is reaped and the handler
\* returns, also when the channel is full, the caller is gone, or the command
\* ignores SIGTERM.
CommandReaped == execDone ~> (hand = "returned" /\ cmd # "running")

\* Reads of a background command's output that report no loss have returned
\* every chunk once, in order, however the tail was cut between them.
DrainExact ==
  ~drain.lossy =>
    /\ Len(drain.heard) = drain.at
    /\ \A i \in 1 .. drain.at : drain.heard[i] = i

=============================================================================
