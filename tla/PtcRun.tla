-------------------------------- MODULE PtcRun --------------------------------
(***************************************************************************)
(* A programmatic tool call: the byte channel between the caller and the   *)
(* program at fd 7.  The caller's end queues requests (pipe.ts over        *)
(* message-queue.ts); the runner's Run handler (ptc.go) relays both        *)
(* directions, and the exit status follows the channel's last frame or its *)
(* drain bound.  The caller's k-th write and the program's k-th frame are  *)
(* the number k; the start message is 0.  Standard output is in ExecCall.  *)
(***************************************************************************)
EXTENDS Naturals, Sequences

CONSTANTS MaxWrites,  \* bound: writes of the caller
          MaxFrames,  \* bound: frames of the program
          FrameCap    \* channelEventBuffer (16 in the code)

VARIABLES
  pEarly,   \* earlyWrites
  pBegun,   \* PtcChannel.started
  pSent,    \* writes of the caller
  pReqs,    \* the request stream
  pReqEnd,  \* the request half has ended
  pCall,    \* the caller's process: "resolving", "running", "exited", "failed"
  pGot,     \* frames delivered to the caller
  pWire,    \* responses in flight: frames, then 0 for the exit status
  pHandler, \* "idle", "loop", "returned"
  pFeed,    \* the goroutine from client to program: "idle", "run", "end"
  pReader,  \* the goroutine from program to client
  pChan,    \* channelChunks
  pOpen,    \* channelOpen
  pQuiet,   \* the command's output pipes are closed, chunks is nil
  pCut,     \* the drain bound closed the channel
  pCancel,  \* the call is cancelled
  prog,     \* the program: "none", "running", "ended"
  heir,     \* a process it left behind holding fd 7
  pIn,      \* bytes in the socket for the program
  pRead,    \* what the program has read
  pEof,     \* the program's end reads end-of-file after pIn
  pSock,    \* frames in the socket for the handler
  pWrote    \* frames the program has written

channelVars == <<pEarly, pBegun, pSent, pReqs, pReqEnd, pCall, pGot>>
relayVars == <<pHandler, pFeed, pReader, pChan, pOpen, pQuiet, pCut>>
programVars == <<prog, heir, pIn, pRead, pEof, pSock, pWrote>>
ptcVars == <<channelVars, pWire, relayVars, pCancel, programVars>>

fdHeld == prog = "running" \/ heir = "running"

-----------------------------------------------------------------------------
(* The caller's end. *)

\* MessageQueue: what is pushed is pulled in order, up to its end.
push(messages) == pReqs' = pReqs \o messages
next == pReqs' = Tail(pReqs)

\* PtcChannel._write, which fails once the request half has ended.
ChannelWrite ==
  /\ pSent < MaxWrites /\ ~pReqEnd
  /\ pSent' = pSent + 1
  /\ IF pBegun THEN push(<<pSent + 1>>) /\ UNCHANGED pEarly
     ELSE pEarly' = Append(pEarly, pSent + 1) /\ UNCHANGED pReqs
  /\ UNCHANGED <<pBegun, pReqEnd, pCall, pGot, pWire, relayVars, pCancel, programVars>>

\* _final and _destroy.
ChannelEnd ==
  /\ ~pReqEnd
  /\ pReqEnd' = TRUE
  /\ UNCHANGED <<pEarly, pBegun, pSent, pReqs, pCall, pGot, pWire, relayVars, pCancel, programVars>>

\* The argv is resolved: the start message, then the early writes; a channel
\* closed before that fails the spawn.
begin ==
  /\ pCall = "resolving"
  /\ IF pReqEnd THEN pCall' = "failed" /\ UNCHANGED <<pReqs, pEarly, pBegun>>
     ELSE /\ push(<<0>> \o pEarly)
          /\ pEarly' = <<>> /\ pBegun' = TRUE /\ pCall' = "running"
  /\ UNCHANGED <<pSent, pReqEnd, pGot, pWire, relayVars, pCancel, programVars>>

\* A response: a frame, or the exit status, which ends the run and both
\* halves of the channel.
Deliver ==
  /\ pCall = "running" /\ pWire # <<>>
  /\ pWire' = Tail(pWire)
  /\ IF Head(pWire) = 0 THEN pCall' = "exited" /\ pReqEnd' = TRUE /\ UNCHANGED pGot
     ELSE pGot' = Append(pGot, Head(pWire)) /\ UNCHANGED <<pCall, pReqEnd>>
  /\ UNCHANGED <<pEarly, pBegun, pSent, pReqs, relayVars, pCancel, programVars>>

\* The caller cancels, or the tunnel breaks.
CancelRun ==
  /\ pCall = "running" /\ ~pCancel
  /\ pCancel' = TRUE
  /\ pCall' = "failed" /\ pReqEnd' = TRUE
  /\ UNCHANGED <<pEarly, pBegun, pSent, pReqs, pGot, pWire, relayVars, programVars>>

-----------------------------------------------------------------------------
(* The handler. *)

\* The first request must start the command.
RunStart ==
  /\ pHandler = "idle" /\ pReqs # <<>>
  /\ next
  /\ IF Head(pReqs) = 0 /\ ~pCancel
     THEN pHandler' = "loop" /\ pFeed' = "run" /\ pReader' = "run" /\ prog' = "running"
     ELSE pHandler' = "returned" /\ UNCHANGED <<pFeed, pReader, prog>>
  /\ UNCHANGED <<pEarly, pBegun, pSent, pReqEnd, pCall, pGot, pWire, pChan, pOpen, pQuiet, pCut,
                 pCancel, heir, pIn, pRead, pEof, pSock, pWrote>>

\* Client to program; the end of the request half is a half-close.
Feed ==
  /\ pFeed = "run"
  /\ \/ /\ pReqs # <<>> /\ fdHeld
        /\ pIn' = Append(pIn, Head(pReqs))
        /\ next
        /\ UNCHANGED <<pFeed, pEof>>
     \/ /\ pReqs = <<>> /\ (pReqEnd \/ pCancel)
        /\ pFeed' = "end" /\ pEof' = TRUE
        /\ UNCHANGED <<pIn, pReqs>>
     \/ /\ pReqs # <<>> /\ ~fdHeld
        /\ pFeed' = "end"
        /\ UNCHANGED <<pIn, pReqs, pEof>>
  /\ UNCHANGED <<pEarly, pBegun, pSent, pReqEnd, pCall, pGot, pWire, pHandler, pReader, pChan, pOpen,
                 pQuiet, pCut, pCancel, prog, heir, pRead, pSock, pWrote>>

\* Program to client; the socket ends with its last holder.
ReadSocket ==
  /\ pReader = "run"
  /\ \/ /\ pSock # <<>> /\ Len(pChan) < FrameCap
        /\ pChan' = Append(pChan, Head(pSock))
        /\ pSock' = Tail(pSock)
        /\ UNCHANGED pReader
     \/ /\ pSock = <<>> /\ ~fdHeld
        /\ pReader' = "end"
        /\ UNCHANGED <<pChan, pSock>>
     \/ /\ pSock # <<>> /\ pCancel
        /\ pReader' = "end"
        /\ UNCHANGED <<pChan, pSock>>
  /\ UNCHANGED <<channelVars, pWire, pHandler, pFeed, pOpen, pQuiet, pCut, pCancel, prog, heir, pIn,
                 pRead, pEof, pWrote>>

\* cmd.Wait is over: the output channel is closed.
PipesClose ==
  /\ pHandler = "loop" /\ prog = "ended" /\ ~pQuiet
  /\ pQuiet' = TRUE
  /\ UNCHANGED <<channelVars, pWire, pHandler, pFeed, pReader, pChan, pOpen, pCut, pCancel, programVars>>

\* A frame goes out, or the channel is over.
SendFrame ==
  /\ pHandler = "loop" /\ pOpen
  /\ \/ /\ pChan # <<>>
        /\ pWire' = Append(pWire, Head(pChan))
        /\ pChan' = Tail(pChan)
        /\ UNCHANGED pOpen
     \/ /\ pChan = <<>> /\ pReader = "end"
        /\ pOpen' = FALSE
        /\ UNCHANGED <<pWire, pChan>>
  /\ UNCHANGED <<channelVars, pHandler, pFeed, pReader, pQuiet, pCut, pCancel, programVars>>

\* channelDrainGrace: what the reader handed over still goes out.
DrainBound ==
  /\ pHandler = "loop" /\ pQuiet /\ pOpen
  /\ pWire' = pWire \o pChan
  /\ pChan' = <<>>
  /\ pOpen' = FALSE /\ pCut' = TRUE
  /\ UNCHANGED <<channelVars, pHandler, pFeed, pReader, pQuiet, pCancel, programVars>>

\* mutant: the exit status goes out with the command's output.
RunExitEarly ==
  /\ pHandler = "loop" /\ pQuiet
  /\ pHandler' = "returned"
  /\ pWire' = IF pCancel THEN pWire ELSE Append(pWire, 0)
  /\ UNCHANGED <<channelVars, pFeed, pReader, pChan, pOpen, pQuiet, pCut, pCancel, programVars>>

RunExit ==
  /\ pHandler = "loop" /\ pQuiet /\ ~pOpen
  /\ pHandler' = "returned"
  /\ pWire' = IF pCancel THEN pWire ELSE Append(pWire, 0)
  /\ UNCHANGED <<channelVars, pFeed, pReader, pChan, pOpen, pQuiet, pCut, pCancel, programVars>>

\* A cancelled call ends the process group.
RunKilled ==
  /\ pCancel /\ prog = "running"
  /\ prog' = "ended"
  /\ heir' = IF heir = "running" THEN "gone" ELSE heir
  /\ UNCHANGED <<channelVars, pWire, relayVars, pCancel, pIn, pRead, pEof, pSock, pWrote>>

-----------------------------------------------------------------------------
(* The program. *)

ProgramRuns ==
  /\ \/ /\ prog = "running"
        /\ \/ pIn # <<>> /\ pRead' = Append(pRead, Head(pIn)) /\ pIn' = Tail(pIn)
              /\ UNCHANGED <<prog, heir, pSock, pWrote>>
           \/ pWrote < MaxFrames /\ pWrote' = pWrote + 1 /\ pSock' = Append(pSock, pWrote + 1)
              /\ UNCHANGED <<prog, heir, pIn, pRead>>
           \/ heir = "none" /\ heir' = "running" /\ UNCHANGED <<prog, pIn, pRead, pSock, pWrote>>
           \/ prog' = "ended" /\ UNCHANGED <<heir, pIn, pRead, pSock, pWrote>>
     \/ heir = "running" /\ heir' = "gone" /\ UNCHANGED <<prog, pIn, pRead, pSock, pWrote>>
  /\ UNCHANGED <<channelVars, pWire, relayVars, pCancel, pEof>>

PtcInit ==
  /\ pEarly = <<>> /\ pBegun = FALSE /\ pSent = 0 /\ pReqs = <<>> /\ pReqEnd = FALSE
  /\ pCall = "resolving" /\ pGot = <<>> /\ pWire = <<>>
  /\ pHandler = "idle" /\ pFeed = "idle" /\ pReader = "idle" /\ pChan = <<>> /\ pOpen = TRUE
  /\ pQuiet = FALSE /\ pCut = FALSE /\ pCancel = FALSE
  /\ prog = "none" /\ heir = "none" /\ pIn = <<>> /\ pRead = <<>> /\ pEof = FALSE
  /\ pSock = <<>> /\ pWrote = 0

PtcNext ==
  \/ ChannelWrite \/ ChannelEnd \/ begin \/ Deliver \/ CancelRun
  \/ RunStart \/ Feed \/ ReadSocket \/ PipesClose \/ SendFrame \/ DrainBound \/ RunExit \/ RunKilled
  \/ ProgramRuns

PtcSpec == PtcInit /\ [][PtcNext]_ptcVars

-----------------------------------------------------------------------------

Counts(s) == \A i \in 1 .. Len(s) : s[i] = i

\* The channel is a pair of byte streams: the program reads the caller's
\* writes in order from the first one on, those made before it was started
\* included, and end-of-file only after all of them; the caller reads the
\* program's frames in order, and the exit status only after all of them,
\* unless the drain bound closed the channel; and the runner refuses no run
\* the caller was allowed to begin.
FramesInOrder ==
  /\ Counts(pRead \o pIn)
  /\ Counts(pGot)
  /\ pEof /\ ~pCancel => Len(pRead \o pIn) = pSent
  /\ pCall = "exited" /\ ~pCut => Len(pGot) = pWrote
  /\ pHandler = "returned" /\ prog = "none" => pCancel
=============================================================================
