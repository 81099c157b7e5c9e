---------------------------- MODULE StreamsProofs ----------------------------
(***************************************************************************)
(* What the run Streams checks of a command, a terminal, a programmatic    *)
(* tool call and a login, proved for every value of their constants: what  *)
(* a client has received when it is told the end, in which order, and what *)
(* the tables of the login hold.  Each section is one component: its       *)
(* inductive invariant, the lemmas its steps rest on, and the theorems.    *)
(* The queues between the processes are sequences of numbers, and the      *)
(* lemmas of the first section say what numbers follow each other in them. *)
(***************************************************************************)
EXTENDS ExecCall, Terminal, PtcRun, SignIn,
        FiniteSetTheorems, WellFoundedInduction, NaturalsInduction, TLAPS

-----------------------------------------------------------------------------
(***************************************************************************)
(* Sequences that count.                                                   *)
(***************************************************************************)

\* A queue without its head.
LEMMA QueueTail ==
  ASSUME NEW S, NEW s \in Seq(S), s # <<>>
  PROVE  /\ Tail(s) \in Seq(S)
         /\ Len(s) \in Nat /\ Len(Tail(s)) \in Nat /\ Len(Tail(s)) + 1 = Len(s)
         /\ \A i \in 1 .. Len(Tail(s)) : Tail(s)[i] = s[i + 1] /\ i + 1 \in 1 .. Len(s)
         /\ Head(s) = s[1] /\ 1 \in 1 .. Len(s) /\ Head(s) \in S
  OBVIOUS

\* The elements of a sequence over a set are in it.
LEMMA ElementOf ==
  ASSUME NEW S, NEW q \in Seq(S), NEW i \in 1 .. Len(q)
  PROVE  q[i] \in S
  OBVIOUS

\* The sequence is b, b + 1, b + 2 and so on.
CountsFrom(s, b) == \A i \in 1 .. Len(s) : s[i] + 1 = b + i

\* The next number at the end goes on counting.
LEMMA CountsAppend ==
  ASSUME NEW s \in Seq(Nat), NEW b \in Nat, CountsFrom(s, b), NEW x, x = b + Len(s)
  PROVE  /\ Append(s, x) \in Seq(Nat) /\ Len(Append(s, x)) = Len(s) + 1
         /\ CountsFrom(Append(s, x), b)
<1>1. Len(s) \in Nat /\ x \in Nat
  OBVIOUS
<1> QED BY <1>1 DEF CountsFrom

\* Without its first number, the sequence counts from the next.
LEMMA CountsTail ==
  ASSUME NEW s \in Seq(Nat), NEW b \in Nat, CountsFrom(s, b), s # <<>>
  PROVE  /\ Head(s) = b /\ Tail(s) \in Seq(Nat) /\ Len(s) \in Nat /\ Len(Tail(s)) + 1 = Len(s)
         /\ CountsFrom(Tail(s), b + 1)
<1>1. Len(s) \in Nat /\ Len(s) >= 1 /\ Head(s) = s[1] /\ s[1] \in Nat
  OBVIOUS
<1>2. Tail(s) \in Seq(Nat) /\ Len(Tail(s)) = Len(s) - 1
         /\ \A i \in 1 .. Len(Tail(s)) : Tail(s)[i] = s[i + 1] /\ i + 1 \in 1 .. Len(s)
  BY <1>1
<1>3. Head(s) = b
  BY <1>1 DEF CountsFrom
<1>4. CountsFrom(Tail(s), b + 1)
  <2> SUFFICES ASSUME NEW i \in 1 .. Len(Tail(s)) PROVE Tail(s)[i] + 1 = (b + 1) + i
    BY DEF CountsFrom
  <2>1. s[i + 1] + 1 = b + (i + 1)
    BY <1>2 DEF CountsFrom
  <2> QED BY <1>2, <2>1
<1> QED BY <1>1, <1>2, <1>3, <1>4

\* Two sequences of which the second goes on where the first ends count on.
LEMMA CountsConcat ==
  ASSUME NEW s \in Seq(Nat), NEW r \in Seq(Nat), NEW b \in Nat,
         CountsFrom(s, b), CountsFrom(r, b + Len(s))
  PROVE  /\ s \o r \in Seq(Nat) /\ Len(s \o r) = Len(s) + Len(r)
         /\ CountsFrom(s \o r, b)
<1>1. Len(s) \in Nat /\ Len(r) \in Nat
  OBVIOUS
<1>2. s \o r \in Seq(Nat) /\ Len(s \o r) = Len(s) + Len(r)
  OBVIOUS
<1>3. ASSUME NEW i \in 1 .. Len(s \o r) PROVE (s \o r)[i] + 1 = b + i
  <2>1. CASE i <= Len(s)
    <3>1. i \in 1 .. Len(s) /\ (s \o r)[i] = s[i]
      BY <1>1, <1>2, <2>1
    <3> QED BY <3>1 DEF CountsFrom
  <2>2. CASE i > Len(s)
    <3>1. i - Len(s) \in 1 .. Len(r) /\ (s \o r)[i] = r[i - Len(s)]
      BY <1>1, <1>2, <2>2
    <3>2. r[i - Len(s)] + 1 = (b + Len(s)) + (i - Len(s))
      BY <3>1 DEF CountsFrom
    <3> QED BY <1>1, <3>1, <3>2
  <2> QED BY <1>1, <1>2, <2>1, <2>2
<1> QED BY <1>2, <1>3 DEF CountsFrom

\* The sequence is b, b + 1 and so on, and the exit status, 0, after that.
EndsFrom(s, b) ==
  /\ s # <<>>
  /\ \A i \in 1 .. Len(s) : IF i = Len(s) THEN s[i] = 0 ELSE s[i] + 1 = b + i

\* An exit status behind a sequence that counts ends it.
LEMMA EndsAppend ==
  ASSUME NEW s \in Seq(Nat), NEW b \in Nat, CountsFrom(s, b)
  PROVE  Len(Append(s, 0)) = Len(s) + 1 /\ EndsFrom(Append(s, 0), b)
<1> DEFINE r == Append(s, 0)
<1>1. r \in Seq(Nat) /\ Len(s) \in Nat /\ Len(r) = Len(s) + 1 /\ r[Len(s) + 1] = 0
        /\ \A i \in 1 .. Len(s) : r[i] = s[i]
  OBVIOUS
<1> HIDE DEF r
<1>2. r # <<>>
  BY <1>1
<1>3. ASSUME NEW i \in 1 .. Len(r) PROVE IF i = Len(r) THEN r[i] = 0 ELSE r[i] + 1 = b + i
  <2>1. CASE i = Len(r)
    BY <1>1, <2>1
  <2>2. CASE i # Len(r)
    <3>1. i \in 1 .. Len(s)
      BY <1>1, <2>2
    <3> QED BY <1>1, <2>2, <3>1 DEF CountsFrom
  <2> QED BY <2>1, <2>2
<1>4. EndsFrom(r, b) /\ Len(r) = Len(s) + 1
  BY <1>1, <1>2, <1>3 DEF EndsFrom
<1> QED BY <1>4 DEF r

\* What is taken from such a sequence is the next number or, alone, the status.
LEMMA EndsTail ==
  ASSUME NEW s \in Seq(Nat), NEW b \in Nat, b # 0, EndsFrom(s, b)
  PROVE  IF Head(s) = 0 THEN Tail(s) = <<>> /\ Len(s) = 1
         ELSE Head(s) = b /\ EndsFrom(Tail(s), b + 1) /\ Len(s) \in Nat /\ Len(Tail(s)) + 1 = Len(s)
<1>1. Len(s) \in Nat /\ Len(s) >= 1 /\ Head(s) = s[1] /\ s[1] \in Nat
  BY DEF EndsFrom
<1>2. Tail(s) \in Seq(Nat) /\ Len(Tail(s)) = Len(s) - 1
         /\ \A i \in 1 .. Len(Tail(s)) : Tail(s)[i] = s[i + 1] /\ i + 1 \in 1 .. Len(s)
  BY <1>1
<1>3. CASE Len(s) = 1
  <2>1. Head(s) = 0 /\ Len(Tail(s)) = 0
    BY <1>1, <1>2, <1>3 DEF EndsFrom
  <2> QED BY <1>2, <1>3, <2>1
<1>4. CASE Len(s) # 1
  <2>0. ASSUME NEW i \in 1 .. Len(s) PROVE IF i = Len(s) THEN s[i] = 0 ELSE s[i] + 1 = b + i
    BY <2>0 DEF EndsFrom
  <2>1. Head(s) = b
    <3>1. 1 \in 1 .. Len(s) /\ 1 # Len(s)
      BY <1>1, <1>4
    <3>2. s[1] + 1 = b + 1
      BY <2>0, <3>1
    <3> QED BY <1>1, <3>2
  <2>2. ASSUME NEW i \in 1 .. Len(Tail(s))
        PROVE  IF i = Len(Tail(s)) THEN Tail(s)[i] = 0 ELSE Tail(s)[i] + 1 = (b + 1) + i
    <3>1. IF i + 1 = Len(s) THEN s[i + 1] = 0 ELSE s[i + 1] + 1 = b + (i + 1)
      BY <1>2, <2>0
    <3>2. i + 1 = Len(s) <=> i = Len(Tail(s))
      BY <1>1, <1>2
    <3>3. b + (i + 1) = (b + 1) + i
      BY <1>1, <1>2
    <3> QED BY <1>2, <3>1, <3>2, <3>3
  <2>3. Len(Tail(s)) # 0
    BY <1>1, <1>2, <1>4
  <2>4. Tail(s) # <<>>
    <3>1. Len(<<>>) = 0
      OBVIOUS
    <3> QED BY <2>3, <3>1, Zenon
  <2>5. EndsFrom(Tail(s), b + 1)
    BY <2>2, <2>4 DEF EndsFrom
  <2> QED BY <1>1, <1>2, <2>1, <2>5
<1> QED BY <1>3, <1>4

-----------------------------------------------------------------------------
(***************************************************************************)
(* PtcRun, for any number of writes and frames and any buffer.             *)
(***************************************************************************)

PtcTypes ==
  /\ pEarly \in Seq(Nat) /\ pReqs \in Seq(Nat) /\ pIn \in Seq(Nat) /\ pRead \in Seq(Nat)
  /\ pGot \in Seq(Nat) /\ pWire \in Seq(Nat) /\ pChan \in Seq(Nat) /\ pSock \in Seq(Nat)
  /\ pSent \in Nat /\ pWrote \in Nat
  /\ pHandler \in {"idle", "loop", "returned"}
  /\ pCall \in {"resolving", "running", "exited", "failed"}
  /\ prog \in {"none", "running", "ended"}

\* Where the call, the handler and the program stand agree with each other.
RunStands ==
  /\ ~pBegun => pHandler = "idle" /\ pCall \in {"resolving", "failed"} /\ ~pCancel
  /\ pBegun => pCall # "resolving" /\ (~pCancel => pCall \in {"running", "exited"})
  /\ pCancel => pCall = "failed"
  /\ pCall = "exited" => pHandler = "returned"
  /\ pHandler = "idle" => pFeed = "idle" /\ pReader = "idle" /\ prog = "none" /\ heir = "none"
  /\ pHandler = "loop" => prog # "none"
  /\ pHandler = "returned" /\ prog = "none" => pCancel

\* What the program has not read yet is on its way to it in order: in the
\* socket, on the request stream after the start message, or in earlyWrites.
RequestsInOrder ==
  /\ CountsFrom(pRead, 1) /\ CountsFrom(pIn, Len(pRead) + 1)
  /\ pHandler = "idle" => pRead = <<>> /\ pIn = <<>>
  /\ ~pBegun => pReqs = <<>> /\ CountsFrom(pEarly, 1) /\ Len(pEarly) = pSent
  /\ pBegun /\ pHandler = "idle" => CountsFrom(pReqs, 0) /\ Len(pReqs) = pSent + 1
  /\ pHandler # "idle" => /\ CountsFrom(pReqs, Len(pRead) + Len(pIn) + 1)
                          /\ Len(pRead) + Len(pIn) + Len(pReqs) = pSent
  /\ pEof /\ ~pCancel => pReqEnd /\ pReqs = <<>> /\ pHandler # "idle"

\* As long as the handler relays, what the caller has not got yet is on its
\* way in order, and a reader that ended left nothing behind; the exit status
\* is the last message of a run that was not cancelled, after every frame
\* unless the drain bound closed the channel.
Relayed == pHandler # "returned" =>
  /\ CountsFrom(pWire, Len(pGot) + 1)
  /\ CountsFrom(pChan, Len(pGot) + Len(pWire) + 1)
  /\ CountsFrom(pSock, Len(pGot) + Len(pWire) + Len(pChan) + 1)
  /\ Len(pGot) + Len(pWire) + Len(pChan) + Len(pSock) = pWrote
Nothing == pReader = "end" /\ pSock = <<>> /\ pChan = <<>> /\ ~fdHeld
ReaderOver ==
  /\ pReader = "end" /\ ~pCancel => pSock = <<>> /\ ~fdHeld
  /\ ~pOpen /\ ~pCut => pReader = "end" /\ pChan = <<>>
\* An exit status on its way or received is behind every frame.
StatusLast == pHandler = "returned" /\ ~pCancel =>
  /\ ~pCut => Nothing
  /\ pCall = "exited" => pWire = <<>> /\ (~pCut => Len(pGot) = pWrote)
  /\ pCall = "running" =>
       /\ EndsFrom(pWire, Len(pGot) + 1)
       /\ ~pCut => Len(pGot) + Len(pWire) = pWrote + 1
ResponsesInOrder == CountsFrom(pGot, 1) /\ Relayed /\ ReaderOver /\ StatusLast

\* FramesInOrder speaks of the two ends; the invariant says what is in every
\* queue between them.
PtcInv == PtcTypes /\ RunStands /\ RequestsInOrder /\ ResponsesInOrder

\* Sequences stay sequences of numbers.
LEMMA PtcTypesStep == PtcTypes /\ [PtcNext]_ptcVars => PtcTypes'
<1> SUFFICES ASSUME PtcTypes, [PtcNext]_ptcVars PROVE PtcTypes'
  OBVIOUS
<1> USE DEF PtcTypes, channelVars, relayVars, programVars, push, next
<1>0. ASSUME NEW s \in Seq(Nat), s # <<>>
      PROVE  Head(s) \in Nat /\ Tail(s) \in Seq(Nat) /\ \A r \in Seq(Nat) : Append(r, Head(s)) \in Seq(Nat)
  BY <1>0
<1>1. CASE UNCHANGED ptcVars
  BY <1>1 DEF ptcVars
<1>2. CASE ChannelWrite
  <2>1. pSent' = pSent + 1 /\ pSent + 1 \in Nat
    BY <1>2 DEF ChannelWrite
  <2>2. <<pSent + 1>> \in Seq(Nat)
    BY <2>1
  <2>3. pReqs \o <<pSent + 1>> \in Seq(Nat) /\ Append(pEarly, pSent + 1) \in Seq(Nat)
    BY <2>1, <2>2
  <2> QED BY <1>2, <2>1, <2>3 DEF ChannelWrite
<1>3. CASE ChannelEnd \/ CancelRun \/ PipesClose \/ RunKilled
  BY <1>3 DEF ChannelEnd, CancelRun, PipesClose, RunKilled
<1>4. CASE begin
  <2>1. pReqs \o (<<0>> \o pEarly) \in Seq(Nat) /\ <<>> \in Seq(Nat)
    OBVIOUS
  <2> QED BY <1>4, <2>1 DEF begin
<1>5. CASE Deliver
  BY <1>0, <1>5 DEF Deliver
<1>6. CASE RunStart
  BY <1>0, <1>6 DEF RunStart
<1>7. CASE Feed
  BY <1>0, <1>7 DEF Feed
<1>8. CASE ReadSocket
  BY <1>0, <1>8 DEF ReadSocket
<1>9. CASE SendFrame
  BY <1>0, <1>9 DEF SendFrame
<1>10. CASE DrainBound
  <2>1. pWire \o pChan \in Seq(Nat) /\ <<>> \in Seq(Nat)
    OBVIOUS
  <2> QED BY <1>10, <2>1 DEF DrainBound
<1>11. CASE RunExit
  <2>1. Append(pWire, 0) \in Seq(Nat)
    OBVIOUS
  <2> QED BY <1>11, <2>1 DEF RunExit
<1>12. CASE ProgramRuns
  <2>1. pWrote + 1 \in Nat /\ Append(pSock, pWrote + 1) \in Seq(Nat)
    OBVIOUS
  <2> QED BY <1>0, <1>12, <2>1 DEF ProgramRuns
<1> QED BY <1>1, <1>2, <1>3, <1>4, <1>5, <1>6, <1>7, <1>8, <1>9, <1>10, <1>11, <1>12 DEF PtcNext

\* The first request of a run is its start message.
LEMMA StartIsFirst ==
  ASSUME PtcTypes, RunStands, RequestsInOrder, pHandler = "idle", pReqs # <<>>
  PROVE  pBegun /\ Head(pReqs) = 0
<1>1. pBegun /\ CountsFrom(pReqs, 0)
  BY DEF RequestsInOrder
<1> QED BY <1>1, CountsTail DEF PtcTypes

\* Every step keeps where the call, the handler and the program stand.
LEMMA RunStandsStep == PtcInv /\ [PtcNext]_ptcVars => RunStands'
<1> SUFFICES ASSUME PtcInv, [PtcNext]_ptcVars PROVE RunStands'
  OBVIOUS
<1> USE DEF PtcInv, RunStands, channelVars, relayVars, programVars
<1>1. CASE UNCHANGED ptcVars
  BY <1>1 DEF ptcVars
<1>2. CASE ChannelWrite \/ ChannelEnd \/ PipesClose \/ SendFrame \/ DrainBound
  BY <1>2 DEF ChannelWrite, ChannelEnd, PipesClose, SendFrame, DrainBound
<1>3. CASE begin
  BY <1>3 DEF begin
<1>4. CASE Deliver
  <2>1. pHandler # "returned" => Head(pWire) # 0
    <3> SUFFICES ASSUME pHandler # "returned" PROVE Head(pWire) # 0
      OBVIOUS
    <3>1. pWire # <<>> /\ CountsFrom(pWire, Len(pGot) + 1) /\ Len(pGot) + 1 \in Nat
      BY <1>4 DEF Deliver, ResponsesInOrder, Relayed, PtcTypes
    <3>2. Head(pWire) = Len(pGot) + 1
      BY <3>1, CountsTail DEF PtcTypes
    <3> QED BY <3>2 DEF PtcTypes
  <2> QED BY <1>4, <2>1 DEF Deliver
<1>5. CASE CancelRun
  BY <1>5 DEF CancelRun
<1>6. CASE RunStart
  BY <1>6, StartIsFirst DEF RunStart
<1>7. CASE Feed \/ ReadSocket
  BY <1>7 DEF Feed, ReadSocket
<1>8. CASE RunExit
  BY <1>8 DEF RunExit
<1>9. CASE RunKilled \/ ProgramRuns
  BY <1>9 DEF RunKilled, ProgramRuns, PtcTypes
<1> QED BY <1>1, <1>2, <1>3, <1>4, <1>5, <1>6, <1>7, <1>8, <1>9 DEF PtcNext

\* Every step keeps the writes in order on their way to the program.
LEMMA RequestsInOrderStep == PtcInv /\ [PtcNext]_ptcVars => RequestsInOrder'
<1> SUFFICES ASSUME PtcInv, [PtcNext]_ptcVars PROVE RequestsInOrder'
  OBVIOUS
<1> USE DEF PtcInv, channelVars, relayVars, programVars
<1>0. ASSUME UNCHANGED <<pRead, pIn, pReqs, pEarly, pSent, pBegun, pHandler, pEof>>,
             pCancel => pCancel', pReqEnd => pReqEnd'
      PROVE  RequestsInOrder'
  BY <1>0 DEF RequestsInOrder, CountsFrom
<1>1. CASE UNCHANGED ptcVars
  BY <1>0, <1>1 DEF ptcVars
<1>l. Len(pRead) \in Nat /\ Len(pIn) \in Nat /\ Len(pReqs) \in Nat /\ Len(pEarly) \in Nat /\ pSent \in Nat
  BY DEF PtcTypes
<1>2. CASE ChannelWrite
  <2>1. UNCHANGED <<pRead, pIn, pBegun, pHandler, pEof, pCancel>> /\ ~pReqEnd /\ pSent' = pSent + 1
    BY <1>2 DEF ChannelWrite
  <2>2. CASE ~pBegun
    <3>1. pEarly' = Append(pEarly, 1 + Len(pEarly)) /\ UNCHANGED pReqs /\ CountsFrom(pEarly, 1)
      BY <1>2, <1>l, <2>2 DEF ChannelWrite, RequestsInOrder
    <3>2. CountsFrom(pEarly', 1) /\ Len(pEarly') = Len(pEarly) + 1
      BY <1>l, <3>1, CountsAppend DEF PtcTypes
    <3> QED BY <2>1, <2>2, <3>1, <3>2 DEF RequestsInOrder, RunStands
  <2>3. CASE pBegun
    <3>0. pReqs' = pReqs \o <<pSent + 1>>
      BY <1>2, <2>3 DEF ChannelWrite, push
    <3>1. pReqs' = Append(pReqs, pSent + 1)
      BY <1>l, <3>0 DEF PtcTypes
    <3>2. CASE pHandler = "idle"
      <4>1. CountsFrom(pReqs, 0) /\ pSent + 1 = 0 + Len(pReqs)
        BY <1>l, <2>3, <3>2 DEF RequestsInOrder
      <4>2. CountsFrom(pReqs', 0) /\ Len(pReqs') = Len(pReqs) + 1
        BY <1>l, <3>1, <4>1, CountsAppend DEF PtcTypes
      <4> QED BY <1>l, <2>1, <2>3, <3>2, <4>1, <4>2 DEF RequestsInOrder
    <3>3. CASE pHandler # "idle"
      <4> DEFINE b == Len(pRead) + Len(pIn) + 1
      <4>1. CountsFrom(pReqs, b) /\ pSent + 1 = b + Len(pReqs) /\ b \in Nat
        BY <1>l, <2>3, <3>3 DEF RequestsInOrder
      <4>2. CountsFrom(pReqs', b) /\ Len(pReqs') = Len(pReqs) + 1
        BY <1>l, <3>1, <4>1, CountsAppend DEF PtcTypes
      <4> QED BY <1>l, <2>1, <2>3, <3>3, <4>1, <4>2 DEF RequestsInOrder
    <3> QED BY <3>2, <3>3
  <2> QED BY <2>2, <2>3
<1>3. CASE ChannelEnd \/ CancelRun \/ Deliver \/ PipesClose \/ RunKilled
  BY <1>0, <1>3 DEF ChannelEnd, CancelRun, Deliver, PipesClose, RunKilled
<1>4. CASE begin
  <2>1. CASE pReqEnd
    BY <1>0, <1>4, <2>1 DEF begin
  <2>2. CASE ~pReqEnd
    <3>1. ~pBegun /\ pHandler = "idle" /\ UNCHANGED <<pRead, pIn, pHandler, pSent, pEof, pCancel>> /\ pBegun'
            /\ pReqs' = pReqs \o (<<0>> \o pEarly)
      BY <1>4, <2>2 DEF begin, push, RunStands
    <3>2. pReqs = <<>> /\ CountsFrom(pEarly, 1) /\ Len(pEarly) = pSent
      BY <3>1 DEF RequestsInOrder
    <3>3. <<0>> \in Seq(Nat) /\ Len(<<0>>) = 1 /\ CountsFrom(<<0>>, 0)
      BY DEF CountsFrom
    <3>4. pReqs' = <<0>> \o pEarly
      BY <3>1, <3>2, <3>3 DEF PtcTypes
    <3>5. CountsFrom(pEarly, 0 + Len(<<0>>))
      BY <3>2, <3>3
    <3>6. CountsFrom(pReqs', 0) /\ Len(pReqs') = 1 + Len(pEarly)
      BY <3>3, <3>4, <3>5, CountsConcat DEF PtcTypes
    <3> QED BY <1>l, <3>1, <3>2, <3>6 DEF RequestsInOrder
  <2> QED BY <2>1, <2>2
<1>5. CASE RunStart
  <2>1. pBegun /\ pHandler = "idle" /\ pReqs # <<>> /\ pReqs' = Tail(pReqs) /\ pHandler' # "idle"
          /\ UNCHANGED <<pRead, pIn, pBegun, pSent, pEof, pCancel, pReqEnd>>
    BY <1>5, StartIsFirst DEF RunStart, next
  <2>2. pRead = <<>> /\ pIn = <<>> /\ CountsFrom(pReqs, 0) /\ Len(pReqs) = pSent + 1
          /\ (pEof => pCancel)
    BY <2>1 DEF RequestsInOrder
  <2>3. CountsFrom(pReqs', 1) /\ Len(pReqs') + 1 = Len(pReqs) /\ pReqs' \in Seq(Nat)
    BY <2>1, <2>2, CountsTail DEF PtcTypes
  <2>4. Len(pReqs') \in Nat /\ Len(pRead) = 0 /\ Len(pIn) = 0
    BY <2>2, <2>3
  <2> QED BY <1>l, <2>1, <2>2, <2>3, <2>4 DEF RequestsInOrder
<1>6. CASE Feed
  <2>0. pFeed = "run" /\ pHandler # "idle" /\ pBegun
          /\ UNCHANGED <<pRead, pBegun, pSent, pEarly, pCancel, pReqEnd, pHandler>>
    BY <1>6 DEF Feed, RunStands
  <2>1. CASE pReqs # <<>> /\ pIn' = Append(pIn, Head(pReqs)) /\ next /\ UNCHANGED <<pFeed, pEof>>
    <3> DEFINE b == Len(pRead) + Len(pIn) + 1
    <3>1. CountsFrom(pReqs, b) /\ b \in Nat /\ Len(pRead) + Len(pIn) + Len(pReqs) = pSent
            /\ CountsFrom(pIn, Len(pRead) + 1) /\ pReqs' = Tail(pReqs)
      BY <1>l, <2>0, <2>1 DEF RequestsInOrder, next
    <3>2. Head(pReqs) = b /\ CountsFrom(pReqs', b + 1) /\ Len(pReqs') + 1 = Len(pReqs) /\ pReqs' \in Seq(Nat)
      BY <2>1, <3>1, CountsTail DEF PtcTypes
    <3>3. Head(pReqs) = (Len(pRead) + 1) + Len(pIn) /\ Len(pRead) + 1 \in Nat
      BY <1>l, <3>2
    <3>4. CountsFrom(pIn', Len(pRead) + 1) /\ Len(pIn') = Len(pIn) + 1
      BY <2>1, <3>1, <3>3, CountsAppend DEF PtcTypes
    <3>5. b + 1 = Len(pRead) + Len(pIn') + 1 /\ Len(pReqs') \in Nat
      BY <1>l, <3>2, <3>4
    <3>6. Len(pRead) + Len(pIn') + Len(pReqs') = pSent
      BY <1>l, <3>1, <3>2, <3>4, <3>5
    <3> QED BY <2>0, <2>1, <3>1, <3>2, <3>4, <3>5, <3>6 DEF RequestsInOrder
  <2>2. CASE pReqs = <<>> /\ (pReqEnd \/ pCancel) /\ pEof' = TRUE /\ UNCHANGED <<pIn, pReqs>>
    BY <2>0, <2>2 DEF RequestsInOrder, CountsFrom
  <2>3. CASE UNCHANGED <<pIn, pReqs, pEof>>
    BY <1>0, <2>0, <2>3
  <2> QED BY <1>6, <2>1, <2>2, <2>3 DEF Feed
<1>7. CASE ReadSocket \/ SendFrame \/ DrainBound
  BY <1>0, <1>7 DEF ReadSocket, SendFrame, DrainBound
<1>8. CASE RunExit
  <2>1. pHandler # "idle" /\ pHandler' # "idle"
          /\ UNCHANGED <<pRead, pIn, pReqs, pEarly, pSent, pBegun, pEof, pCancel, pReqEnd>>
    BY <1>8 DEF RunExit
  <2> QED BY <2>1 DEF RequestsInOrder, CountsFrom
<1>9. CASE ProgramRuns
  <2>1. UNCHANGED <<pReqs, pEarly, pSent, pBegun, pEof, pCancel, pReqEnd, pHandler>>
    BY <1>9 DEF ProgramRuns
  <2>2. CASE UNCHANGED <<pRead, pIn>>
    BY <1>0, <2>1, <2>2
  <2>3. CASE prog = "running" /\ pIn # <<>> /\ pRead' = Append(pRead, Head(pIn)) /\ pIn' = Tail(pIn)
    <3>1. CountsFrom(pRead, 1) /\ CountsFrom(pIn, Len(pRead) + 1) /\ Len(pRead) + 1 \in Nat
      BY <1>l DEF RequestsInOrder
    <3>2. Head(pIn) = Len(pRead) + 1 /\ Len(pIn') + 1 = Len(pIn) /\ CountsFrom(pIn', (Len(pRead) + 1) + 1)
            /\ pIn' \in Seq(Nat)
      BY <2>3, <3>1, CountsTail DEF PtcTypes
    <3>3. Head(pIn) = 1 + Len(pRead)
      BY <1>l, <3>2
    <3>4. CountsFrom(pRead', 1) /\ Len(pRead') = Len(pRead) + 1
      BY <2>3, <3>1, <3>3, CountsAppend DEF PtcTypes
    <3>5. Len(pIn') \in Nat /\ Len(pRead') + Len(pIn') = Len(pRead) + Len(pIn)
      BY <1>l, <3>2, <3>4
    <3>6. pHandler # "idle"
      BY <2>3 DEF RunStands
    <3>7. CountsFrom(pIn', Len(pRead') + 1)
      BY <3>2, <3>4
    <3> QED BY <2>1, <3>4, <3>5, <3>6, <3>7 DEF RequestsInOrder, CountsFrom
  <2> QED BY <1>9, <2>2, <2>3 DEF ProgramRuns
<1> QED BY <1>1, <1>2, <1>3, <1>4, <1>5, <1>6, <1>7, <1>8, <1>9 DEF PtcNext

\* As long as the handler relays, a frame goes one place further on at a time.
LEMMA RelayedStep == PtcInv /\ [PtcNext]_ptcVars => CountsFrom(pGot, 1)' /\ Relayed'
<1> SUFFICES ASSUME PtcInv, [PtcNext]_ptcVars PROVE CountsFrom(pGot, 1)' /\ Relayed'
  OBVIOUS
<1> USE DEF PtcInv, channelVars, relayVars, programVars
<1>0. ASSUME UNCHANGED <<pGot, pWire, pChan, pSock, pWrote, pHandler>> PROVE CountsFrom(pGot, 1)' /\ Relayed'
  BY <1>0 DEF ResponsesInOrder, Relayed, CountsFrom
<1>1. CASE UNCHANGED ptcVars
  BY <1>0, <1>1 DEF ptcVars
<1>l. Len(pGot) \in Nat /\ Len(pWire) \in Nat /\ Len(pChan) \in Nat /\ Len(pSock) \in Nat /\ pWrote \in Nat
  BY DEF PtcTypes
<1> DEFINE w == Len(pGot) + 1
           c == Len(pGot) + Len(pWire) + 1
           k == Len(pGot) + Len(pWire) + Len(pChan) + 1
<1>b. w \in Nat /\ c \in Nat /\ k \in Nat /\ c = w + Len(pWire) /\ k = c + Len(pChan)
  BY <1>l
<1>g. CountsFrom(pGot, 1)
  BY DEF ResponsesInOrder
<1>r. ASSUME pHandler # "returned"
      PROVE  CountsFrom(pWire, w) /\ CountsFrom(pChan, c) /\ CountsFrom(pSock, k) /\ pWrote + 1 = k + Len(pSock)
  BY <1>l, <1>r DEF ResponsesInOrder, Relayed
<1> HIDE DEF w, c, k
<1>2. CASE ChannelWrite \/ ChannelEnd \/ begin \/ CancelRun \/ Feed \/ PipesClose \/ RunKilled
  BY <1>0, <1>2 DEF ChannelWrite, ChannelEnd, begin, CancelRun, Feed, PipesClose, RunKilled
<1>3. CASE Deliver
  <2>1. CASE Head(pWire) = 0
    <3>1. pHandler = "returned"
      <4> SUFFICES ASSUME pHandler # "returned" PROVE FALSE
        OBVIOUS
      <4>1. pWire # <<>> /\ CountsFrom(pWire, w)
        BY <1>3, <1>r DEF Deliver
      <4>2. Head(pWire) = w
        BY <1>b, <4>1, CountsTail DEF PtcTypes
      <4> QED BY <1>l, <2>1, <4>2 DEF w
    <3>2. UNCHANGED <<pGot, pHandler>>
      BY <1>3, <2>1 DEF Deliver
    <3> QED BY <1>g, <3>1, <3>2 DEF Relayed, CountsFrom
  <2>2. CASE Head(pWire) # 0
    <3>1. pWire # <<>> /\ pWire' = Tail(pWire) /\ pGot' = Append(pGot, Head(pWire)) /\ pCall = "running"
            /\ UNCHANGED <<pChan, pSock, pWrote, pHandler>>
      BY <1>3, <2>2 DEF Deliver
    <3>2. Head(pWire) = Len(pGot) + 1
      <4>1. CASE pHandler = "returned"
        <5>1. EndsFrom(pWire, w) /\ w # 0
          BY <1>l, <3>1, <4>1 DEF ResponsesInOrder, StatusLast, RunStands, w
        <5> QED BY <1>b, <2>2, <5>1, EndsTail DEF PtcTypes, w
      <4>2. CASE pHandler # "returned"
        BY <1>b, <1>r, <3>1, <4>2, CountsTail DEF PtcTypes, w
      <4> QED BY <4>1, <4>2
    <3>3. CountsFrom(pGot', 1) /\ Len(pGot') = Len(pGot) + 1
      <4>1. Head(pWire) = 1 + Len(pGot)
        BY <1>l, <3>2
      <4> QED BY <1>g, <3>1, <4>1, CountsAppend DEF PtcTypes
    <3>4. ASSUME pHandler # "returned" PROVE Relayed'
      <4>1. CountsFrom(pWire', w + 1) /\ Len(pWire') + 1 = Len(pWire) /\ pWire' \in Seq(Nat)
        BY <1>b, <1>r, <3>1, <3>4, CountsTail DEF PtcTypes
      <4>2. Len(pWire') \in Nat
        BY <4>1
      <4>3. Len(pGot') + 1 = w + 1 /\ Len(pGot') + Len(pWire') + 1 = c
        BY <1>l, <3>3, <4>1, <4>2 DEF w, c
      <4>4. Len(pGot') + Len(pWire') + Len(pChan) + 1 = k
        BY <1>l, <3>3, <4>1, <4>2 DEF k
      <4>5. Len(pGot') + Len(pWire') + Len(pChan) + Len(pSock) = pWrote
        BY <1>l, <1>r, <3>3, <3>4, <4>1, <4>2 DEF k
      <4> QED BY <1>r, <3>1, <3>4, <4>1, <4>3, <4>4, <4>5 DEF Relayed
    <3> QED BY <3>1, <3>3, <3>4 DEF Relayed
  <2> QED BY <2>1, <2>2
<1>4. CASE RunStart
  <2>1. UNCHANGED <<pGot, pWire, pChan, pSock, pWrote>> /\ pHandler # "returned"
    BY <1>4 DEF RunStart
  <2> QED BY <2>1 DEF ResponsesInOrder, Relayed, CountsFrom
<1>5. CASE ReadSocket
  <2>1. CASE UNCHANGED <<pChan, pSock>>
    BY <1>0, <1>5, <2>1 DEF ReadSocket
  <2>2. CASE pSock # <<>> /\ pChan' = Append(pChan, Head(pSock)) /\ pSock' = Tail(pSock)
    <3>1. UNCHANGED <<pGot, pWire, pWrote, pHandler>>
      BY <1>5 DEF ReadSocket
    <3> SUFFICES ASSUME pHandler # "returned" PROVE Relayed'
      BY <1>g, <3>1 DEF Relayed, CountsFrom
    <3>2. Head(pSock) = k /\ CountsFrom(pSock', k + 1) /\ Len(pSock') + 1 = Len(pSock) /\ pSock' \in Seq(Nat)
      BY <1>b, <1>r, <2>2, CountsTail DEF PtcTypes
    <3>3. CountsFrom(pChan', c) /\ Len(pChan') = Len(pChan) + 1
      BY <1>b, <1>r, <2>2, <3>2, CountsAppend DEF PtcTypes
    <3>4. Len(pSock') \in Nat
      BY <3>2
    <3>5. Len(pGot) + Len(pWire) + Len(pChan') + 1 = k + 1
      BY <1>l, <3>3 DEF k
    <3>6. Len(pGot) + Len(pWire) + Len(pChan') + Len(pSock') = pWrote
      BY <1>l, <1>r, <3>2, <3>3, <3>4 DEF k
    <3> QED BY <1>r, <3>1, <3>2, <3>3, <3>5, <3>6 DEF Relayed, w, c
  <2> QED BY <1>5, <2>1, <2>2 DEF ReadSocket
<1>6. CASE SendFrame
  <2>1. CASE UNCHANGED <<pWire, pChan>>
    BY <1>0, <1>6, <2>1 DEF SendFrame
  <2>2. CASE pChan # <<>> /\ pWire' = Append(pWire, Head(pChan)) /\ pChan' = Tail(pChan)
    <3>1. UNCHANGED <<pGot, pSock, pWrote, pHandler>> /\ pHandler # "returned"
      BY <1>6 DEF SendFrame
    <3>2. Head(pChan) = c /\ CountsFrom(pChan', c + 1) /\ Len(pChan') + 1 = Len(pChan) /\ pChan' \in Seq(Nat)
      BY <1>b, <1>r, <2>2, <3>1, CountsTail DEF PtcTypes
    <3>3. CountsFrom(pWire', w) /\ Len(pWire') = Len(pWire) + 1
      BY <1>b, <1>r, <2>2, <3>1, <3>2, CountsAppend DEF PtcTypes
    <3>4. Len(pChan') \in Nat
      BY <3>2
    <3>5. Len(pGot) + Len(pWire') + 1 = c + 1 /\ Len(pGot) + Len(pWire') + Len(pChan') + 1 = k
      BY <1>l, <3>2, <3>3, <3>4 DEF c, k
    <3>6. Len(pGot) + Len(pWire') + Len(pChan') + Len(pSock) = pWrote
      BY <1>l, <1>r, <3>1, <3>2, <3>3, <3>4 DEF k
    <3>7. CountsFrom(pGot', 1)
      BY <1>g, <3>1 DEF CountsFrom
    <3> QED BY <1>r, <3>1, <3>2, <3>3, <3>5, <3>6, <3>7 DEF Relayed, w
  <2> QED BY <1>6, <2>1, <2>2 DEF SendFrame
<1>7. CASE DrainBound
  <2>1. UNCHANGED <<pGot, pSock, pWrote, pHandler>> /\ pHandler # "returned"
          /\ pWire' = pWire \o pChan /\ pChan' = <<>>
    BY <1>7 DEF DrainBound
  <2>2. CountsFrom(pWire', w) /\ Len(pWire') = Len(pWire) + Len(pChan)
    <3>1. CountsFrom(pChan, w + Len(pWire))
      BY <1>b, <1>r, <2>1
    <3> QED BY <1>b, <1>r, <2>1, <3>1, CountsConcat DEF PtcTypes
  <2>3. Len(pChan') = 0 /\ CountsFrom(pChan', Len(pGot) + Len(pWire') + 1)
    BY <2>1 DEF CountsFrom
  <2>4. Len(pGot) + Len(pWire') + Len(pChan') + 1 = k
    BY <1>l, <2>2, <2>3 DEF k
  <2>5. Len(pGot) + Len(pWire') + Len(pChan') + Len(pSock) = pWrote
    BY <1>l, <1>r, <2>1, <2>2, <2>3 DEF k
  <2>6. CountsFrom(pGot', 1)
    BY <1>g, <2>1 DEF CountsFrom
  <2> QED BY <1>r, <2>1, <2>2, <2>3, <2>4, <2>5, <2>6 DEF Relayed, w
<1>8. CASE RunExit
  BY <1>8, <1>g DEF RunExit, Relayed, CountsFrom
<1>9. CASE ProgramRuns
  <2>1. CASE UNCHANGED <<pSock, pWrote>>
    BY <1>0, <1>9, <2>1 DEF ProgramRuns
  <2>2. CASE pWrote' = pWrote + 1 /\ pSock' = Append(pSock, pWrote + 1)
    <3>1. UNCHANGED <<pGot, pWire, pChan, pHandler>>
      BY <1>9 DEF ProgramRuns
    <3> SUFFICES ASSUME pHandler # "returned" PROVE Relayed'
      BY <1>g, <3>1 DEF Relayed, CountsFrom
    <3>2. CountsFrom(pSock', k) /\ Len(pSock') = Len(pSock) + 1
      BY <1>b, <1>r, <2>2, CountsAppend DEF PtcTypes
    <3>3. Len(pGot) + Len(pWire) + Len(pChan) + Len(pSock') = pWrote'
      BY <1>l, <1>r, <2>2, <3>2 DEF k
    <3> QED BY <1>r, <3>1, <3>2, <3>3 DEF Relayed, w, c, k
  <2> QED BY <1>9, <2>1, <2>2 DEF ProgramRuns
<1> QED BY <1>1, <1>2, <1>3, <1>4, <1>5, <1>6, <1>7, <1>8, <1>9 DEF PtcNext

\* A socket nobody holds stays that way, and a channel that is over stays over.
LEMMA ReaderOverStep == PtcInv /\ [PtcNext]_ptcVars => ReaderOver'
<1> SUFFICES ASSUME PtcInv, [PtcNext]_ptcVars PROVE ReaderOver'
  OBVIOUS
<1> USE DEF PtcInv, ResponsesInOrder, ReaderOver, fdHeld, channelVars, relayVars, programVars
<1>1. CASE UNCHANGED ptcVars
  BY <1>1 DEF ptcVars
<1>2. CASE ChannelWrite \/ ChannelEnd \/ begin \/ Deliver \/ CancelRun
  BY <1>2 DEF ChannelWrite, ChannelEnd, begin, Deliver, CancelRun
<1>3. CASE RunStart
  BY <1>3 DEF RunStart, RunStands
<1>4. CASE Feed \/ PipesClose \/ RunExit \/ SendFrame \/ DrainBound
  BY <1>4 DEF Feed, PipesClose, RunExit, SendFrame, DrainBound
<1>5. CASE ReadSocket
  BY <1>5 DEF ReadSocket
<1>6. CASE RunKilled \/ ProgramRuns
  BY <1>6 DEF RunKilled, ProgramRuns
<1> QED BY <1>1, <1>2, <1>3, <1>4, <1>5, <1>6 DEF PtcNext

\* The exit status stays the last message.
LEMMA StatusLastStep == PtcInv /\ [PtcNext]_ptcVars => StatusLast'
<1> SUFFICES ASSUME PtcInv, [PtcNext]_ptcVars PROVE StatusLast'
  OBVIOUS
<1> USE DEF PtcInv, ResponsesInOrder, channelVars, relayVars, programVars
<1>0. ASSUME UNCHANGED <<pHandler, pCut, pReader, pSock, pChan, pCall, pGot, pWire, pWrote>>,
             pCancel => pCancel', ~fdHeld => ~fdHeld'
      PROVE  StatusLast'
  BY <1>0 DEF StatusLast, Nothing
<1>1. CASE UNCHANGED ptcVars
  BY <1>0, <1>1 DEF ptcVars, fdHeld
<1>l. Len(pGot) \in Nat /\ Len(pWire) \in Nat /\ Len(pChan) \in Nat /\ Len(pSock) \in Nat /\ pWrote \in Nat
  BY DEF PtcTypes
<1>2. CASE ChannelWrite \/ ChannelEnd \/ Feed \/ PipesClose
  BY <1>0, <1>2 DEF ChannelWrite, ChannelEnd, Feed, PipesClose, fdHeld
<1>3. CASE begin \/ SendFrame \/ DrainBound
  BY <1>3 DEF begin, SendFrame, DrainBound, StatusLast, RunStands
<1>4. CASE CancelRun
  BY <1>4 DEF CancelRun, StatusLast
<1>5. CASE RunStart
  BY <1>5, StartIsFirst DEF RunStart, StatusLast
<1>6. CASE Deliver
  <2> SUFFICES ASSUME pHandler = "returned", ~pCancel PROVE StatusLast'
    BY <1>6 DEF Deliver, StatusLast
  <2>0. pCall = "running" /\ pWire # <<>> /\ pWire' = Tail(pWire)
          /\ UNCHANGED <<pHandler, pCancel, pCut, pReader, pSock, pChan, pWrote, prog, heir>>
    BY <1>6 DEF Deliver
  <2>1. /\ ~pCut => Nothing
        /\ EndsFrom(pWire, Len(pGot) + 1)
        /\ ~pCut => Len(pGot) + Len(pWire) = pWrote + 1
    BY <2>0 DEF StatusLast
  <2>2. Len(pGot) + 1 \in Nat /\ Len(pGot) + 1 # 0
    BY <1>l
  <2>3. ~pCut' => Nothing'
    BY <2>0, <2>1 DEF Nothing, fdHeld
  <2>4. CASE Head(pWire) = 0
    <3>1. pWire' = <<>> /\ Len(pWire) = 1
      BY <2>0, <2>1, <2>2, <2>4, EndsTail DEF PtcTypes
    <3>2. pCall' = "exited" /\ UNCHANGED pGot
      BY <1>6, <2>4 DEF Deliver
    <3> QED BY <1>l, <2>0, <2>1, <2>3, <3>1, <3>2 DEF StatusLast
  <2>5. CASE Head(pWire) # 0
    <3>1. UNCHANGED pCall /\ pGot' = Append(pGot, Head(pWire))
      BY <1>6, <2>5 DEF Deliver
    <3>2. Len(pGot') = Len(pGot) + 1
      BY <2>0, <3>1 DEF PtcTypes
    <3>3. EndsFrom(pWire', (Len(pGot) + 1) + 1) /\ Len(pWire') + 1 = Len(pWire) /\ pWire' \in Seq(Nat)
      BY <2>0, <2>1, <2>2, <2>5, EndsTail DEF PtcTypes
    <3>4. Len(pWire') \in Nat
      BY <3>3
    <3>5. EndsFrom(pWire', Len(pGot') + 1)
      BY <3>2, <3>3
    <3>6. ~pCut => Len(pGot') + Len(pWire') = pWrote + 1
      BY <1>l, <2>1, <3>2, <3>3, <3>4
    <3> QED BY <2>0, <2>3, <3>1, <3>5, <3>6 DEF StatusLast
  <2> QED BY <2>4, <2>5
<1>7. CASE ReadSocket
  <2>1. UNCHANGED <<pHandler, pCut, pCall, pGot, pWire, pWrote, pCancel, prog, heir>>
    BY <1>7 DEF ReadSocket
  <2>2. pHandler = "returned" /\ ~pCancel /\ ~pCut => FALSE
    BY <1>7 DEF ReadSocket, StatusLast, Nothing
  <2> QED BY <2>1, <2>2 DEF StatusLast
<1>8. CASE RunExit
  <2> SUFFICES ASSUME ~pCancel PROVE StatusLast'
    BY <1>8 DEF RunExit, StatusLast
  <2>1. pHandler = "loop" /\ ~pOpen /\ pWire' = Append(pWire, 0) /\ pCall = "running"
          /\ UNCHANGED <<pCut, pReader, pSock, pChan, pCall, pGot, pWrote, pCancel, prog, heir>>
    BY <1>8 DEF RunExit, RunStands
  <2>2. ~pCut => Nothing
    BY <2>1 DEF ReaderOver, Nothing
  <2>3. CountsFrom(pWire, Len(pGot) + 1) /\ (~pCut => Len(pGot) + Len(pWire) = pWrote)
    <3>1. /\ CountsFrom(pWire, Len(pGot) + 1)
          /\ Len(pGot) + Len(pWire) + Len(pChan) + Len(pSock) = pWrote
      BY <2>1 DEF Relayed
    <3>2. ~pCut => Len(pChan) = 0 /\ Len(pSock) = 0
      BY <2>2 DEF Nothing
    <3> QED BY <1>l, <3>1, <3>2
  <2>4. Len(pWire') = Len(pWire) + 1 /\ EndsFrom(pWire', Len(pGot) + 1)
    BY <1>l, <2>1, <2>3, EndsAppend DEF PtcTypes
  <2>5. ~pCut => Nothing'
    BY <2>1, <2>2 DEF Nothing, fdHeld
  <2>6. ~pCut => Len(pGot) + Len(pWire') = pWrote + 1
    BY <1>l, <2>3, <2>4
  <2> QED BY <2>1, <2>4, <2>5, <2>6 DEF StatusLast
<1>9. CASE RunKilled
  BY <1>0, <1>9 DEF RunKilled, fdHeld
<1>10. CASE ProgramRuns
  <2>1. UNCHANGED <<pHandler, pCut, pReader, pChan, pCall, pGot, pWire, pCancel>>
    BY <1>10 DEF ProgramRuns
  <2>2. fdHeld
    BY <1>10 DEF ProgramRuns, fdHeld
  <2>3. pHandler = "returned" /\ ~pCancel => pCut
    BY <2>2 DEF StatusLast, Nothing
  <2> QED BY <2>1, <2>3 DEF StatusLast
<1> QED BY <1>1, <1>2, <1>3, <1>4, <1>5, <1>6, <1>7, <1>8, <1>9, <1>10 DEF PtcNext

\* A run that was not started has sent and received nothing.
LEMMA PtcBegins == PtcInit => PtcInv
<1> SUFFICES ASSUME PtcInit PROVE PtcInv
  OBVIOUS
<1>1. PtcTypes
  BY DEF PtcInit, PtcTypes
<1>2. RunStands
  BY DEF PtcInit, RunStands
<1>3. RequestsInOrder
  BY DEF PtcInit, RequestsInOrder, CountsFrom
<1>4. ResponsesInOrder
  BY DEF PtcInit, ResponsesInOrder, Relayed, ReaderOver, StatusLast, CountsFrom
<1> QED BY <1>1, <1>2, <1>3, <1>4 DEF PtcInv

\* Every step keeps the invariant.
LEMMA PtcInvStep == PtcInv /\ [PtcNext]_ptcVars => PtcInv'
  BY PtcTypesStep, RunStandsStep, RequestsInOrderStep, RelayedStep, ReaderOverStep, StatusLastStep
     DEF PtcInv, ResponsesInOrder

\* The invariant is strong enough: what was read and received counts from one,
\* and an exit that was received is behind all the program wrote.
LEMMA PtcInvImplies == PtcInv => FramesInOrder
<1> SUFFICES ASSUME PtcInv PROVE FramesInOrder
  OBVIOUS
<1> USE DEF PtcInv
<1>1. CountsFrom(pRead, 1) /\ CountsFrom(pIn, 1 + Len(pRead))
  BY DEF RequestsInOrder, PtcTypes
<1>2. CountsFrom(pRead \o pIn, 1) /\ Len(pRead \o pIn) = Len(pRead) + Len(pIn) /\ pRead \o pIn \in Seq(Nat)
  BY <1>1, CountsConcat DEF PtcTypes
<1>3. ASSUME NEW s \in Seq(Nat), CountsFrom(s, 1) PROVE Counts(s)
  <2> SUFFICES ASSUME NEW i \in 1 .. Len(s) PROVE s[i] = i
    BY DEF Counts
  <2>1. s[i] \in Nat /\ s[i] + 1 = 1 + i
    BY <1>3 DEF CountsFrom
  <2> QED BY <2>1
<1>4. Counts(pRead \o pIn) /\ Counts(pGot)
  BY <1>2, <1>3 DEF ResponsesInOrder, PtcTypes
<1>5. pEof /\ ~pCancel => Len(pRead \o pIn) = pSent
  <2>1. pEof /\ ~pCancel => pReqs = <<>> /\ Len(pRead) + Len(pIn) + Len(pReqs) = pSent
    BY DEF RequestsInOrder
  <2>2. pReqs = <<>> => Len(pReqs) = 0
    OBVIOUS
  <2> QED BY <1>2, <2>1, <2>2 DEF PtcTypes
<1>6. pCall = "exited" /\ ~pCut => Len(pGot) = pWrote
  BY DEF RunStands, ResponsesInOrder, StatusLast
<1> QED BY <1>4, <1>5, <1>6 DEF FramesInOrder, RunStands

\* For any number of writes and frames and any channel of the runner's PtcRun:
\* the program reads what the caller wrote, from the first early write on, and
\* end-of-file behind all of it; the caller reads the program's frames in order,
\* and the exit status behind all of them unless the drain bound closed the
\* channel; and only a cancelled run returns without a program.
THEOREM FramesInOrderHolds == PtcSpec => []FramesInOrder
  BY PtcBegins, PtcInvStep, PtcInvImplies, PTL DEF PtcSpec

-----------------------------------------------------------------------------
(***************************************************************************)
(* Terminal, for any number of queries, inputs and outputs and any buffer. *)
(***************************************************************************)

EventKinds == {"started", "output", "exited", "closed", "answer"}
ReqKinds == {"start", "ask", "input"}

TermTypes ==
  /\ tHandle \in [started : BOOLEAN, closed : BOOLEAN, quiescent : BOOLEAN,
                  done : {"none", "exit", "failed"}, finished : BOOLEAN, over : BOOLEAN]
  /\ tReqs \in Seq([kind : ReqKinds, n : Nat]) /\ tEvents \in Seq([kind : EventKinds, n : Nat])
  /\ tAsk \in Nat /\ tAsked \in Nat /\ tSeen \in Nat /\ tPty \in Nat /\ tShown \in Nat

\* The k-th event of the queue.
EventAt(i, k) == i \in 1 .. Len(tEvents) /\ tEvents[i].kind = k

\* The pump ends with the last holder of the PTY and an empty PTY, unless the
\* master was closed under it.
PtyOver ==
  /\ tCtl = "idle" => tPump = "idle" /\ tLadder = "off"
  /\ tPump = "idle" => tCtl = "idle" \/ tRet
  /\ tHungUp => tLadder = "closed"
  /\ tPump = "run" /\ tLadder = "closed" => tHungUp
  /\ tPump = "end" /\ ~tHungUp => tPty = 0 /\ ~ptyHeld
  /\ tShut => tExitSent /\ tPump = "end"

\* No output is behind the closed event, in the queue or delivered.
NoOutputAfter ==
  /\ \A i \in 1 .. Len(tEvents) :
       EventAt(i, "closed") => tShut /\ \A j \in i .. Len(tEvents) : ~EventAt(j, "output")
  /\ tHandle.quiescent => tShut /\ \A i \in 1 .. Len(tEvents) : ~EventAt(i, "output")

\* The exit status is ahead of the closed event.
ExitBefore == ~tLost =>
  /\ tExitSent => tHandle.done = "exit" \/ \E j \in 1 .. Len(tEvents) : EventAt(j, "exited")
  /\ \A i \in 1 .. Len(tEvents) :
       EventAt(i, "closed") => tHandle.done = "exit" \/ \E j \in 1 .. i - 1 : EventAt(j, "exited")

\* c[i] outputs are delivered once the i-th event is: none is lost between
\* the PTY and the handle, and all the pump read are ahead of the closed event.
Tally(c) ==
  /\ c[0] = tSeen /\ c[Len(tEvents)] + tPty = tShown
  /\ \A i \in 1 .. Len(tEvents) : c[i] = c[i - 1] + (IF tEvents[i].kind = "output" THEN 1 ELSE 0)
  /\ \A i \in 1 .. Len(tEvents) : EventAt(i, "closed") => c[i] = c[Len(tEvents)]
AllCounted == ~tLost => \E c \in [0 .. Len(tEvents) -> Nat] : Tally(c)

\* ClosedIsLast speaks of the handle; the invariant follows the exit status and
\* the outputs through the queue of events to it.
TermInv == TermTypes /\ PtyOver /\ NoOutputAfter /\ ExitBefore /\ AllCounted /\ ClosedIsLast

\* One query is under way at a time, as a request or as its answer.
AskAt(i) == i \in 1 .. Len(tReqs) /\ tReqs[i].kind = "ask"
OneAsk ==
  /\ tAsk = 0 /\ ~tHandle.closed => /\ \A i \in 1 .. Len(tReqs) : ~AskAt(i)
                                    /\ \A i \in 1 .. Len(tEvents) : ~EventAt(i, "answer")
  /\ tAsk # 0 =>
       /\ \A i \in 1 .. Len(tReqs) : AskAt(i) => tReqs[i].n = tAsk
       /\ \A i \in 1 .. Len(tEvents) : EventAt(i, "answer") => tEvents[i].n = tAsk
       /\ \A i, j \in 1 .. Len(tReqs) : AskAt(i) /\ AskAt(j) => i = j
       /\ \A i, j \in 1 .. Len(tEvents) : EventAt(i, "answer") /\ EventAt(j, "answer") => i = j
       /\ \A i \in 1 .. Len(tReqs), j \in 1 .. Len(tEvents) : ~(AskAt(i) /\ EventAt(j, "answer"))
\* An answer is its query's own because no other is under way.
AskInv == TermTypes /\ OneAsk /\ tPaired

\* What an event that is queued, and one that is taken, leave of the queue.
LEMMA EventsGrow ==
  ASSUME TermTypes, NEW k \in EventKinds, NEW n \in Nat, send(k, n)
  PROVE  /\ tEvents' \in Seq([kind : EventKinds, n : Nat])
         /\ Len(tEvents) \in Nat /\ Len(tEvents') = Len(tEvents) + 1
         /\ \A i \in 1 .. Len(tEvents) : tEvents'[i] = tEvents[i]
         /\ tEvents'[Len(tEvents) + 1].kind = k /\ tEvents'[Len(tEvents) + 1].n = n
<1>1. Req(k, n) \in [kind : EventKinds, n : Nat] /\ Req(k, n).kind = k /\ Req(k, n).n = n
  BY DEF Req
<1>2. tEvents' = Append(tEvents, Req(k, n))
  BY DEF send
<1> QED BY <1>1, <1>2 DEF TermTypes

\* An event that is delivered moves the others up.
LEMMA EventsShrink ==
  ASSUME TermTypes, tEvents # <<>>, tEvents' = Tail(tEvents)
  PROVE  /\ tEvents' \in Seq([kind : EventKinds, n : Nat])
         /\ Len(tEvents) \in Nat /\ Len(tEvents') \in Nat /\ Len(tEvents') + 1 = Len(tEvents)
         /\ \A i \in 1 .. Len(tEvents') : tEvents'[i] = tEvents[i + 1] /\ i + 1 \in 1 .. Len(tEvents)
         /\ Head(tEvents) = tEvents[1] /\ 1 \in 1 .. Len(tEvents)
         /\ Head(tEvents).kind \in EventKinds /\ Head(tEvents).n \in Nat
<1>1. tEvents \in Seq([kind : EventKinds, n : Nat])
  BY DEF TermTypes
<1>2. Head(tEvents) \in [kind : EventKinds, n : Nat]
  BY <1>1, QueueTail
<1>3. Head(tEvents).kind \in EventKinds /\ Head(tEvents).n \in Nat
  BY <1>2
<1> QED BY <1>1, <1>3, QueueTail

\* A request that is taken, and one that is queued.
LEMMA ReqsShrink ==
  ASSUME TermTypes, tReqs # <<>>, tReqs' = Tail(tReqs)
  PROVE  /\ tReqs' \in Seq([kind : ReqKinds, n : Nat])
         /\ Len(tReqs) \in Nat /\ Len(tReqs') \in Nat /\ Len(tReqs') + 1 = Len(tReqs)
         /\ \A i \in 1 .. Len(tReqs') : tReqs'[i] = tReqs[i + 1] /\ i + 1 \in 1 .. Len(tReqs)
         /\ Head(tReqs) = tReqs[1] /\ 1 \in 1 .. Len(tReqs)
         /\ Head(tReqs).kind \in ReqKinds /\ Head(tReqs).n \in Nat
<1>1. tReqs \in Seq([kind : ReqKinds, n : Nat])
  BY DEF TermTypes
<1>2. Head(tReqs) \in [kind : ReqKinds, n : Nat]
  BY <1>1, QueueTail
<1>3. Head(tReqs).kind \in ReqKinds /\ Head(tReqs).n \in Nat
  BY <1>2
<1> QED BY <1>1, <1>3, QueueTail

\* A request that is sent is the last.
LEMMA ReqsGrow ==
  ASSUME TermTypes, NEW k \in ReqKinds, NEW n \in Nat, tReqs' = Append(tReqs, Req(k, n))
  PROVE  /\ tReqs' \in Seq([kind : ReqKinds, n : Nat])
         /\ Len(tReqs) \in Nat /\ Len(tReqs') = Len(tReqs) + 1
         /\ \A i \in 1 .. Len(tReqs) : tReqs'[i] = tReqs[i]
         /\ tReqs'[Len(tReqs) + 1].kind = k /\ tReqs'[Len(tReqs) + 1].n = n
<1>1. Req(k, n) \in [kind : ReqKinds, n : Nat] /\ Req(k, n).kind = k /\ Req(k, n).n = n
  BY DEF Req
<1> QED BY <1>1 DEF TermTypes

\* Every step keeps the types.
LEMMA TermTypesStep == TermTypes /\ [TermNext]_termVars => TermTypes'
<1> SUFFICES ASSUME TermTypes, [TermNext]_termVars PROVE TermTypes'
  OBVIOUS
<1> USE DEF handleVars, tStreamVars, tRunVars, ptyVars
<1>0. ASSUME UNCHANGED <<tReqs, tEvents, tAsk, tAsked, tSeen, tPty, tShown>>,
             tHandle' \in [started : BOOLEAN, closed : BOOLEAN, quiescent : BOOLEAN,
                           done : {"none", "exit", "failed"}, finished : BOOLEAN, over : BOOLEAN]
      PROVE  TermTypes'
  BY <1>0 DEF TermTypes
<1>1. CASE UNCHANGED termVars
  BY <1>0, <1>1 DEF termVars, TermTypes
<1>2. CASE Ask
  <2>1. tAsked + 1 \in Nat /\ tAsk' = tAsked + 1 /\ tReqs' = Append(tReqs, Req("ask", tAsked + 1))
    BY <1>2 DEF Ask, ask, TermTypes
  <2>2. tReqs' \in Seq([kind : ReqKinds, n : Nat])
    BY <2>1, ReqsGrow DEF ReqKinds
  <2> QED BY <1>2, <2>1, <2>2 DEF Ask, TermTypes
<1>3. CASE Type
  <2>1. tReqs' \in Seq([kind : ReqKinds, n : Nat])
    BY <1>3, ReqsGrow DEF Type, ReqKinds
  <2> QED BY <1>3, <2>1 DEF Type, TermTypes
<1>4. CASE terminate
  BY <1>0, <1>4 DEF terminate, TermTypes
<1>5. CASE Consume
  <2>1. tEvents' \in Seq([kind : EventKinds, n : Nat])
    BY <1>5, EventsShrink DEF Consume
  <2>2. tHandle' \in [started : BOOLEAN, closed : BOOLEAN, quiescent : BOOLEAN,
                      done : {"none", "exit", "failed"}, finished : BOOLEAN, over : BOOLEAN]
          /\ tAsk' \in Nat /\ tSeen' \in Nat
    <3> DEFINE e == Head(tEvents)
    <3>1. e.kind \in EventKinds
      BY <1>5, EventsShrink DEF Consume
    <3>2. CASE UNCHANGED <<tHandle, tAsk, tSeen>>
      BY <3>2 DEF TermTypes
    <3>3. CASE ~tLost /\ e.kind = "started"
      BY <1>5, <3>3 DEF Consume, TermTypes
    <3>4. CASE ~tLost /\ e.kind = "output"
      BY <1>5, <3>4 DEF Consume, TermTypes
    <3>5. CASE ~tLost /\ e.kind = "exited"
      BY <1>5, <3>5 DEF Consume, TermTypes
    <3>6. CASE ~tLost /\ e.kind = "closed"
      BY <1>5, <3>6 DEF Consume, TermTypes
    <3>7. CASE ~tLost /\ e.kind = "answer"
      BY <1>5, <3>7 DEF Consume, TermTypes
    <3> QED BY <1>5, <3>1, <3>2, <3>3, <3>4, <3>5, <3>6, <3>7 DEF Consume, EventKinds
  <2>3. UNCHANGED <<tReqs, tAsked, tPty, tShown>>
    BY <1>5 DEF Consume
  <2> QED BY <2>1, <2>2, <2>3 DEF TermTypes
<1>6. CASE StreamEnds
  <2>1. tAsk' \in Nat
    BY <1>6 DEF StreamEnds, TermTypes
  <2> QED BY <1>6, <2>1 DEF StreamEnds, TermTypes
<1>7. CASE TunnelBreaks
  BY <1>7 DEF TunnelBreaks, fail, TermTypes
<1>8. CASE TerminalStart
  <2>1. CASE tReqs # <<>> /\ tReqs' = Tail(tReqs) /\ send("started", 0)
    BY <1>8, <2>1, ReqsShrink, EventsGrow DEF TerminalStart, TermTypes, EventKinds
  <2>2. CASE UNCHANGED <<tReqs, tEvents>>
    BY <1>0, <1>8, <2>2 DEF TerminalStart, TermTypes
  <2> QED BY <1>8, <2>1, <2>2 DEF TerminalStart
<1>9. CASE Control
  <2>1. tReqs' \in Seq([kind : ReqKinds, n : Nat]) /\ Head(tReqs).n \in Nat
    BY <1>9, ReqsShrink DEF Control
  <2>2. CASE send("answer", Head(tReqs).n)
    BY <1>9, <2>1, <2>2, EventsGrow DEF Control, TermTypes, EventKinds
  <2>3. CASE UNCHANGED tEvents
    BY <1>9, <2>1, <2>3 DEF Control, TermTypes
  <2> QED BY <1>9, <2>2, <2>3 DEF Control, answer
<1>10. CASE WriteInput \/ ControlsDone \/ Ladder \/ Return \/ ReadInput
  BY <1>0, <1>10 DEF WriteInput, ControlsDone, Ladder, Return, ReadInput, TermTypes
<1>11. CASE Pump
  <2>1. CASE tPty > 0 /\ send("output", 0) /\ tPty' = tPty - 1
    BY <1>11, <2>1, EventsGrow DEF Pump, TermTypes, EventKinds
  <2>2. CASE UNCHANGED <<tEvents, tPty>>
    BY <1>0, <1>11, <2>2 DEF Pump, TermTypes
  <2> QED BY <1>11, <2>1, <2>2 DEF Pump
<1>12. CASE ExitWatch
  <2>1. CASE send("exited", 0)
    BY <1>12, <2>1, EventsGrow DEF ExitWatch, TermTypes, EventKinds
  <2>2. CASE UNCHANGED tEvents
    BY <1>0, <1>12, <2>2 DEF ExitWatch, TermTypes
  <2> QED BY <1>12, <2>1, <2>2 DEF ExitWatch
<1>13. CASE SendClosed
  BY <1>13, EventsGrow DEF SendClosed, TermTypes, EventKinds
<1>14. CASE SessionRuns
  <2>1. UNCHANGED <<tHandle, tReqs, tEvents, tAsk, tAsked, tSeen>> /\ tPty' \in Nat /\ tShown' \in Nat
    BY <1>14 DEF SessionRuns, TermTypes
  <2> QED BY <2>1 DEF TermTypes
<1> QED BY <1>1, <1>2, <1>3, <1>4, <1>5, <1>6, <1>7, <1>8, <1>9, <1>10, <1>11, <1>12, <1>13, <1>14 DEF TermNext

\* Every step keeps what the end of the pump says about the PTY.
LEMMA PtyOverStep == TermTypes /\ PtyOver /\ [TermNext]_termVars => PtyOver'
<1> SUFFICES ASSUME TermTypes, PtyOver, [TermNext]_termVars PROVE PtyOver'
  OBVIOUS
<1> USE DEF PtyOver, ptyHeld, handleVars, tStreamVars, tRunVars, ptyVars
<1>1. CASE UNCHANGED termVars
  BY <1>1 DEF termVars
<1>2. CASE Ask \/ Type \/ terminate \/ Consume \/ StreamEnds \/ TunnelBreaks
  BY <1>2 DEF Ask, Type, terminate, Consume, StreamEnds, TunnelBreaks
<1>3. CASE TerminalStart
  BY <1>3 DEF TerminalStart, startTerminal
<1>4. CASE Control \/ WriteInput \/ ControlsDone
  BY <1>4 DEF Control, WriteInput, ControlsDone
<1>5. CASE Ladder
  <2>1. UNCHANGED <<tCtl, tPump, tRet, tExitSent, tShut, tPty>> /\ tCtl # "idle" /\ ~tRet /\ tPump # "idle"
          /\ tLadder # "closed" /\ ~tHungUp
    BY <1>5 DEF Ladder
  <2>2. ~ptyHeld => ~ptyHeld'
    BY <1>5 DEF Ladder
  <2>3. CASE tLadder' # "closed" /\ UNCHANGED tHungUp
    BY <2>1, <2>2, <2>3
  <2>4. CASE tLadder' = "closed" /\ tHungUp' = (tPump = "run")
    <3>1. CASE tPump = "run"
      BY <2>1, <2>2, <2>4, <3>1
    <3>2. CASE tPump # "run"
      BY <2>1, <2>2, <2>4, <3>2
    <3> QED BY <3>1, <3>2
  <2> QED BY <1>5, <2>3, <2>4 DEF Ladder
<1>6. CASE Pump
  BY <1>6 DEF Pump
<1>7. CASE ExitWatch \/ SendClosed \/ Return \/ ReadInput
  BY <1>7 DEF ExitWatch, SendClosed, Return, ReadInput
<1>8. CASE SessionRuns
  BY <1>8 DEF SessionRuns
<1> QED BY <1>1, <1>2, <1>3, <1>4, <1>5, <1>6, <1>7, <1>8 DEF TermNext

\* What a step may do to the handle and the queue of events.
Delivers ==
  /\ tEvents # <<>> /\ tEvents' = Tail(tEvents)
  /\ UNCHANGED <<tLost, tExitSent, tShut, tHungUp, tPump, tPty, tShown>>
  /\ IF tLost THEN UNCHANGED <<tHandle, tSeen>>
     ELSE LET k == Head(tEvents).kind
          IN  /\ tSeen' = IF k = "output" THEN tSeen + 1 ELSE tSeen
              /\ tHandle'.done = IF k = "exited" THEN "exit" ELSE tHandle.done
              /\ tHandle'.quiescent = IF k = "closed" THEN TRUE ELSE tHandle.quiescent
Queues(k) ==
  /\ \E n \in Nat : send(k, n)
  /\ UNCHANGED <<tHandle, tSeen, tLost, tHungUp, tShown>>
  /\ tPty' = IF k = "output" THEN tPty - 1 ELSE tPty
  /\ tExitSent' = IF k = "exited" THEN TRUE ELSE tExitSent
  /\ tShut' = IF k = "closed" THEN TRUE ELSE tShut
  /\ k = "output" => tPump = "run" /\ tPty > 0
  /\ k = "closed" => tExitSent
KeepsQueue ==
  /\ UNCHANGED <<tEvents, tSeen, tExitSent, tShut>>
  /\ tLost => tLost'
  /\ tHandle'.quiescent = tHandle.quiescent
  /\ tHandle.done = "exit" => tHandle'.done = "exit"
  /\ tHungUp => tHungUp'
  /\ \/ UNCHANGED <<tPty, tShown>>
     \/ ptyHeld /\ tShown' = tShown + 1 /\ tPty' = tPty + 1

\* Every step does one of the three.
LEMMA QueueSteps ==
  ASSUME TermTypes, PtyOver, [TermNext]_termVars
  PROVE  Delivers \/ KeepsQueue \/ \E k \in EventKinds : Queues(k)
<1> USE DEF handleVars, tStreamVars, tRunVars, ptyVars
<1>0. ASSUME UNCHANGED <<tEvents, tHandle, tSeen, tExitSent, tShut, tPty, tShown, tLost>>, tHungUp => tHungUp'
      PROVE  KeepsQueue
  BY <1>0 DEF KeepsQueue
<1>1. CASE UNCHANGED termVars
  BY <1>0, <1>1 DEF termVars
<1>2. CASE Ask \/ Type
  BY <1>0, <1>2 DEF Ask, Type
<1>3. CASE terminate
  <2>1. tHandle'.quiescent = tHandle.quiescent /\ tHandle'.done = tHandle.done
    BY <1>3 DEF terminate, TermTypes
  <2> QED BY <1>3, <2>1 DEF terminate, KeepsQueue
<1>4. CASE StreamEnds
  <2>1. tHandle'.quiescent = tHandle.quiescent /\ (tHandle.done = "exit" => tHandle'.done = "exit")
    BY <1>4 DEF StreamEnds, TermTypes
  <2> QED BY <1>4, <2>1 DEF StreamEnds, KeepsQueue
<1>5. CASE TunnelBreaks
  <2>1. tHandle'.quiescent = tHandle.quiescent /\ (tHandle.done = "exit" => tHandle'.done = "exit")
    BY <1>5 DEF TunnelBreaks, fail, TermTypes
  <2> QED BY <1>5, <2>1 DEF TunnelBreaks, KeepsQueue
<1>6. CASE Consume
  <2> DEFINE e == Head(tEvents)
  <2>0. /\ tEvents # <<>> /\ tEvents' = Tail(tEvents) /\ e.kind \in EventKinds
        /\ UNCHANGED <<tLost, tExitSent, tShut, tHungUp, tPump, tPty, tShown>>
    BY <1>6, EventsShrink DEF Consume
  <2>1. CASE tLost
    BY <1>6, <2>0, <2>1 DEF Consume, Delivers
  <2>2. CASE ~tLost /\ e.kind = "started"
    <3>1. tSeen' = tSeen /\ tHandle'.done = tHandle.done /\ tHandle'.quiescent = tHandle.quiescent
      BY <1>6, <2>2 DEF Consume, TermTypes
    <3> QED BY <2>0, <2>2, <3>1 DEF Delivers
  <2>3. CASE ~tLost /\ e.kind = "output"
    <3>1. tSeen' = tSeen + 1 /\ tHandle' = tHandle
      BY <1>6, <2>3 DEF Consume
    <3> QED BY <2>0, <2>3, <3>1 DEF Delivers
  <2>4. CASE ~tLost /\ e.kind = "exited"
    <3>1. tSeen' = tSeen /\ tHandle'.done = "exit" /\ tHandle'.quiescent = tHandle.quiescent
      BY <1>6, <2>4 DEF Consume, TermTypes
    <3> QED BY <2>0, <2>4, <3>1 DEF Delivers
  <2>5. CASE ~tLost /\ e.kind = "closed"
    <3>1. tSeen' = tSeen /\ tHandle'.done = tHandle.done /\ tHandle'.quiescent = TRUE
      BY <1>6, <2>5 DEF Consume, TermTypes
    <3> QED BY <2>0, <2>5, <3>1 DEF Delivers
  <2>6. CASE ~tLost /\ e.kind = "answer"
    <3>1. tSeen' = tSeen /\ tHandle' = tHandle
      BY <1>6, <2>6 DEF Consume
    <3> QED BY <2>0, <2>6, <3>1 DEF Delivers
  <2> QED BY <2>0, <2>1, <2>2, <2>3, <2>4, <2>5, <2>6 DEF EventKinds
<1>7. CASE TerminalStart
  <2>1. CASE send("started", 0)
    <3>1. Queues("started")
      BY <1>7, <2>1 DEF TerminalStart, Queues
    <3> QED BY <3>1 DEF EventKinds
  <2>2. CASE UNCHANGED tEvents
    BY <1>0, <1>7, <2>2 DEF TerminalStart
  <2> QED BY <1>7, <2>1, <2>2 DEF TerminalStart
<1>8. CASE Control
  <2>1. CASE send("answer", Head(tReqs).n)
    <3>0. Head(tReqs).n \in Nat
      BY <1>8, ReqsShrink DEF Control
    <3>1. Queues("answer")
      BY <1>8, <2>1, <3>0 DEF Control, Queues
    <3> QED BY <3>1 DEF EventKinds
  <2>2. CASE UNCHANGED tEvents
    BY <1>0, <1>8, <2>2 DEF Control
  <2> QED BY <1>8, <2>1, <2>2 DEF Control, answer
<1>9. CASE WriteInput \/ ControlsDone \/ Return \/ ReadInput
  BY <1>0, <1>9 DEF WriteInput, ControlsDone, Return, ReadInput
<1>10. CASE Ladder
  <2>1. tHungUp => tHungUp'
    BY <1>10 DEF Ladder, PtyOver
  <2> QED BY <1>0, <1>10, <2>1 DEF Ladder
<1>11. CASE Pump
  <2>1. CASE tPty > 0 /\ send("output", 0) /\ tPty' = tPty - 1
    <3>1. Queues("output")
      BY <1>11, <2>1 DEF Pump, Queues
    <3> QED BY <3>1 DEF EventKinds
  <2>2. CASE UNCHANGED <<tEvents, tPty>>
    BY <1>0, <1>11, <2>2 DEF Pump
  <2> QED BY <1>11, <2>1, <2>2 DEF Pump
<1>12. CASE ExitWatch
  <2>1. CASE send("exited", 0) /\ tExitSent' = TRUE
    <3>1. Queues("exited")
      BY <1>12, <2>1 DEF ExitWatch, Queues
    <3> QED BY <3>1 DEF EventKinds
  <2>2. CASE UNCHANGED <<tEvents, tExitSent>>
    BY <1>0, <1>12, <2>2 DEF ExitWatch
  <2> QED BY <1>12, <2>1, <2>2 DEF ExitWatch
<1>13. CASE SendClosed
  <2>1. Queues("closed")
    BY <1>13 DEF SendClosed, Queues
  <2> QED BY <2>1 DEF EventKinds
<1>14. CASE SessionRuns
  BY <1>14 DEF SessionRuns, KeepsQueue
<1> QED BY <1>1, <1>2, <1>3, <1>4, <1>5, <1>6, <1>7, <1>8, <1>9, <1>10, <1>11, <1>12, <1>13, <1>14 DEF TermNext

\* A step that leaves the queue alone: the session may still write, but not
\* once the pump has ended on its own.
LEMMA KeepsQueueKeeps ==
  ASSUME TermInv, TermTypes', KeepsQueue
  PROVE  NoOutputAfter' /\ ExitBefore' /\ AllCounted' /\ ClosedIsLast'
<1> USE DEF TermInv, KeepsQueue
<1>1. NoOutputAfter'
  BY DEF NoOutputAfter, EventAt
<1>2. ExitBefore'
  BY DEF ExitBefore, EventAt
<1>3. AllCounted'
  <2> SUFFICES ASSUME ~tLost' PROVE \E c \in [0 .. Len(tEvents) -> Nat] : Tally(c)'
    BY DEF AllCounted
  <2>1. PICK c \in [0 .. Len(tEvents) -> Nat] : Tally(c)
    BY DEF AllCounted
  <2>2. Len(tEvents) \in Nat /\ c[Len(tEvents)] \in Nat
    BY DEF TermTypes
  <2>3. c[Len(tEvents)] + tPty' = tShown'
    BY <2>1, <2>2 DEF Tally, TermTypes
  <2>4. Tally(c)'
    BY <2>1, <2>3 DEF Tally, EventAt
  <2> QED BY <2>4
<1>4. ClosedIsLast'
  <2>1. tHandle.quiescent /\ ~tHungUp' => UNCHANGED tShown
    BY DEF NoOutputAfter, PtyOver
  <2> QED BY <2>1 DEF ClosedIsLast
<1> QED BY <1>1, <1>2, <1>3, <1>4

\* A step that queues an event.
LEMMA QueuesKeeps ==
  ASSUME TermInv, NEW k \in EventKinds, Queues(k)
  PROVE  NoOutputAfter' /\ ExitBefore' /\ AllCounted' /\ ClosedIsLast'
<1> USE DEF TermInv, Queues
<1>m. PICK m : m = Len(tEvents)
  OBVIOUS
<1> USE DEF EventKinds
<1>1. /\ m \in Nat /\ Len(tEvents') = m + 1 /\ tEvents'[m + 1].kind = k
      /\ \A i \in 1 .. m : tEvents'[i] = tEvents[i]
  BY <1>m, EventsGrow
<1>2. \A i \in 1 .. m + 1 : i \in 1 .. m \/ i = m + 1
  BY <1>1
<1>3. \A i \in 1 .. m : i \in 1 .. m + 1
  BY <1>1
<1>4. \A i \in 1 .. m, x \in EventKinds : EventAt(i, x)' <=> EventAt(i, x)
  BY <1>m, <1>1, <1>3 DEF EventAt
<1>5. \A x \in EventKinds : EventAt(m + 1, x)' <=> k = x
  BY <1>1 DEF EventAt
<1>6. k = "output" => ~tShut
  BY DEF PtyOver
<1>7. NoOutputAfter'
  <2>1. ASSUME NEW i \in 1 .. m + 1, EventAt(i, "closed")'
        PROVE  tShut' /\ \A j \in i .. m + 1 : ~EventAt(j, "output")'
    <3>1. CASE i = m + 1
      <4>1. k = "closed" /\ \A j \in i .. m + 1 : j = m + 1
        BY <1>1, <1>5, <2>1, <3>1
      <4> QED BY <1>5, <4>1
    <3>2. CASE i \in 1 .. m
      <4>1. tShut /\ \A j \in i .. m : ~EventAt(j, "output")
        BY <1>m, <1>4, <2>1, <3>2 DEF NoOutputAfter
      <4>2. ASSUME NEW j \in i .. m + 1 PROVE ~EventAt(j, "output")'
        <5>1. (j \in i .. m /\ j \in 1 .. m) \/ j = m + 1
          BY <1>1, <3>2
        <5> QED BY <1>4, <1>5, <1>6, <4>1, <5>1
      <4> QED BY <4>1, <4>2
    <3> QED BY <1>2, <3>1, <3>2
  <2>2. ASSUME tHandle'.quiescent PROVE tShut' /\ \A i \in 1 .. m + 1 : ~EventAt(i, "output")'
    <3>1. tShut /\ \A i \in 1 .. m : ~EventAt(i, "output")
      BY <1>m, <2>2 DEF NoOutputAfter
    <3> QED BY <1>2, <1>4, <1>5, <1>6, <3>1
  <2> QED BY <1>1, <2>1, <2>2 DEF NoOutputAfter
<1>8. ExitBefore'
  <2> SUFFICES ASSUME ~tLost PROVE ExitBefore'
    BY DEF ExitBefore
  <2>1. ASSUME tExitSent' PROVE tHandle'.done = "exit" \/ \E j \in 1 .. m + 1 : EventAt(j, "exited")'
    <3>1. CASE k = "exited"
      <4>1. m + 1 \in 1 .. m + 1
        BY <1>1
      <4> QED BY <1>5, <3>1, <4>1
    <3>2. CASE k # "exited"
      BY <1>m, <1>3, <1>4, <2>1, <3>2 DEF ExitBefore
    <3> QED BY <3>1, <3>2
  <2>2. ASSUME NEW i \in 1 .. m + 1, EventAt(i, "closed")'
        PROVE  tHandle'.done = "exit" \/ \E j \in 1 .. i - 1 : EventAt(j, "exited")'
    <3>1. CASE i = m + 1
      <4>1. k = "closed"
        BY <1>5, <2>2, <3>1
      <4>2. tHandle.done = "exit" \/ \E j \in 1 .. m : EventAt(j, "exited")
        BY <1>m, <4>1 DEF ExitBefore
      <4>3. \A j \in 1 .. m : j \in 1 .. i - 1
        BY <1>1, <3>1
      <4> QED BY <1>4, <4>2, <4>3
    <3>2. CASE i \in 1 .. m
      <4>1. tHandle.done = "exit" \/ \E j \in 1 .. i - 1 : EventAt(j, "exited")
        BY <1>m, <1>4, <2>2, <3>2 DEF ExitBefore
      <4>2. \A j \in 1 .. i - 1 : j \in 1 .. m
        BY <1>1, <3>2
      <4> QED BY <1>4, <4>1, <4>2
    <3> QED BY <1>2, <3>1, <3>2
  <2> QED BY <1>1, <2>1, <2>2 DEF ExitBefore
<1>9. AllCounted'
  <2> SUFFICES ASSUME ~tLost PROVE \E c \in [0 .. m + 1 -> Nat] : Tally(c)'
    BY <1>1 DEF AllCounted
  <2>1. PICK c \in [0 .. m -> Nat] : Tally(c)
    BY <1>m DEF AllCounted
  <2>2. c[m] \in Nat /\ c[0] = tSeen /\ c[m] + tPty = tShown
    BY <1>m, <1>1, <2>1 DEF Tally
  <2> DEFINE one == IF k = "output" THEN 1 ELSE 0
             d == [i \in 0 .. m + 1 |-> IF i = m + 1 THEN c[m] + one ELSE c[i]]
  <2>3. d \in [0 .. m + 1 -> Nat]
    BY <1>1, <2>2
  <2>4. /\ d[m + 1] = c[m] + one /\ \A i \in 0 .. m : d[i] = c[i]
        /\ d[0] = c[0] /\ d[m] = c[m]
    BY <1>1
  <2>5. d[m + 1] + tPty' = tShown'
    BY <2>2, <2>4 DEF TermTypes
  <2>6. ASSUME NEW i \in 1 .. m + 1
        PROVE  d[i] = d[i - 1] + (IF tEvents'[i].kind = "output" THEN 1 ELSE 0)
    <3>1. CASE i = m + 1
      <4>1. i - 1 = m
        BY <1>1, <3>1
      <4> QED BY <1>1, <2>4, <3>1, <4>1
    <3>2. CASE i \in 1 .. m
      <4>1. i \in 0 .. m /\ i - 1 \in 0 .. m
        BY <1>1, <3>2
      <4>2. c[i] = c[i - 1] + (IF tEvents[i].kind = "output" THEN 1 ELSE 0)
        BY <1>m, <2>1, <3>2 DEF Tally
      <4> HIDE DEF d
      <4> QED BY <1>1, <2>4, <3>2, <4>1, <4>2
    <3> QED BY <1>2, <3>1, <3>2
  <2>7. ASSUME NEW i \in 1 .. m + 1, EventAt(i, "closed")' PROVE d[i] = d[m + 1]
    <3>1. CASE i \in 1 .. m
      <4>1. EventAt(i, "closed")
        BY <1>4, <2>7, <3>1
      <4>2. c[i] = c[m]
        BY <1>m, <2>1, <3>1, <4>1 DEF Tally
      <4>3. k # "output"
        BY <1>m, <1>6, <3>1, <4>1 DEF NoOutputAfter
      <4>4. i \in 0 .. m
        BY <3>1, <1>1
      <4> HIDE DEF d
      <4> QED BY <2>2, <2>4, <4>2, <4>3, <4>4
    <3> QED BY <1>2, <3>1
  <2> HIDE DEF d
  <2>8. Tally(d)'
    BY <1>1, <2>2, <2>4, <2>5, <2>6, <2>7 DEF Tally
  <2> QED BY <2>3, <2>8
<1>10. ClosedIsLast'
  BY DEF ClosedIsLast
<1> QED BY <1>7, <1>8, <1>9, <1>10

\* A step that delivers an event.
LEMMA DeliversKeeps ==
  ASSUME TermInv, Delivers
  PROVE  NoOutputAfter' /\ ExitBefore' /\ AllCounted' /\ ClosedIsLast'
<1> USE DEF TermInv
<1>m. PICK m : m = Len(tEvents')
  OBVIOUS
<1>k. PICK k : k = Head(tEvents).kind
  OBVIOUS
<1> USE DEF EventKinds
<1>0. UNCHANGED <<tLost, tExitSent, tShut, tHungUp, tPump, tPty, tShown>>
  BY DEF Delivers
<1>1. /\ m \in Nat /\ Len(tEvents) = m + 1 /\ k \in EventKinds /\ tEvents[1].kind = k
      /\ \A i \in 1 .. m : tEvents'[i] = tEvents[i + 1]
  BY <1>m, <1>k, EventsShrink DEF Delivers
<1>2. \A i \in 1 .. m : i + 1 \in 1 .. m + 1
  BY <1>1
<1>3. \A i \in 1 .. m, x \in EventKinds : EventAt(i, x)' <=> EventAt(i + 1, x)
  BY <1>m, <1>1, <1>2 DEF EventAt
<1>4. 1 \in 1 .. m + 1 /\ \A x \in EventKinds : EventAt(1, x) <=> k = x
  BY <1>1 DEF EventAt
<1>5. ~tLost => /\ tSeen' = IF k = "output" THEN tSeen + 1 ELSE tSeen
                /\ tHandle'.done = IF k = "exited" THEN "exit" ELSE tHandle.done
                /\ tHandle'.quiescent = IF k = "closed" THEN TRUE ELSE tHandle.quiescent
  BY <1>k DEF Delivers
<1>6. tLost => UNCHANGED <<tHandle, tSeen>>
  BY DEF Delivers
<1>7. NoOutputAfter'
  <2>1. ASSUME NEW i \in 1 .. m, EventAt(i, "closed")'
        PROVE  tShut' /\ \A j \in i .. m : ~EventAt(j, "output")'
    <3>1. tShut /\ \A j \in i + 1 .. m + 1 : ~EventAt(j, "output")
      BY <1>1, <1>2, <1>3, <2>1 DEF NoOutputAfter
    <3>2. ASSUME NEW j \in i .. m PROVE j \in 1 .. m /\ j + 1 \in i + 1 .. m + 1
      BY <1>1
    <3> QED BY <1>0, <1>3, <3>1, <3>2
  <2>2. ASSUME tHandle'.quiescent PROVE tShut' /\ \A i \in 1 .. m : ~EventAt(i, "output")'
    <3>1. CASE tHandle.quiescent
      BY <1>0, <1>1, <1>2, <1>3, <3>1 DEF NoOutputAfter
    <3>2. CASE ~tHandle.quiescent
      <4>1. k = "closed"
        BY <1>5, <1>6, <2>2, <3>2
      <4>2. tShut /\ \A j \in 1 .. m + 1 : ~EventAt(j, "output")
        BY <1>1, <1>4, <4>1 DEF NoOutputAfter
      <4> QED BY <1>0, <1>2, <1>3, <4>2
    <3> QED BY <3>1, <3>2
  <2> QED BY <1>m, <2>1, <2>2 DEF NoOutputAfter
<1>8. ExitBefore'
  <2> SUFFICES ASSUME ~tLost PROVE ExitBefore'
    BY <1>0 DEF ExitBefore
  <2>1. ASSUME NEW i \in 2 .. m + 1 PROVE i - 1 \in 1 .. m /\ (i - 1) + 1 = i
    BY <1>1
  <2>2. \A i \in 1 .. m + 1 : i = 1 \/ i \in 2 .. m + 1
    BY <1>1
  <2>3. ASSUME tExitSent' PROVE tHandle'.done = "exit" \/ \E j \in 1 .. m : EventAt(j, "exited")'
    <3>1. tHandle.done = "exit" \/ \E j \in 1 .. m + 1 : EventAt(j, "exited")
      BY <1>0, <1>1, <2>3 DEF ExitBefore
    <3>2. CASE tHandle.done = "exit" \/ k = "exited"
      BY <1>5, <3>2
    <3>3. CASE k # "exited" /\ \E j \in 1 .. m + 1 : EventAt(j, "exited")
      <4>1. PICK j \in 1 .. m + 1 : EventAt(j, "exited")
        BY <3>3
      <4>2. j - 1 \in 1 .. m /\ (j - 1) + 1 = j
        BY <1>4, <2>1, <2>2, <3>3, <4>1
      <4> QED BY <1>3, <4>1, <4>2
    <3> QED BY <3>1, <3>2, <3>3
  <2>4. ASSUME NEW i \in 1 .. m, EventAt(i, "closed")'
        PROVE  tHandle'.done = "exit" \/ \E j \in 1 .. i - 1 : EventAt(j, "exited")'
    <3>1. tHandle.done = "exit" \/ \E j \in 1 .. i : EventAt(j, "exited")
      <4>1. (i + 1) - 1 = i
        BY <1>1
      <4>2. EventAt(i + 1, "closed") /\ i + 1 \in 1 .. Len(tEvents)
        BY <1>1, <1>2, <1>3, <2>4
      <4>3. tHandle.done = "exit" \/ \E j \in 1 .. (i + 1) - 1 : EventAt(j, "exited")
        BY <4>2 DEF ExitBefore
      <4> QED BY <4>1, <4>3
    <3>2. CASE tHandle.done = "exit" \/ k = "exited"
      BY <1>5, <3>2
    <3>3. CASE k # "exited" /\ \E j \in 1 .. i : EventAt(j, "exited")
      <4>1. PICK j \in 1 .. i : EventAt(j, "exited")
        BY <3>3
      <4>2. j # 1
        BY <1>4, <3>3, <4>1
      <4>3. j - 1 \in 1 .. i - 1 /\ j - 1 \in 1 .. m /\ (j - 1) + 1 = j
        BY <1>1, <4>1, <4>2
      <4> QED BY <1>3, <4>1, <4>3
    <3> QED BY <3>1, <3>2, <3>3
  <2> QED BY <1>m, <2>3, <2>4 DEF ExitBefore
<1>9. AllCounted' /\ (~tLost => ClosedIsLast')
  <2> SUFFICES ASSUME ~tLost PROVE (\E c \in [0 .. m -> Nat] : Tally(c)') /\ ClosedIsLast'
    BY <1>m, <1>0 DEF AllCounted
  <2>1. PICK c \in [0 .. m + 1 -> Nat] : Tally(c)
    BY <1>1 DEF AllCounted
  <2>2. c[0] = tSeen /\ c[m + 1] + tPty = tShown /\ c[0] \in Nat /\ c[1] \in Nat /\ c[m + 1] \in Nat
    BY <1>1, <2>1 DEF Tally
  <2>3. c[1] = tSeen'
    <3>1. c[1] = c[1 - 1] + (IF tEvents[1].kind = "output" THEN 1 ELSE 0) /\ 1 - 1 = 0
      BY <1>1, <1>4, <2>1 DEF Tally
    <3> QED BY <1>1, <1>5, <2>2, <3>1
  <2> DEFINE d == [i \in 0 .. m |-> c[i + 1]]
  <2>4. d \in [0 .. m -> Nat] /\ d[0] = c[1] /\ d[m] = c[m + 1] /\ \A i \in 0 .. m : d[i] = c[i + 1]
    BY <1>1
  <2> HIDE DEF d
  <2>5. ASSUME NEW i \in 1 .. m
        PROVE  d[i] = d[i - 1] + (IF tEvents'[i].kind = "output" THEN 1 ELSE 0)
    <3>1. i \in 0 .. m /\ i - 1 \in 0 .. m /\ (i - 1) + 1 = i /\ (i + 1) - 1 = i
      BY <1>1
    <3>2. c[i + 1] = c[(i + 1) - 1] + (IF tEvents[i + 1].kind = "output" THEN 1 ELSE 0)
      BY <1>1, <1>2, <2>1 DEF Tally
    <3> QED BY <1>1, <2>4, <3>1, <3>2
  <2>6. ASSUME NEW i \in 1 .. m, EventAt(i, "closed")' PROVE d[i] = d[m]
    <3>1. c[i + 1] = c[m + 1]
      BY <1>1, <1>2, <1>3, <2>1, <2>6 DEF Tally
    <3> QED BY <1>1, <2>4, <3>1
  <2>7. Tally(d)'
    BY <1>m, <1>0, <2>2, <2>3, <2>4, <2>5, <2>6 DEF Tally
  <2>8. ClosedIsLast'
    <3> SUFFICES ASSUME tHandle'.quiescent PROVE tHandle'.done = "exit" /\ (~tHungUp => tSeen' = tShown)
      BY <1>0 DEF ClosedIsLast
    <3>1. CASE tHandle.quiescent
      <4>1. k # "output"
        BY <1>1, <1>4, <3>1 DEF NoOutputAfter
      <4> QED BY <1>5, <3>1, <4>1 DEF ClosedIsLast
    <3>2. CASE ~tHandle.quiescent
      <4>1. k = "closed"
        BY <1>5, <3>2
      <4>2. tShut /\ EventAt(1, "closed") /\ tPump = "end"
        BY <1>1, <1>4, <4>1 DEF NoOutputAfter, PtyOver
      <4>3. tHandle.done = "exit"
        <5>1. tHandle.done = "exit" \/ \E j \in 1 .. 1 - 1 : EventAt(j, "exited")
          BY <1>1, <1>4, <4>2 DEF ExitBefore
        <5>2. 1 .. 1 - 1 = {}
          OBVIOUS
        <5> QED BY <5>1, <5>2
      <4>4. c[1] = c[m + 1]
        BY <1>1, <1>4, <2>1, <4>2 DEF Tally
      <4>5. ~tHungUp => tPty = 0
        BY <4>2 DEF PtyOver
      <4> QED BY <1>5, <2>2, <2>3, <4>1, <4>3, <4>4, <4>5
    <3> QED BY <3>1, <3>2
  <2> QED BY <2>4, <2>7, <2>8
<1>10. tLost => ClosedIsLast'
  BY <1>0, <1>6 DEF ClosedIsLast
<1> QED BY <1>7, <1>8, <1>9, <1>10

\* Every step keeps the invariant.
LEMMA TermInvStep == TermInv /\ [TermNext]_termVars => TermInv'
<1> SUFFICES ASSUME TermInv, [TermNext]_termVars PROVE TermInv'
  OBVIOUS
<1>1. TermTypes' /\ PtyOver'
  BY TermTypesStep, PtyOverStep DEF TermInv
<1>2. Delivers \/ KeepsQueue \/ \E k \in EventKinds : Queues(k)
  BY QueueSteps DEF TermInv
<1>3. NoOutputAfter' /\ ExitBefore' /\ AllCounted' /\ ClosedIsLast'
  BY <1>1, <1>2, DeliversKeeps, KeepsQueueKeeps, QueuesKeeps
<1> QED BY <1>1, <1>3 DEF TermInv

\* A terminal that was not started has shown nothing.
LEMMA TermBegins == TermInit => TermInv
<1> SUFFICES ASSUME TermInit PROVE TermInv
  OBVIOUS
<1>1. TermTypes
  BY DEF TermInit, TermTypes, Req, ReqKinds
<1>2. PtyOver /\ ClosedIsLast
  BY DEF TermInit, PtyOver, ClosedIsLast
<1>3. Len(tEvents) = 0 /\ 1 .. 0 = {}
  BY DEF TermInit
<1>4. NoOutputAfter /\ ExitBefore
  BY <1>3 DEF TermInit, NoOutputAfter, ExitBefore
<1>5. AllCounted
  <2> DEFINE c == [i \in 0 .. 0 |-> 0]
  <2>1. c \in [0 .. Len(tEvents) -> Nat] /\ c[0] = 0
    BY <1>3
  <2> HIDE DEF c
  <2>2. Tally(c)
    BY <1>3, <2>1 DEF Tally, TermInit
  <2> QED BY <2>1, <2>2 DEF AllCounted
<1> QED BY <1>1, <1>2, <1>4, <1>5 DEF TermInv

\* For any number of inputs, outputs and queries and any channel: a terminal
\* whose handle was told that it is quiescent has its exit status and, unless a
\* terminate closed the PTY's master, all that was shown on it.
THEOREM ClosedIsLastHolds == TermSpec => []ClosedIsLast
<1>1. TermInv => ClosedIsLast
  BY DEF TermInv
<1> QED BY <1>1, TermBegins, TermInvStep, PTL DEF TermSpec

\* A step leaves a queue alone, takes its head, or adds something not of the
\* kind k: what is of that kind was there before, in some other place.
Thins(q, r, k) ==
  \/ r = q
  \/ q # <<>> /\ r = Tail(q)
  \/ \E e : e.kind # k /\ r = Append(q, e)
Moved(q, r, k, f) ==
  /\ \A i \in 1 .. Len(r) : r[i].kind = k => f[i] \in 1 .. Len(q) /\ r[i] = q[f[i]]
  /\ \A i, j \in 1 .. Len(r) : f[i] = f[j] => i = j

\* The elements of a kind in a queue that thins were in it before, each in a
\* place of its own.
LEMMA ThinsFrom ==
  ASSUME NEW S, NEW q \in Seq(S), NEW r, NEW k, Thins(q, r, k)
  PROVE  \E f \in [Nat -> Nat] : Moved(q, r, k, f)
<1>0. Len(q) \in Nat
  OBVIOUS
<1>1. CASE q # <<>> /\ r = Tail(q)
  <2> DEFINE f == [i \in Nat |-> i + 1]
  <2>1. f \in [Nat -> Nat] /\ \A i \in Nat : f[i] = i + 1
    OBVIOUS
  <2>2. Len(r) \in Nat /\ \A i \in 1 .. Len(r) : r[i] = q[i + 1] /\ i + 1 \in 1 .. Len(q)
    BY <1>1, QueueTail
  <2> HIDE DEF f
  <2>3. \A i, j \in 1 .. Len(r) : f[i] = f[j] => i = j
    BY <2>1, <2>2
  <2>4. ASSUME NEW i \in 1 .. Len(r), r[i].kind = k PROVE f[i] \in 1 .. Len(q) /\ r[i] = q[f[i]]
    <3>1. f[i] = i + 1 /\ i + 1 \in 1 .. Len(q) /\ r[i] = q[i + 1]
      BY <2>1, <2>2
    <3> QED BY <3>1
  <2>5. Moved(q, r, k, f)
    BY <2>3, <2>4 DEF Moved
  <2> QED BY <2>1, <2>5
<1>2. CASE r = q \/ \E e : e.kind # k /\ r = Append(q, e)
  <2> DEFINE f == [i \in Nat |-> i]
  <2>1. f \in [Nat -> Nat] /\ \A i \in Nat : f[i] = i
    OBVIOUS
  <2> HIDE DEF f
  <2>2. Len(r) \in Nat /\ \A i \in 1 .. Len(r) : r[i].kind = k => i \in 1 .. Len(q) /\ r[i] = q[i]
    <3>1. CASE r = q
      BY <1>0, <3>1
    <3>2. ASSUME NEW e, e.kind # k, r = Append(q, e)
          PROVE  Len(r) \in Nat /\ \A i \in 1 .. Len(r) : r[i].kind = k => i \in 1 .. Len(q) /\ r[i] = q[i]
      <4>1. Len(r) = Len(q) + 1 /\ r[Len(q) + 1] = e /\ \A i \in 1 .. Len(q) : r[i] = q[i]
        <5>1. q \in Seq(S \cup {e}) /\ e \in S \cup {e}
          OBVIOUS
        <5> QED BY <3>2, <5>1
      <4>2. \A i \in 1 .. Len(r) : i \in 1 .. Len(q) \/ i = Len(q) + 1
        BY <1>0, <4>1
      <4> QED BY <1>0, <3>2, <4>1, <4>2
    <3> QED BY <1>2, <3>1, <3>2
  <2>3. \A i, j \in 1 .. Len(r) : f[i] = f[j] => i = j
    BY <2>1, <2>2
  <2>4. ASSUME NEW i \in 1 .. Len(r), r[i].kind = k PROVE f[i] \in 1 .. Len(q) /\ r[i] = q[f[i]]
    <3>1. f[i] = i /\ i \in 1 .. Len(q) /\ r[i] = q[i]
      BY <2>1, <2>2, <2>4
    <3> QED BY <3>1
  <2>5. Moved(q, r, k, f)
    BY <2>3, <2>4 DEF Moved
  <2> QED BY <2>1, <2>5
<1> QED BY <1>1, <1>2 DEF Thins

\* A step that moves requests and events on, without a new query or answer,
\* keeps one query under way.
LEMMA OneAskKeeps ==
  ASSUME TermTypes, OneAsk, tAsk' = tAsk \/ (tAsk' = 0 /\ tHandle'.closed), tHandle.closed => tHandle'.closed,
         Thins(tReqs, tReqs', "ask"), Thins(tEvents, tEvents', "answer")
  PROVE  OneAsk'
<1>0. tReqs \in Seq([kind : ReqKinds, n : Nat]) /\ tEvents \in Seq([kind : EventKinds, n : Nat])
  BY DEF TermTypes
<1>1. PICK f \in [Nat -> Nat] : Moved(tReqs, tReqs', "ask", f)
  BY <1>0, ThinsFrom
<1>2. PICK g \in [Nat -> Nat] : Moved(tEvents, tEvents', "answer", g)
  BY <1>0, ThinsFrom
<1>3. ASSUME NEW i \in 1 .. Len(tReqs'), AskAt(i)'
      PROVE  f[i] \in 1 .. Len(tReqs) /\ AskAt(f[i]) /\ tReqs'[i].n = tReqs[f[i]].n
  BY <1>1, <1>3 DEF AskAt, Moved
<1>4. ASSUME NEW i \in 1 .. Len(tEvents'), EventAt(i, "answer")'
      PROVE  g[i] \in 1 .. Len(tEvents) /\ EventAt(g[i], "answer") /\ tEvents'[i].n = tEvents[g[i]].n
  BY <1>2, <1>4 DEF EventAt, Moved
<1>5. CASE tAsk' = 0 /\ tHandle'.closed
  BY <1>5 DEF OneAsk
<1>6. CASE tAsk' = tAsk /\ tAsk = 0 /\ ~tHandle'.closed
  BY <1>3, <1>4, <1>6 DEF OneAsk
<1>7. CASE tAsk' = tAsk /\ tAsk # 0
  <2>1. ASSUME NEW i \in 1 .. Len(tReqs'), AskAt(i)' PROVE tReqs'[i].n = tAsk'
    BY <1>3, <1>7, <2>1 DEF OneAsk
  <2>2. ASSUME NEW i \in 1 .. Len(tEvents'), EventAt(i, "answer")' PROVE tEvents'[i].n = tAsk'
    BY <1>4, <1>7, <2>2 DEF OneAsk
  <2>3. ASSUME NEW i \in 1 .. Len(tReqs'), NEW j \in 1 .. Len(tReqs'), AskAt(i)', AskAt(j)' PROVE i = j
    <3>1. f[i] = f[j]
      BY <1>3, <1>7, <2>3 DEF OneAsk
    <3> QED BY <1>1, <3>1 DEF Moved
  <2>4. ASSUME NEW i \in 1 .. Len(tEvents'), NEW j \in 1 .. Len(tEvents'),
               EventAt(i, "answer")', EventAt(j, "answer")'
        PROVE  i = j
    <3>1. g[i] = g[j]
      BY <1>4, <1>7, <2>4 DEF OneAsk
    <3> QED BY <1>2, <3>1 DEF Moved
  <2>5. ASSUME NEW i \in 1 .. Len(tReqs'), NEW j \in 1 .. Len(tEvents') PROVE ~(AskAt(i)' /\ EventAt(j, "answer")')
    BY <1>3, <1>4, <1>7, <2>5 DEF OneAsk
  <2> QED BY <1>7, <2>1, <2>2, <2>3, <2>4, <2>5 DEF OneAsk
<1> QED BY <1>5, <1>6, <1>7

\* Every step keeps one query under way and its answer its own.
LEMMA AskInvStep == AskInv /\ [TermNext]_termVars => AskInv'
<1> SUFFICES ASSUME AskInv, [TermNext]_termVars PROVE OneAsk' /\ tPaired'
  BY TermTypesStep DEF AskInv
<1> USE DEF AskInv, handleVars, tStreamVars, tRunVars, ptyVars
<1>0. ASSUME UNCHANGED <<tReqs, tEvents, tAsk, tHandle, tPaired>> PROVE OneAsk' /\ tPaired'
  BY <1>0, OneAskKeeps DEF Thins
<1>1. CASE UNCHANGED termVars
  BY <1>0, <1>1 DEF termVars
<1>2. CASE Ask
  <2>1. tAsk = 0 /\ ~tHandle.closed /\ tAsked + 1 \in Nat /\ tAsk' = tAsked + 1 /\ tAsk' # 0
          /\ tReqs' = Append(tReqs, Req("ask", tAsked + 1)) /\ UNCHANGED <<tEvents, tPaired>>
    BY <1>2 DEF Ask, ask, TermTypes
  <2>2. /\ Len(tReqs) \in Nat /\ Len(tReqs') = Len(tReqs) + 1
        /\ \A i \in 1 .. Len(tReqs) : tReqs'[i] = tReqs[i]
        /\ tReqs'[Len(tReqs) + 1].n = tAsk'
    BY <2>1, ReqsGrow DEF ReqKinds
  <2>3. /\ \A i \in 1 .. Len(tReqs) : ~AskAt(i)
        /\ \A i \in 1 .. Len(tEvents) : ~EventAt(i, "answer")
    BY <2>1 DEF OneAsk
  <2>4. ASSUME NEW i \in 1 .. Len(tReqs'), AskAt(i)' PROVE i = Len(tReqs) + 1
    <3>1. i \in 1 .. Len(tReqs) \/ i = Len(tReqs) + 1
      BY <2>2
    <3> QED BY <2>2, <2>3, <2>4, <3>1 DEF AskAt
  <2>5. \A i \in 1 .. Len(tEvents') : ~EventAt(i, "answer")'
    BY <2>1, <2>3 DEF EventAt
  <2> QED BY <2>1, <2>2, <2>4, <2>5 DEF OneAsk
<1>3. CASE Type
  <2>1. Req("input", 0).kind # "ask"
    BY DEF Req
  <2>2. Thins(tReqs, tReqs', "ask") /\ Thins(tEvents, tEvents', "answer")
    BY <1>3, <2>1 DEF Type, Thins
  <2> QED BY <1>3, <2>2, OneAskKeeps DEF Type
<1>4. CASE terminate \/ StreamEnds \/ TunnelBreaks
  <2>1. UNCHANGED <<tReqs, tEvents, tPaired>>
    BY <1>4 DEF terminate, StreamEnds, TunnelBreaks, fail
  <2>2. (tAsk' = tAsk \/ (tAsk' = 0 /\ tHandle'.closed)) /\ (tHandle.closed => tHandle'.closed)
    BY <1>4 DEF terminate, StreamEnds, TunnelBreaks, fail, TermTypes
  <2> QED BY <2>1, <2>2, OneAskKeeps DEF Thins
<1>5. CASE Consume
  <2> DEFINE e == Head(tEvents)
  <2>0. tEvents # <<>> /\ tEvents' = Tail(tEvents) /\ UNCHANGED tReqs /\ e.kind \in EventKinds
    BY <1>5, EventsShrink DEF Consume
  <2>1. Thins(tReqs, tReqs', "ask") /\ Thins(tEvents, tEvents', "answer")
    BY <2>0 DEF Thins
  <2>2. CASE UNCHANGED <<tAsk, tPaired>> /\ (tHandle.closed => tHandle'.closed)
    BY <2>1, <2>2, OneAskKeeps
  <2>3. CASE ~tLost /\ e.kind = "answer"
    <3>1. tPaired' = (tPaired /\ tAsk \in {0, e.n}) /\ tAsk' = 0 /\ UNCHANGED tHandle
      BY <1>5, <2>3 DEF Consume
    <3>2. /\ Len(tEvents) \in Nat /\ Len(tEvents') + 1 = Len(tEvents) /\ e = tEvents[1] /\ 1 \in 1 .. Len(tEvents)
          /\ \A i \in 1 .. Len(tEvents') : tEvents'[i] = tEvents[i + 1] /\ i + 1 \in 1 .. Len(tEvents) /\ i + 1 # 1
      BY <2>0, EventsShrink
    <3>3. EventAt(1, "answer")
      BY <2>3, <3>2 DEF EventAt
    <3>4. tAsk \in {0, e.n}
      BY <3>2, <3>3 DEF OneAsk
    <3>5. ASSUME ~tHandle.closed
          PROVE  /\ \A i \in 1 .. Len(tReqs') : ~AskAt(i)'
                 /\ \A i \in 1 .. Len(tEvents') : ~EventAt(i, "answer")'
      <4>1. tAsk # 0
        BY <3>2, <3>3, <3>5 DEF OneAsk
      <4>2. ASSUME NEW i \in 1 .. Len(tReqs') PROVE ~AskAt(i)'
        BY <2>0, <3>2, <3>3, <4>1 DEF OneAsk, AskAt
      <4>3. ASSUME NEW i \in 1 .. Len(tEvents'), EventAt(i, "answer")' PROVE FALSE
        <5>1. EventAt(i + 1, "answer") /\ i + 1 # 1 /\ i + 1 \in 1 .. Len(tEvents)
          BY <3>2, <4>3 DEF EventAt
        <5> QED BY <3>2, <3>3, <4>1, <5>1 DEF OneAsk
      <4> QED BY <4>2, <4>3
    <3> QED BY <3>1, <3>4, <3>5 DEF OneAsk
  <2>4. CASE ~tLost /\ e.kind # "answer"
    <3>1. CASE e.kind = "started"
      BY <1>5, <2>2, <2>4, <3>1 DEF Consume, TermTypes
    <3>2. CASE e.kind = "output"
      BY <1>5, <2>2, <2>4, <3>2 DEF Consume
    <3>3. CASE e.kind = "exited"
      BY <1>5, <2>2, <2>4, <3>3 DEF Consume, TermTypes
    <3>4. CASE e.kind = "closed"
      BY <1>5, <2>2, <2>4, <3>4 DEF Consume, TermTypes
    <3> QED BY <2>0, <2>4, <3>1, <3>2, <3>3, <3>4 DEF EventKinds
  <2>5. CASE tLost
    BY <1>5, <2>2, <2>5 DEF Consume
  <2> QED BY <2>3, <2>4, <2>5
<1>6. CASE TerminalStart
  <2>1. Req("started", 0).kind # "answer"
    BY DEF Req
  <2>2. Thins(tReqs, tReqs', "ask") /\ Thins(tEvents, tEvents', "answer")
    BY <1>6, <2>1 DEF TerminalStart, Thins, send
  <2> QED BY <1>6, <2>2, OneAskKeeps DEF TerminalStart
<1>7. CASE Control
  <2>0. tReqs # <<>> /\ tReqs' = Tail(tReqs) /\ UNCHANGED <<tAsk, tHandle, tPaired>>
    BY <1>7 DEF Control
  <2>1. CASE UNCHANGED tEvents
    BY <2>0, <2>1, OneAskKeeps DEF Thins
  <2>2. CASE Head(tReqs).kind = "ask" /\ send("answer", Head(tReqs).n)
    <3>1. /\ Len(tReqs) \in Nat /\ Head(tReqs) = tReqs[1] /\ 1 \in 1 .. Len(tReqs) /\ Head(tReqs).n \in Nat
          /\ \A i \in 1 .. Len(tReqs') : tReqs'[i] = tReqs[i + 1] /\ i + 1 \in 1 .. Len(tReqs) /\ i + 1 # 1
      BY <2>0, ReqsShrink
    <3>2. /\ Len(tEvents) \in Nat /\ Len(tEvents') = Len(tEvents) + 1
          /\ \A i \in 1 .. Len(tEvents) : tEvents'[i] = tEvents[i]
          /\ tEvents'[Len(tEvents) + 1].n = Head(tReqs).n
      BY <2>2, <3>1, EventsGrow DEF EventKinds
    <3>3. AskAt(1)
      BY <2>2, <3>1 DEF AskAt
    <3>4. CASE tAsk = 0
      BY <2>0, <3>1, <3>3, <3>4 DEF OneAsk
    <3>5. CASE tAsk # 0
      <4>1. Head(tReqs).n = tAsk /\ \A i \in 1 .. Len(tReqs) : AskAt(i) => i = 1
        BY <3>1, <3>3, <3>5 DEF OneAsk
      <4>2. \A i \in 1 .. Len(tEvents) : ~EventAt(i, "answer")
        BY <3>1, <3>3, <3>5 DEF OneAsk
      <4>3. \A i \in 1 .. Len(tReqs') : ~AskAt(i)'
        BY <3>1, <4>1 DEF AskAt
      <4>4. ASSUME NEW i \in 1 .. Len(tEvents'), EventAt(i, "answer")' PROVE i = Len(tEvents) + 1
        <5>1. i \in 1 .. Len(tEvents) \/ i = Len(tEvents) + 1
          BY <3>2
        <5> QED BY <3>2, <4>2, <4>4, <5>1 DEF EventAt
      <4> QED BY <2>0, <3>2, <3>5, <4>1, <4>3, <4>4 DEF OneAsk
    <3> QED BY <2>0, <3>4, <3>5
  <2> QED BY <1>7, <2>1, <2>2 DEF Control, answer
<1>8. CASE WriteInput \/ ControlsDone \/ Ladder \/ Return \/ ReadInput \/ SessionRuns
  BY <1>0, <1>8 DEF WriteInput, ControlsDone, Ladder, Return, ReadInput, SessionRuns
<1>9. CASE Pump \/ ExitWatch \/ SendClosed
  <2>1. Req("output", 0).kind # "answer" /\ Req("exited", 0).kind # "answer" /\ Req("closed", 0).kind # "answer"
    BY DEF Req
  <2>2. UNCHANGED <<tReqs, tAsk, tHandle, tPaired>>
    BY <1>9 DEF Pump, ExitWatch, SendClosed
  <2>3. Thins(tReqs, tReqs', "ask") /\ Thins(tEvents, tEvents', "answer")
    BY <1>9, <2>1, <2>2 DEF Pump, ExitWatch, SendClosed, Thins, send
  <2> QED BY <2>2, <2>3, OneAskKeeps
<1> QED BY <1>1, <1>2, <1>3, <1>4, <1>5, <1>6, <1>7, <1>8, <1>9 DEF TermNext

\* For any number of queries, an answer settles the query it was made for: the
\* control loop answers in order, and the handle asks one at a time.
THEOREM AnswersPaired == TermSpec => []tPaired
<1>1. TermInit => AskInv
  <2> SUFFICES ASSUME TermInit PROVE OneAsk /\ tPaired
    BY TermBegins DEF TermInv, AskInv
  <2>1. Len(tEvents) = 0 /\ 1 .. 0 = {} /\ Len(tReqs) = 1 /\ tReqs[1].kind = "start" /\ \A i \in 1 .. 1 : i = 1
    BY DEF TermInit, Req
  <2> QED BY <2>1 DEF TermInit, OneAsk, AskAt
<1>2. AskInv => tPaired
  BY DEF AskInv
<1> QED BY <1>1, <1>2, AskInvStep, PTL DEF TermSpec

-----------------------------------------------------------------------------
(***************************************************************************)
(* ExecCall, for any amount of output and any buffer.                      *)
(***************************************************************************)

Responses == [event : {"started", "output", "exit", "signal", "end", "error"}, chunk : Nat]

ExecTypes ==
  /\ call \in [st : {"prep", "running", "settled"}, code : {"none", "exit", "signal", "aborted"},
               note : {"ok", "rejected", "expired", "failed"}]
  /\ tail \in [text : Seq(Nat), written : Nat, dropped : BOOLEAN]
  /\ drain \in [at : Nat, heard : Seq(Nat), lossy : BOOLEAN]
  /\ got \in Seq(Nat) /\ wire \in Seq(Responses) /\ chunks \in Seq(Nat) /\ pipe \in Seq(Nat)
  /\ wrote \in Nat
  /\ hand \in {"idle", "start", "loop", "drain", "returned"}
  /\ waiter \in {"idle", "wait", "grace", "done"} /\ copier \in {"idle", "run", "end"}
  /\ cmd \in {"none", "running", "exited", "killed"}

\* Where the call, the handler and its goroutines stand agree with each other:
\* nothing happens before the command starts, and an output that was dropped
\* or cut off goes with a cancelled or a reaped command.
ExecStands ==
  /\ lost => ctxDone
  /\ ctxDone => execDone
  /\ execDone => ctxDone \/ hand = "returned"
  /\ call.st = "prep" => hand = "idle"
  /\ hand \in {"idle", "start"} =>
       /\ got = <<>> /\ chunks = <<>> /\ pipe = <<>> /\ wrote = 0 /\ ~cut
       /\ cmd = "none" /\ child = "none" /\ waiter = "idle" /\ copier = "idle"
       /\ ~lost => wire = <<>>
       /\ \A i \in 1 .. Len(wire) : wire[i].event = "error"
  /\ hand = "loop" => copier # "idle"
  /\ waiter \in {"grace", "done"} => cmd \in Ended
  /\ waiter = "done" => copier = "end"
  /\ cut => waiter \in {"grace", "done"}
  /\ copier = "end" /\ ~execDone => pipe = <<>> /\ (cut \/ ~holders)

\* c[i] chunks are delivered once the i-th response is.
Numbered(w, g, c) ==
  /\ c \in [0 .. Len(w) -> Nat] /\ c[0] = g
  /\ \A i \in 1 .. Len(w) :
       /\ c[i] = c[i - 1] + (IF w[i].event = "output" THEN 1 ELSE 0)
       /\ w[i].event = "output" => w[i].chunk = c[i]

\* The command exited, the copy is over, and n chunks are all of its output.
AllOut(n) ==
  /\ hand = "returned" /\ waiter = "done" /\ cmd = "exited"
  /\ n <= wrote /\ (~cut => n = wrote)

\* An exit status on its way is behind all of the output.
ExitLast(c) ==
  \A i \in 1 .. Len(wire) : wire[i].event = "exit" =>
    AllOut(c[i]) /\ \A j \in i .. Len(wire) : wire[j].event # "output"

\* What follows the n chunks handed to the stream is in the channel and in the
\* pipe, up to what the command has written.
Following(n) ==
  /\ CountsFrom(chunks, n + 1) /\ n + Len(chunks) <= wrote
  /\ copier = "run" => /\ CountsFrom(pipe, n + Len(chunks) + 1)
                       /\ n + Len(chunks) + Len(pipe) <= wrote
                       /\ ~cut => n + Len(chunks) + Len(pipe) = wrote
  /\ copier = "end" /\ ~cut /\ ~execDone => n + Len(chunks) = wrote

\* So it is while the handler sends.
FollowsOn(n) == ~lost /\ hand = "loop" => Following(n)

\* No output is on its way.
NoOutputLeft == \A j \in 1 .. Len(wire) : wire[j].event # "output"

\* The caller has the first chunks, the stream the next ones, and the exit
\* status is behind them all.
OutputInOrder ==
  /\ CountsFrom(got, 1)
  /\ \E c \in [0 .. Len(wire) -> Nat] :
       /\ Numbered(wire, Len(got), c)
       /\ ExitLast(c)
       /\ FollowsOn(c[Len(wire)])
  /\ call.code = "exit" => AllOut(Len(got)) /\ NoOutputLeft

\* TailBuffer keeps the last chunks, and its cursor is not ahead of them.
TailKept ==
  /\ tail.written = Len(got) /\ Len(tail.text) <= tail.written
  /\ CountsFrom(tail.text, tail.written - Len(tail.text) + 1)
  /\ drain.at <= tail.written
  /\ ~drain.lossy => Len(drain.heard) = drain.at /\ CountsFrom(drain.heard, 1)

\* The two properties of the output are about the caller's end; the invariant
\* follows the chunks from the pipe to it.
ExecInv == ExecTypes /\ ExecStands /\ OutputInOrder /\ TailKept

\* A response that is sent, taken, or lost with those behind it, leaves the
\* numbers of the others alone.
LEMMA NumberedAppend ==
  ASSUME NEW w \in Seq(Responses), NEW g \in Nat, NEW c, Numbered(w, g, c), NEW e \in Responses,
         e.event = "output" => e.chunk = c[Len(w)] + 1
  PROVE  \E d : /\ Numbered(Append(w, e), g, d)
                /\ d[Len(w) + 1] = c[Len(w)] + (IF e.event = "output" THEN 1 ELSE 0)
                /\ \A i \in 0 .. Len(w) : d[i] = c[i]
<1> DEFINE m == Len(w)
           r == Append(w, e)
           one == IF e.event = "output" THEN 1 ELSE 0
           d == [i \in 0 .. m + 1 |-> IF i = m + 1 THEN c[m] + one ELSE c[i]]
<1>1. m \in Nat /\ Len(r) = m + 1 /\ r[m + 1] = e /\ \A i \in 1 .. m : r[i] = w[i]
  OBVIOUS
<1>2. c \in [0 .. m -> Nat] /\ c[0] = g /\ c[m] \in Nat /\ one \in Nat /\ c[m] + one \in Nat
  BY <1>1 DEF Numbered
<1>3. d \in [0 .. m + 1 -> Nat] /\ d[0] = g /\ d[m + 1] = c[m] + one /\ \A i \in 0 .. m : d[i] = c[i]
  BY <1>1, <1>2
<1>4. ASSUME NEW i \in 1 .. m + 1
      PROVE  /\ d[i] = d[i - 1] + (IF r[i].event = "output" THEN 1 ELSE 0)
             /\ r[i].event = "output" => r[i].chunk = d[i]
  <2> HIDE DEF d, r
  <2>1. CASE i = m + 1
    <3>1. i - 1 = m /\ i - 1 \in 0 .. m
      BY <1>1, <2>1
    <3> QED BY <1>1, <1>3, <2>1, <3>1
  <2>2. CASE i # m + 1
    <3>1. i \in 1 .. m /\ i \in 0 .. m /\ i - 1 \in 0 .. m
      BY <1>1, <2>2
    <3>2. c[i] = c[i - 1] + (IF w[i].event = "output" THEN 1 ELSE 0) /\ (w[i].event = "output" => w[i].chunk = c[i])
      BY <3>1 DEF Numbered
    <3> QED BY <1>1, <1>3, <3>1, <3>2
  <2> QED BY <2>1, <2>2
<1> HIDE DEF d, r
<1>5. Numbered(r, g, d)
  BY <1>1, <1>3, <1>4 DEF Numbered
<1>6. /\ Numbered(Append(w, e), g, d)
      /\ d[Len(w) + 1] = c[Len(w)] + (IF e.event = "output" THEN 1 ELSE 0)
      /\ \A i \in 0 .. Len(w) : d[i] = c[i]
  BY <1>3, <1>5 DEF r
<1> QED BY <1>6

\* d numbers what is left of w, when c numbers w.
TailNumbers(w, c, d) ==
  Numbered(Tail(w), c[1], d) /\ \A i \in 0 .. Len(Tail(w)) : d[i] = c[i + 1]

\* The first response has the next number, and the rest keep theirs.
LEMMA NumberedTail ==
  ASSUME NEW w \in Seq(Responses), NEW g \in Nat, NEW c, Numbered(w, g, c), w # <<>>
  PROVE  /\ c[1] = g + (IF Head(w).event = "output" THEN 1 ELSE 0)
         /\ Head(w).event = "output" => Head(w).chunk = g + 1
         /\ \E d : TailNumbers(w, c, d)
<1> DEFINE r == Tail(w)
           m == Len(r)
           d == [i \in 0 .. m |-> c[i + 1]]
<1>1. /\ m \in Nat /\ Len(w) = m + 1 /\ Head(w) = w[1] /\ 1 \in 1 .. Len(w)
      /\ \A i \in 1 .. m : r[i] = w[i + 1] /\ i + 1 \in 1 .. Len(w)
  BY QueueTail
<1> HIDE DEF r, m
<1>2. c \in [0 .. m + 1 -> Nat] /\ c[0] = g
  BY <1>1 DEF Numbered
<1>3. c[1] = g + (IF Head(w).event = "output" THEN 1 ELSE 0) /\ (Head(w).event = "output" => Head(w).chunk = g + 1)
  <2>1. c[1] = c[1 - 1] + (IF w[1].event = "output" THEN 1 ELSE 0) /\ (w[1].event = "output" => w[1].chunk = c[1])
    BY <1>1 DEF Numbered
  <2>2. 1 - 1 = 0
    OBVIOUS
  <2> QED BY <1>1, <1>2, <2>1, <2>2
<1>4. d \in [0 .. m -> Nat] /\ d[0] = c[1] /\ \A i \in 0 .. m : d[i] = c[i + 1]
  BY <1>1, <1>2
<1> HIDE DEF d
<1>5. ASSUME NEW i \in 1 .. m
      PROVE  /\ d[i] = d[i - 1] + (IF r[i].event = "output" THEN 1 ELSE 0)
             /\ r[i].event = "output" => r[i].chunk = d[i]
  <2>1. i \in 0 .. m /\ i - 1 \in 0 .. m /\ (i - 1) + 1 = i /\ (i + 1) - 1 = i
    BY <1>1
  <2>2. /\ c[i + 1] = c[(i + 1) - 1] + (IF w[i + 1].event = "output" THEN 1 ELSE 0)
        /\ w[i + 1].event = "output" => w[i + 1].chunk = c[i + 1]
    BY <1>1 DEF Numbered
  <2> QED BY <1>1, <1>4, <2>1, <2>2
<1>6. Numbered(r, c[1], d)
  BY <1>4, <1>5 DEF Numbered, m
<1>7. TailNumbers(w, c, d)
  BY <1>4, <1>6 DEF r, m, TailNumbers
<1> QED BY <1>3, <1>7

\* The responses before a break keep their numbers.
LEMMA NumberedPrefix ==
  ASSUME NEW w \in Seq(Responses), NEW g \in Nat, NEW c, Numbered(w, g, c), NEW k \in 0 .. Len(w)
  PROVE  /\ SubSeq(w, 1, k) \in Seq(Responses) /\ Len(SubSeq(w, 1, k)) = k
         /\ \A i \in 1 .. k : SubSeq(w, 1, k)[i] = w[i] /\ i \in 1 .. Len(w)
         /\ \E d : Numbered(SubSeq(w, 1, k), g, d) /\ \A i \in 0 .. k : d[i] = c[i]
<1> DEFINE r == SubSeq(w, 1, k)
           d == [i \in 0 .. k |-> c[i]]
<1>1. k \in Nat /\ Len(w) \in Nat /\ r \in Seq(Responses) /\ Len(r) = k
        /\ \A i \in 1 .. k : r[i] = w[i] /\ i \in 1 .. Len(w)
  OBVIOUS
<1> HIDE DEF r
<1>2. c \in [0 .. Len(w) -> Nat] /\ c[0] = g /\ \A i \in 0 .. k : i \in 0 .. Len(w)
  BY <1>1 DEF Numbered
<1>3. d \in [0 .. k -> Nat] /\ d[0] = g /\ \A i \in 0 .. k : d[i] = c[i]
  BY <1>1, <1>2
<1> HIDE DEF d
<1>4. ASSUME NEW i \in 1 .. k
      PROVE  /\ d[i] = d[i - 1] + (IF r[i].event = "output" THEN 1 ELSE 0)
             /\ r[i].event = "output" => r[i].chunk = d[i]
  <2>1. i \in 0 .. k /\ i - 1 \in 0 .. k
    BY <1>1
  <2>2. c[i] = c[i - 1] + (IF w[i].event = "output" THEN 1 ELSE 0) /\ (w[i].event = "output" => w[i].chunk = c[i])
    BY <1>1 DEF Numbered
  <2> QED BY <1>1, <1>3, <2>1, <2>2
<1>5. Numbered(r, g, d)
  BY <1>1, <1>3, <1>4 DEF Numbered
<1> QED BY <1>1, <1>3, <1>5 DEF r

\* The events the handler makes are responses.
LEMMA EventTypes ==
  /\ \A e \in {"started", "exit", "signal", "end", "error"} :
       Event(e) \in Responses /\ Event(e).event = e
  /\ \A k \in Nat : Output(k) \in Responses /\ Output(k).event = "output" /\ Output(k).chunk = k
  BY DEF Event, Output, Responses

\* What put does: nothing to a lost stream.
LEMMA PutOne ==
  ASSUME ExecTypes, NEW e \in Responses, put(<<e>>)
  PROVE  wire' = IF lost THEN wire ELSE Append(wire, e)
<1>1. wire \o <<e>> = Append(wire, e)
  BY DEF ExecTypes
<1> QED BY <1>1 DEF put

\* Two responses are sent one after the other.
LEMMA PutTwo ==
  ASSUME ExecTypes, NEW e \in Responses, NEW f \in Responses, put(<<e, f>>)
  PROVE  wire' = IF lost THEN wire ELSE Append(Append(wire, e), f)
<1>1. wire \o <<e, f>> = Append(Append(wire, e), f)
  BY DEF ExecTypes
<1> QED BY <1>1 DEF put

\* What is on its way are responses.
LEMMA PutTypes ==
  ASSUME ExecTypes, NEW e \in Responses, NEW f \in Responses, put(<<e>>) \/ put(<<e, f>>)
  PROVE  wire' \in Seq(Responses)
<1>1. wire \in Seq(Responses)
  BY DEF ExecTypes
<1>2. Append(wire, e) \in Seq(Responses)
  BY <1>1
<1>3. Append(Append(wire, e), f) \in Seq(Responses)
  BY <1>2
<1>4. CASE put(<<e>>)
  <2>1. wire' = IF lost THEN wire ELSE Append(wire, e)
    BY <1>4, PutOne
  <2> QED BY <1>1, <1>2, <2>1
<1>5. CASE put(<<e, f>>)
  <2>1. wire' = IF lost THEN wire ELSE Append(Append(wire, e), f)
    BY <1>5, PutTwo
  <2> QED BY <1>1, <1>3, <2>1
<1> QED BY <1>4, <1>5

\* A chunk that is written out keeps the buffer's types.
LEMMA AppendTypes ==
  ASSUME ExecTypes, NEW k \in Nat
  PROVE  append(k) \in [text : Seq(Nat), written : Nat, dropped : BOOLEAN]
<1>0. tail.text \in Seq(Nat) /\ tail.written \in Nat
  BY DEF ExecTypes
<1>1. Append(tail.text, k) \in Seq(Nat) /\ Append(tail.text, k) # <<>> /\ tail.written + 1 \in Nat
  BY <1>0
<1>2. Tail(Append(tail.text, k)) \in Seq(Nat)
  BY <1>1
<1> QED BY <1>1, <1>2 DEF append

\* What a response does to the call, to the output and to the buffer.
LEMMA ReceiveCases ==
  ASSUME ExecTypes, Receive
  PROVE  /\ wire # <<>> /\ Head(wire) \in Responses
         /\ \/ /\ Head(wire).event = "output" /\ UNCHANGED call
               /\ got' = Append(got, Head(wire).chunk) /\ tail' = append(Head(wire).chunk)
            \/ /\ Head(wire).event # "output" /\ UNCHANGED <<got, tail>>
               /\ \/ UNCHANGED call
                  \/ /\ Head(wire).event \in {"exit", "signal"}
                     /\ call'.code = Head(wire).event
                     /\ \/ call' = [st |-> "settled", code |-> Head(wire).event, note |-> "ok"]
                        \/ call' = [call EXCEPT !.code = Head(wire).event]
                  \/ call' = [st |-> "settled", code |-> call.code, note |-> "ok"]
                  \/ call' = [st |-> "settled", code |-> "aborted", note |-> "ok"]
                  \/ call' = [st |-> "settled", code |-> "none", note |-> "failed"]
<1>1. wire # <<>> /\ Head(wire) \in Responses
  BY DEF Receive, ExecTypes
<1> DEFINE e == Head(wire).event
<1>2. e \in {"started", "output", "exit", "signal", "end", "error"}
  BY <1>1 DEF Responses
<1>3. CASE e = "output"
  BY <1>1, <1>3 DEF Receive, writeOutput
<1>4. CASE e = "started"
  BY <1>1, <1>4 DEF Receive
<1>5. CASE e \in {"exit", "signal"}
  <2>1. exited(e) /\ UNCHANGED <<got, tail>>
    BY <1>5 DEF Receive
  <2>2. call \in [st : {"prep", "running", "settled"}, code : {"none", "exit", "signal", "aborted"},
               note : {"ok", "rejected", "expired", "failed"}]
    BY DEF ExecTypes
  <2> QED BY <1>1, <1>5, <2>1, <2>2 DEF exited, Settle
<1>6. CASE e = "end"
  BY <1>1, <1>6 DEF Receive, Thrown, Settle
<1>7. CASE e = "error"
  BY <1>1, <1>7 DEF Receive, Thrown, Settle
<1> QED BY <1>2, <1>3, <1>4, <1>5, <1>6, <1>7

\* Every step keeps the types.
LEMMA ExecTypesStep ==
  ASSUME ExecTypes, [ExecNext]_execVars
  PROVE  ExecTypes'
<1> USE DEF callerVars, streamVars, runnerVars, osVars
<1>1. CASE UNCHANGED execVars
  BY <1>1 DEF ExecTypes, execVars
<1>2. CASE Ready
  BY <1>2 DEF Ready, Settle, ExecTypes
<1>3. CASE Reject
  BY <1>3 DEF Reject, Settle, ExecTypes
<1>4. CASE \E why \in {"timeout", "abort", "kill"} : GiveUp(why)
  BY <1>4 DEF GiveUp, ExecTypes
<1>5. CASE readOutput
  <2>1. drain' \in [at : Nat, heard : Seq(Nat), lossy : BOOLEAN]
    <3>1. readFrom(drain.at).text \in Seq(Nat) /\ readFrom(drain.at).lossy \in BOOLEAN
      <4>1. CASE drain.at < tail.written - Len(tail.text)
        BY <4>1 DEF readFrom, ExecTypes
      <4>2. CASE ~(drain.at < tail.written - Len(tail.text))
        <5>1. drain.at - (tail.written - Len(tail.text)) + 1 \in Nat \ {0} /\ Len(tail.text) \in Nat
          BY <4>2 DEF ExecTypes
        <5>2. SubSeq(tail.text, drain.at - (tail.written - Len(tail.text)) + 1, Len(tail.text)) \in Seq(Nat)
          BY <5>1 DEF ExecTypes
        <5> QED BY <4>2, <5>2 DEF readFrom
      <4> QED BY <4>1, <4>2
    <3>2. drain.heard \o readFrom(drain.at).text \in Seq(Nat)
      BY <3>1 DEF ExecTypes
    <3>3. (drain.lossy \/ readFrom(drain.at).lossy \/ tail.dropped) \in BOOLEAN
      BY Zenon
    <3> QED BY <1>5, <3>2, <3>3 DEF readOutput, ExecTypes
  <2> QED BY <1>5, <2>1 DEF readOutput, ExecTypes
<1>6. CASE Receive
  <2>1. Head(wire).chunk \in Nat /\ wire' \in Seq(Responses)
    BY <1>6, ReceiveCases DEF ExecTypes, Receive, Responses
  <2>2. got' \in Seq(Nat) /\ tail' \in [text : Seq(Nat), written : Nat, dropped : BOOLEAN]
    <3>1. append(Head(wire).chunk) \in [text : Seq(Nat), written : Nat, dropped : BOOLEAN]
      BY <2>1, AppendTypes
    <3>2. Append(got, Head(wire).chunk) \in Seq(Nat)
      BY <2>1 DEF ExecTypes
    <3> QED BY <1>6, <3>1, <3>2, ReceiveCases DEF ExecTypes
  <2>3. call' \in [st : {"prep", "running", "settled"}, code : {"none", "exit", "signal", "aborted"},
               note : {"ok", "rejected", "expired", "failed"}]
    BY <1>6, ReceiveCases DEF ExecTypes
  <2> QED BY <1>6, <2>1, <2>2, <2>3 DEF Receive, ExecTypes
<1>7. CASE Throws
  BY <1>7 DEF Throws, Thrown, Settle, ExecTypes
<1>8. CASE Cancelled
  BY <1>8 DEF Cancelled, ExecTypes
<1>9. CASE Breaks
  <2>1. PICK k \in 0 .. Len(wire) : wire' = Append(SubSeq(wire, 1, k), Event("error"))
    BY <1>9 DEF Breaks
  <2>2. SubSeq(wire, 1, k) \in Seq(Responses) /\ Event("error") \in Responses
    BY EventTypes DEF ExecTypes
  <2>3. wire' \in Seq(Responses)
    BY <2>1, <2>2
  <2> QED BY <1>9, <2>3 DEF Breaks, ExecTypes
<1>10. CASE ExecStart
  <2>1. Event("started") \in Responses /\ Event("error") \in Responses
    BY EventTypes
  <2>2. \E e \in Responses : put(<<e>>)
    BY <1>10, <2>1 DEF ExecStart
  <2>3. wire' \in Seq(Responses)
    BY <2>2, PutTypes
  <2> QED BY <1>10, <2>3 DEF ExecStart, ExecTypes
<1>11. CASE SendChunk
  <2>1. chunks # <<>> /\ Head(chunks) \in Nat /\ Tail(chunks) \in Seq(Nat)
    BY <1>11 DEF SendChunk, ExecTypes
  <2>2. wire' \in Seq(Responses)
    <3>1. Output(Head(chunks)) \in Responses
      BY <2>1 DEF Output, Responses
    <3>2. put(<<Output(Head(chunks))>>) \/ UNCHANGED wire
      BY <1>11 DEF SendChunk
    <3>3. CASE put(<<Output(Head(chunks))>>)
      BY <3>1, <3>3, PutTypes
    <3>4. CASE UNCHANGED wire
      BY <3>4 DEF ExecTypes
    <3> QED BY <3>2, <3>3, <3>4
  <2>3. chunks' \in Seq(Nat) /\ hand' \in {"idle", "start", "loop", "drain", "returned"}
    <3>1. chunks \in Seq(Nat) /\ hand \in {"idle", "start", "loop", "drain", "returned"}
      BY DEF ExecTypes
    <3> QED BY <1>11, <2>1, <3>1 DEF SendChunk
  <2>4. UNCHANGED <<callerVars, lost, ctxDone, waiter, copier, term, cut, osVars>>
    BY <1>11 DEF SendChunk
  <2> QED BY <2>2, <2>3, <2>4 DEF ExecTypes
<1>12. CASE SendExit
  <2>1. Event("error") \in Responses /\ Event(IF cmd = "exited" THEN "exit" ELSE "signal") \in Responses
          /\ Event("end") \in Responses
    BY EventTypes
  <2>2. wire' \in Seq(Responses)
    <3>1. CASE ctxDone
      <4>1. put(<<Event("error")>>)
        BY <1>12, <3>1 DEF SendExit
      <4> QED BY <2>1, <4>1, PutTypes
    <3>2. CASE ~ctxDone
      <4>1. put(<<Event(IF cmd = "exited" THEN "exit" ELSE "signal"), Event("end")>>)
        BY <1>12, <3>2 DEF SendExit
      <4> QED BY <2>1, <4>1, PutTypes
    <3> QED BY <3>1, <3>2
  <2> QED BY <1>12, <2>2 DEF SendExit, ExecTypes
<1>13. CASE Drained
  <2>1. wire' \in Seq(Responses)
    <3>1. put(<<Event("error")>>) /\ Event("error") \in Responses
      BY <1>13, EventTypes DEF Drained
    <3> QED BY <3>1, PutTypes
  <2> QED BY <1>13, <2>1 DEF Drained, ExecTypes
<1>14. CASE Write
  <2>1. Head(pipe) \in Nat /\ Tail(pipe) \in Seq(Nat) /\ <<>> \in Seq(Nat) /\ chunks \in Seq(Nat)
    BY <1>14 DEF Write, ExecTypes
  <2>2. Append(chunks, Head(pipe)) \in Seq(Nat)
    BY <2>1
  <2>3. chunks' \in Seq(Nat) /\ pipe' \in Seq(Nat) /\ copier' \in {"run", "end"}
    BY <1>14, <2>1, <2>2 DEF Write
  <2>4. UNCHANGED <<callerVars, streamVars, hand, ctxDone, execDone, waiter, term, cut, cmd, child, wrote>>
    BY <1>14 DEF Write
  <2> QED BY <2>3, <2>4 DEF ExecTypes
<1>15. CASE CopyEnds
  BY <1>15 DEF CopyEnds, ExecTypes
<1>16. CASE Reaped
  BY <1>16 DEF Reaped, ExecTypes
<1>17. CASE GraceExpires
  <2>1. pipe' \in Seq(Nat)
    <3>1. PICK held \in {k \in {0, 1} : k <= Len(pipe)} : pipe' = SubSeq(pipe, 1, held)
      BY <1>17 DEF GraceExpires
    <3>2. held \in 0 .. Len(pipe)
      BY DEF ExecTypes
    <3> QED BY <3>1, <3>2 DEF ExecTypes
  <2> QED BY <1>17, <2>1 DEF GraceExpires, ExecTypes
<1>18. CASE Terminate
  BY <1>18 DEF Terminate, ExecTypes
<1>19. CASE Runs
  <2>1. Append(pipe, wrote + 1) \in Seq(Nat) /\ wrote + 1 \in Nat
    BY DEF ExecTypes
  <2>2. pipe' \in Seq(Nat) /\ wrote' \in Nat /\ cmd' \in {"none", "running", "exited", "killed"}
    <3>1. pipe \in Seq(Nat) /\ wrote \in Nat /\ cmd \in {"none", "running", "exited", "killed"}
      BY DEF ExecTypes
    <3> QED BY <1>19, <2>1, <3>1 DEF Runs
  <2>3. UNCHANGED <<callerVars, streamVars, runnerVars>>
    BY <1>19 DEF Runs
  <2> QED BY <2>2, <2>3 DEF ExecTypes
<1> QED BY <1>1, <1>2, <1>3, <1>4, <1>5, <1>6, <1>7, <1>8, <1>9, <1>10, <1>11, <1>12, <1>13,
           <1>14, <1>15, <1>16, <1>17, <1>18, <1>19 DEF ExecNext

\* Every step keeps the places of the call, the handler and its goroutines.
LEMMA ExecStandsStep ==
  ASSUME ExecTypes, ExecStands, [ExecNext]_execVars
  PROVE  ExecStands'
<1> USE DEF callerVars, streamVars, runnerVars, osVars, holders, Ended
<1>1. CASE UNCHANGED execVars
  BY <1>1 DEF ExecStands, execVars
<1>2. CASE Ready
  <2>1. hand = "idle" /\ hand' \in {"idle", "start"} /\ call'.st # "prep" /\ hand' # "loop" /\ hand' # "returned"
    BY <1>2 DEF Ready, Settle, ExecStands, ExecTypes
  <2> QED BY <1>2, <2>1 DEF Ready, ExecStands
<1>3. CASE Reject
  BY <1>3 DEF Reject, Settle, ExecStands
<1>4. CASE \E why \in {"timeout", "abort", "kill"} : GiveUp(why)
  BY <1>4 DEF GiveUp, ExecStands
<1>5. CASE readOutput
  BY <1>5 DEF readOutput, ExecStands
<1>6. CASE Receive
  <2>1. call.st = "running" /\ call'.st \in {"running", "settled"}
    BY <1>6, ReceiveCases DEF Receive, ExecTypes
  <2>2. hand \in {"idle", "start"} =>
          got' = <<>> /\ \A i \in 1 .. Len(wire') : wire'[i].event = "error"
    <3> SUFFICES ASSUME hand \in {"idle", "start"}
                 PROVE  got' = <<>> /\ \A i \in 1 .. Len(wire') : wire'[i].event = "error"
      OBVIOUS
    <3>1. got = <<>> /\ \A i \in 1 .. Len(wire) : wire[i].event = "error"
      BY DEF ExecStands
    <3>2. /\ wire \in Seq(Responses) /\ wire # <<>> /\ wire' = Tail(wire)
          /\ 1 \in 1 .. Len(wire) /\ Head(wire) = wire[1]
          /\ \A i \in 1 .. Len(Tail(wire)) : Tail(wire)[i] = wire[i + 1] /\ i + 1 \in 1 .. Len(wire)
      BY <1>6, QueueTail DEF Receive, ExecTypes
    <3>3. Head(wire).event # "output"
      BY <3>1, <3>2
    <3>4. got' = got
      BY <1>6, <3>3, ReceiveCases
    <3> QED BY <3>1, <3>2, <3>4
  <2> QED BY <1>6, <2>1, <2>2 DEF Receive, ExecStands
<1>7. CASE Throws
  BY <1>7 DEF Throws, Thrown, Settle, ExecStands
<1>8. CASE Cancelled
  BY <1>8 DEF Cancelled, ExecStands
<1>9. CASE Breaks
  <2>1. PICK k \in 0 .. Len(wire) : wire' = Append(SubSeq(wire, 1, k), Event("error"))
    BY <1>9 DEF Breaks
  <2>2. /\ wire' \in Seq(Responses) /\ Len(wire') = k + 1 /\ k \in Nat /\ wire'[k + 1] = Event("error")
        /\ \A i \in 1 .. k : wire'[i] = wire[i] /\ i \in 1 .. Len(wire)
    <3>1. wire \in Seq(Responses) /\ Event("error") \in Responses /\ k \in Nat
      BY EventTypes DEF ExecTypes
    <3>2. SubSeq(wire, 1, k) \in Seq(Responses) /\ Len(SubSeq(wire, 1, k)) = k
            /\ \A i \in 1 .. k : SubSeq(wire, 1, k)[i] = wire[i] /\ i \in 1 .. Len(wire)
      BY <3>1
    <3> QED BY <2>1, <3>1, <3>2
  <2>3. Event("error").event = "error"
    BY EventTypes
  <2>4. hand \in {"idle", "start"} => \A i \in 1 .. Len(wire') : wire'[i].event = "error"
    BY <2>2, <2>3 DEF ExecStands
  <2> QED BY <1>9, <2>4 DEF Breaks, ExecStands
<1>10. CASE ExecStart
  BY <1>10 DEF ExecStart, ExecStands
<1>11. CASE SendChunk
  BY <1>11 DEF SendChunk, ExecStands
<1>12. CASE SendExit
  BY <1>12 DEF SendExit, ExecStands
<1>13. CASE Drained
  BY <1>13 DEF Drained, ExecStands
<1>14. CASE Write
  BY <1>14 DEF Write, ExecStands
<1>15. CASE CopyEnds
  BY <1>15 DEF CopyEnds, ExecStands
<1>16. CASE Reaped
  BY <1>16 DEF Reaped, ExecStands
<1>17. CASE GraceExpires
  BY <1>17 DEF GraceExpires, ExecStands
<1>18. CASE Terminate
  BY <1>18 DEF Terminate, ExecStands
<1>19. CASE Runs
  BY <1>19 DEF Runs, ExecStands
<1> QED BY <1>1, <1>2, <1>3, <1>4, <1>5, <1>6, <1>7, <1>8, <1>9, <1>10, <1>11, <1>12, <1>13,
           <1>14, <1>15, <1>16, <1>17, <1>18, <1>19 DEF ExecNext

\* Once the command has exited and is reaped, its output is what it was.
LEMMA AllOutKept ==
  ASSUME ExecTypes, ExecStands, [ExecNext]_execVars, NEW n, AllOut(n)
  PROVE  AllOut(n)'
<1> USE DEF callerVars, streamVars, runnerVars, osVars
<1> SUFFICES UNCHANGED <<hand, waiter, cmd, wrote, cut>>
  BY DEF AllOut
<1>0. hand = "returned" /\ waiter = "done" /\ cmd = "exited"
  BY DEF AllOut
<1>1. CASE UNCHANGED execVars
  BY <1>1 DEF execVars
<1>2. CASE Ready \/ Reject \/ (\E why \in {"timeout", "abort", "kill"} : GiveUp(why)) \/ readOutput
  BY <1>0, <1>2 DEF Ready, Reject, GiveUp, readOutput, ExecStands
<1>3. CASE Receive \/ Throws \/ Cancelled \/ Breaks
  BY <1>3 DEF Receive, Throws, Cancelled, Breaks
<1>4. CASE ExecStart \/ SendChunk \/ SendExit \/ Drained
  BY <1>0, <1>4 DEF ExecStart, SendChunk, SendExit, Drained
<1>5. CASE Write \/ CopyEnds \/ Reaped \/ GraceExpires
  BY <1>0, <1>5 DEF Write, CopyEnds, Reaped, GraceExpires
<1>6. CASE Terminate \/ Runs
  BY <1>0, <1>6 DEF Terminate, Runs
<1> QED BY <1>1, <1>2, <1>3, <1>4, <1>5, <1>6 DEF ExecNext

\* Before the handler returns, no exit status is on its way or received.
LEMMA NoExitYet ==
  ASSUME OutputInOrder, hand # "returned"
  PROVE  /\ call.code # "exit"
         /\ \A i \in 1 .. Len(wire) : wire[i].event # "exit"
<1>1. PICK c \in [0 .. Len(wire) -> Nat] : ExitLast(c)
  BY DEF OutputInOrder
<1> QED BY <1>1 DEF OutputInOrder, ExitLast, AllOut

\* A step that leaves the stream alone keeps the order, when what follows the
\* stream still does.
LEMMA QuietStep ==
  ASSUME ExecTypes, ExecStands, OutputInOrder, [ExecNext]_execVars,
         UNCHANGED <<got, wire>>, call'.code = "exit" => call.code = "exit",
         \A n \in Nat : FollowsOn(n) => FollowsOn(n)'
  PROVE  OutputInOrder'
<1>m. PICK m : m = Len(wire)
  OBVIOUS
<1>g. PICK g : g = Len(got)
  OBVIOUS
<1>1. PICK c \in [0 .. m -> Nat] : Numbered(wire, g, c) /\ ExitLast(c) /\ FollowsOn(c[m])
  BY <1>m, <1>g DEF OutputInOrder
<1>0. m \in Nat /\ Len(wire') = m /\ Len(got') = g
  BY <1>m, <1>g DEF ExecTypes
<1>2. c[m] \in Nat
  BY <1>0, <1>1
<1>3. FollowsOn(c[m])'
  BY <1>1, <1>2
<1>4. ExitLast(c)'
  <2> SUFFICES ASSUME NEW i \in 1 .. m, wire[i].event = "exit"
               PROVE  AllOut(c[i])' /\ \A j \in i .. m : wire[j].event # "output"
    BY <1>0 DEF ExitLast
  <2>1. AllOut(c[i]) /\ \A j \in i .. m : wire[j].event # "output"
    BY <1>1, <1>m DEF ExitLast
  <2> QED BY <2>1, AllOutKept
<1>5. call'.code = "exit" => AllOut(g)' /\ NoOutputLeft'
  <2> SUFFICES ASSUME call.code = "exit" PROVE AllOut(g)' /\ NoOutputLeft'
    OBVIOUS
  <2>1. AllOut(g) /\ NoOutputLeft
    BY <1>g DEF OutputInOrder
  <2> QED BY <2>1, AllOutKept DEF NoOutputLeft
<1>6. CountsFrom(got', 1)
  BY DEF OutputInOrder
<1>7. Numbered(wire', g, c)
  BY <1>1
<1> QED BY <1>0, <1>1, <1>3, <1>4, <1>5, <1>6, <1>7 DEF OutputInOrder

\* A step that sends one response before the handler returns keeps the order.
LEMMA SentOne ==
  ASSUME ExecTypes, OutputInOrder, hand # "returned", UNCHANGED <<got, call>>,
         NEW m, m = Len(wire), NEW g, g = Len(got), NEW c, Numbered(wire, g, c),
         NEW e \in Responses, wire' = Append(wire, e),
         e.event # "exit", e.event = "output" => e.chunk = c[m] + 1,
         FollowsOn(c[m] + (IF e.event = "output" THEN 1 ELSE 0))'
  PROVE  OutputInOrder'
<1>1. wire \in Seq(Responses) /\ m \in Nat /\ g \in Nat
  BY DEF ExecTypes
<1>2. PICK d : Numbered(Append(wire, e), g, d) /\ d[m + 1] = c[m] + (IF e.event = "output" THEN 1 ELSE 0)
  BY <1>1, NumberedAppend
<1>3. Len(wire') = m + 1 /\ Len(got') = g /\ d \in [0 .. m + 1 -> Nat] /\ Numbered(wire', g, d)
  BY <1>1, <1>2 DEF Numbered
<1>4. \A i \in 1 .. m + 1 : wire'[i].event # "exit"
  <2>1. \A i \in 1 .. m : wire[i].event # "exit"
    BY NoExitYet
  <2>2. \A i \in 1 .. m + 1 : wire'[i] = IF i = m + 1 THEN e ELSE wire[i]
    BY <1>1
  <2> QED BY <1>1, <2>1, <2>2
<1>5. ExitLast(d)'
  BY <1>3, <1>4 DEF ExitLast
<1>6. FollowsOn(d[m + 1])'
  BY <1>2
<1>7. call'.code # "exit" /\ CountsFrom(got', 1)
  BY NoExitYet DEF OutputInOrder
<1> QED BY <1>3, <1>5, <1>6, <1>7 DEF OutputInOrder

\* The copier, the pipe and the command keep what follows the stream.
LEMMA FollowingStep ==
  ASSUME ExecTypes, ExecStands, Write \/ CopyEnds \/ GraceExpires \/ Runs, NEW n \in Nat, FollowsOn(n)
  PROVE  FollowsOn(n)'
<1> USE DEF callerVars, streamVars, runnerVars, osVars
<1> SUFFICES ASSUME ~lost', hand' = "loop" PROVE Following(n)'
  BY DEF FollowsOn
<1>0. UNCHANGED <<lost, hand, execDone>>
  BY DEF Write, CopyEnds, GraceExpires, Runs
<1>1. Following(n)
  BY <1>0 DEF FollowsOn
<1>2. chunks \in Seq(Nat) /\ pipe \in Seq(Nat) /\ Len(chunks) \in Nat /\ Len(pipe) \in Nat /\ wrote \in Nat
  BY DEF ExecTypes
<1>3. CASE Write
  <2>0. copier = "run" /\ pipe # <<>> /\ UNCHANGED <<cut, wrote>>
    BY <1>3 DEF Write
  <2>1. /\ CountsFrom(chunks, n + 1) /\ CountsFrom(pipe, n + Len(chunks) + 1)
        /\ n + Len(chunks) + Len(pipe) <= wrote
        /\ ~cut => n + Len(chunks) + Len(pipe) = wrote
    BY <1>1, <2>0 DEF Following
  <2>2. CASE chunks' = Append(chunks, Head(pipe)) /\ pipe' = Tail(pipe) /\ UNCHANGED copier
    <3>1. Head(pipe) = (n + 1) + Len(chunks) /\ Tail(pipe) \in Seq(Nat) /\ Len(Tail(pipe)) + 1 = Len(pipe)
             /\ CountsFrom(Tail(pipe), (n + Len(chunks) + 1) + 1)
      <4>1. n + Len(chunks) + 1 \in Nat /\ n + Len(chunks) + 1 = (n + 1) + Len(chunks)
        BY <1>2
      <4> QED BY <1>2, <2>0, <2>1, <4>1, CountsTail
    <3>2. Len(chunks') = Len(chunks) + 1 /\ CountsFrom(chunks', n + 1)
      BY <1>2, <2>1, <2>2, <3>1, CountsAppend
    <3>3. (n + Len(chunks) + 1) + 1 = n + Len(chunks') + 1
      BY <1>2, <3>2
    <3>4. CountsFrom(pipe', n + Len(chunks') + 1) /\ n + Len(chunks') + Len(pipe') = n + Len(chunks) + Len(pipe)
             /\ n + Len(chunks') <= wrote /\ Len(pipe') \in Nat
      BY <1>2, <2>1, <2>2, <3>1, <3>2, <3>3
    <3> QED BY <2>0, <2>1, <2>2, <3>2, <3>4 DEF Following
  <2>3. CASE execDone /\ copier' = "end" /\ UNCHANGED chunks
    BY <1>0, <1>1, <2>0, <2>3 DEF Following
  <2> QED BY <1>3, <2>2, <2>3 DEF Write
<1>4. CASE CopyEnds
  <2>0. copier = "run" /\ copier' = "end" /\ Len(pipe) = 0 /\ UNCHANGED <<cut, wrote, chunks>>
    BY <1>4 DEF CopyEnds
  <2> QED BY <1>1, <1>2, <2>0 DEF Following
<1>5. CASE GraceExpires
  <2>0. copier = "run" /\ cut' /\ UNCHANGED <<copier, chunks, wrote>>
    BY <1>5 DEF GraceExpires
  <2>1. /\ CountsFrom(chunks, n + 1) /\ CountsFrom(pipe, n + Len(chunks) + 1)
        /\ n + Len(chunks) + Len(pipe) <= wrote
    BY <1>1, <2>0 DEF Following
  <2>2. PICK held \in {k \in {0, 1} : k <= Len(pipe)} : pipe' = SubSeq(pipe, 1, held)
    BY <1>5 DEF GraceExpires
  <2>3. held \in Nat /\ held <= Len(pipe) /\ Len(pipe') = held /\ \A i \in 1 .. held : pipe'[i] = pipe[i] /\ i \in 1 .. Len(pipe)
    BY <1>2, <2>2
  <2>4. CountsFrom(pipe', n + Len(chunks) + 1)
    BY <2>1, <2>3 DEF CountsFrom
  <2>5. n + Len(chunks) + Len(pipe') <= wrote /\ n + Len(chunks) <= wrote
    BY <1>2, <2>1, <2>3
  <2> QED BY <2>0, <2>1, <2>4, <2>5 DEF Following
<1>6. CASE Runs
  <2>0. UNCHANGED <<copier, chunks, cut>>
    BY <1>6 DEF Runs
  <2>1. CASE UNCHANGED <<wrote, pipe>>
    BY <1>0, <1>1, <2>0, <2>1 DEF Following
  <2>2. CASE cmd = "running" /\ ~cut /\ wrote' = wrote + 1 /\ pipe' = Append(pipe, wrote + 1)
    <3>1. n + Len(chunks) <= wrote' /\ CountsFrom(chunks', n + 1) /\ CountsFrom(chunks, n + 1)
      BY <1>1, <1>2, <2>0, <2>2 DEF Following
    <3>2. ~(copier = "end" /\ ~execDone)
      BY <2>2 DEF ExecStands, holders
    <3>3. ASSUME copier = "run"
          PROVE  /\ CountsFrom(pipe', n + Len(chunks) + 1)
                 /\ n + Len(chunks) + Len(pipe') = wrote'
      <4>1. CountsFrom(pipe, n + Len(chunks) + 1) /\ n + Len(chunks) + Len(pipe) = wrote
        BY <1>1, <2>2, <3>3 DEF Following
      <4>2. n + Len(chunks) + 1 \in Nat /\ wrote + 1 = (n + Len(chunks) + 1) + Len(pipe)
        BY <1>2, <4>1
      <4>3. CountsFrom(pipe', n + Len(chunks) + 1) /\ Len(pipe') = Len(pipe) + 1
        BY <1>2, <2>2, <4>1, <4>2, CountsAppend
      <4>4. wrote' = wrote + 1
        BY <2>2
      <4>5. n + Len(chunks) + (Len(pipe) + 1) = wrote + 1
        BY <1>2, <4>1
      <4> QED BY <4>3, <4>4, <4>5
    <3>4. wrote' \in Nat
      BY <1>2, <2>2
    <3> QED BY <1>0, <1>2, <2>0, <3>1, <3>2, <3>3, <3>4 DEF Following
  <2> QED BY <1>6, <2>1, <2>2 DEF Runs
<1> QED BY <1>3, <1>4, <1>5, <1>6

\* A response that is received keeps the order: an output is the next one, and
\* an exit status comes when no output is left.
LEMMA ReceivesInOrder ==
  ASSUME ExecTypes, ExecStands, OutputInOrder, Receive, [ExecNext]_execVars
  PROVE  OutputInOrder' /\ (Head(wire).event = "output" => Head(wire).chunk = Len(got) + 1)
<1> USE DEF callerVars, streamVars, runnerVars, osVars
<1>m. PICK m : m = Len(wire')
  OBVIOUS
<1>g. PICK g : g = Len(got)
  OBVIOUS
<1>h. PICK h : h = Len(got')
  OBVIOUS
<1>0. /\ wire \in Seq(Responses) /\ wire # <<>> /\ wire' = Tail(wire) /\ g \in Nat /\ got \in Seq(Nat)
      /\ m \in Nat /\ Len(wire) = m + 1 /\ Head(wire) = wire[1] /\ 1 \in 1 .. Len(wire)
      /\ \A i \in 1 .. m : wire'[i] = wire[i + 1] /\ i + 1 \in 1 .. Len(wire)
  BY <1>m, <1>g, QueueTail DEF Receive, ExecTypes
<1>1. PICK c \in [0 .. m + 1 -> Nat] : Numbered(wire, g, c) /\ ExitLast(c) /\ FollowsOn(c[m + 1])
  BY <1>0, <1>g DEF OutputInOrder
<1>2. /\ c[1] = g + (IF Head(wire).event = "output" THEN 1 ELSE 0)
      /\ Head(wire).event = "output" => Head(wire).chunk = g + 1
      /\ \E d : TailNumbers(wire, c, d)
  <2>1. wire \in Seq(Responses) /\ wire # <<>> /\ g \in Nat /\ Numbered(wire, g, c)
    BY <1>0, <1>1
  <2>2. c[1] = g + (IF Head(wire).event = "output" THEN 1 ELSE 0)
    BY <2>1, NumberedTail
  <2>3. Head(wire).event = "output" => Head(wire).chunk = g + 1
    BY <2>1, NumberedTail
  <2>4. \E d : TailNumbers(wire, c, d)
    BY <2>1, NumberedTail
  <2> QED BY <2>2, <2>3, <2>4
<1>3. PICK d : Numbered(Tail(wire), c[1], d) /\ \A i \in 0 .. Len(Tail(wire)) : d[i] = c[i + 1]
  BY <1>2 DEF TailNumbers
<1>4. d \in [0 .. m -> Nat] /\ Numbered(wire', c[1], d) /\ \A i \in 0 .. m : d[i] = c[i + 1]
  BY <1>0, <1>m, <1>3 DEF Numbered
<1>5. CountsFrom(got, 1)
  BY DEF OutputInOrder
<1>6. h = c[1] /\ CountsFrom(got', 1)
  <2>1. CASE Head(wire).event = "output"
    <3>1. got' = Append(got, g + 1) /\ 1 \in Nat /\ g + 1 = 1 + Len(got)
      BY <1>0, <1>2, <1>g, <2>1, ReceiveCases
    <3>2. Len(got') = Len(got) + 1 /\ CountsFrom(got', 1)
      BY <1>0, <1>5, <3>1, CountsAppend
    <3> QED BY <1>0, <1>2, <1>g, <1>h, <2>1, <3>2
  <2>2. CASE Head(wire).event # "output"
    <3>1. got' = got
      BY <2>2, ReceiveCases
    <3> QED BY <1>0, <1>2, <1>5, <1>g, <1>h, <2>2, <3>1
  <2> QED BY <2>1, <2>2
<1>7. FollowsOn(d[m])'
  <2>1. d[m] = c[m + 1]
    BY <1>0, <1>4
  <2>2. UNCHANGED <<lost, hand, chunks, wrote, copier, pipe, cut, execDone>>
    BY DEF Receive
  <2> QED BY <1>1, <2>1, <2>2 DEF FollowsOn, Following
<1>8. ExitLast(d)'
  <2> SUFFICES ASSUME NEW i \in 1 .. m, wire'[i].event = "exit"
               PROVE  AllOut(d[i])' /\ \A j \in i .. m : wire'[j].event # "output"
    BY <1>m DEF ExitLast
  <2>1. wire[i + 1].event = "exit" /\ i + 1 \in 1 .. Len(wire) /\ d[i] = c[i + 1]
    BY <1>0, <1>4
  <2>2. AllOut(c[i + 1]) /\ \A j \in i + 1 .. Len(wire) : wire[j].event # "output"
    BY <1>1, <2>1 DEF ExitLast
  <2>3. AllOut(c[i + 1])'
    BY <2>2, AllOutKept
  <2>4. ASSUME NEW j \in i .. m PROVE wire'[j].event # "output"
    <3>1. j \in 1 .. m /\ j + 1 \in i + 1 .. Len(wire)
      BY <1>0
    <3> QED BY <1>0, <2>2, <3>1
  <2> QED BY <2>1, <2>3, <2>4
<1>9. call'.code = "exit" => AllOut(h)' /\ NoOutputLeft'
  <2> SUFFICES ASSUME call'.code = "exit" PROVE AllOut(h)' /\ NoOutputLeft'
    OBVIOUS
  <2>1. CASE call.code = "exit"
    <3>1. AllOut(g) /\ \A j \in 1 .. Len(wire) : wire[j].event # "output"
      BY <1>g, <2>1 DEF OutputInOrder, NoOutputLeft
    <3>2. h = g
      BY <1>0, <1>2, <1>6, <3>1
    <3>3. AllOut(g)'
      BY <3>1, AllOutKept
    <3>4. NoOutputLeft'
      BY <1>0, <1>m, <3>1 DEF NoOutputLeft
    <3> QED BY <3>2, <3>3, <3>4
  <2>2. CASE call.code # "exit"
    <3>1. Head(wire).event = "exit"
      BY <2>2, ReceiveCases DEF ExecTypes
    <3>2. AllOut(c[1]) /\ \A j \in 1 .. Len(wire) : wire[j].event # "output"
      BY <1>0, <1>1, <3>1 DEF ExitLast
    <3>3. AllOut(c[1])'
      BY <3>2, AllOutKept
    <3>4. NoOutputLeft'
      BY <1>0, <1>m, <3>2 DEF NoOutputLeft
    <3> QED BY <1>6, <3>3, <3>4
  <2> QED BY <2>1, <2>2
<1> QED BY <1>2, <1>4, <1>6, <1>7, <1>8, <1>9, <1>g, <1>h, <1>m DEF OutputInOrder

\* A tunnel that breaks keeps the order of what was on its way.
LEMMA BreaksInOrder ==
  ASSUME ExecTypes, ExecStands, OutputInOrder, Breaks, [ExecNext]_execVars
  PROVE  OutputInOrder'
<1> USE DEF callerVars, streamVars, runnerVars, osVars
<1>m. PICK m : m = Len(wire)
  OBVIOUS
<1>g. PICK g : g = Len(got)
  OBVIOUS
<1>e. PICK e : e = Event("error")
  OBVIOUS
<1>0. wire \in Seq(Responses) /\ m \in Nat /\ g \in Nat /\ e \in Responses /\ e.event = "error"
  BY <1>m, <1>g, <1>e, EventTypes DEF ExecTypes
<1>1. PICK c \in [0 .. m -> Nat] : Numbered(wire, g, c) /\ ExitLast(c)
  BY <1>m, <1>g DEF OutputInOrder
<1>2. PICK k \in 0 .. m : wire' = Append(SubSeq(wire, 1, k), e)
  BY <1>e, <1>m DEF Breaks
<1>3. /\ SubSeq(wire, 1, k) \in Seq(Responses) /\ Len(SubSeq(wire, 1, k)) = k
      /\ \A i \in 1 .. k : SubSeq(wire, 1, k)[i] = wire[i] /\ i \in 1 .. Len(wire)
      /\ \E d : Numbered(SubSeq(wire, 1, k), g, d) /\ \A i \in 0 .. k : d[i] = c[i]
  BY <1>0, <1>1, <1>m, NumberedPrefix
<1>4. PICK d : Numbered(SubSeq(wire, 1, k), g, d) /\ \A i \in 0 .. k : d[i] = c[i]
  BY <1>3
<1>w. PICK w : w = SubSeq(wire, 1, k)
  OBVIOUS
<1>5. PICK b : Numbered(Append(w, e), g, b) /\ \A i \in 0 .. k : b[i] = d[i]
  <2>1. w \in Seq(Responses) /\ Numbered(w, g, d) /\ Len(w) = k
    BY <1>3, <1>4, <1>w
  <2>2. e.event = "output" => e.chunk = d[Len(w)] + 1
    BY <1>0
  <2> QED BY <1>0, <2>1, <2>2, NumberedAppend
<1>6. /\ k \in Nat /\ Len(wire') = k + 1 /\ wire'[k + 1] = e
      /\ \A i \in 1 .. k : wire'[i] = wire[i] /\ i \in 1 .. m
  BY <1>0, <1>2, <1>3, <1>m
<1>7. b \in [0 .. k + 1 -> Nat] /\ Numbered(wire', g, b) /\ \A i \in 1 .. k : b[i] = c[i]
  <2>1. Numbered(wire', g, b)
    BY <1>2, <1>5, <1>w
  <2> QED BY <1>4, <1>5, <1>6, <2>1 DEF Numbered
<1>8. ExitLast(b)'
  <2> SUFFICES ASSUME NEW i \in 1 .. k + 1, wire'[i].event = "exit"
               PROVE  AllOut(b[i])' /\ \A j \in i .. k + 1 : wire'[j].event # "output"
    BY <1>6 DEF ExitLast
  <2>1. i \in 1 .. k /\ wire[i].event = "exit"
    BY <1>0, <1>6
  <2>2. AllOut(c[i]) /\ \A j \in i .. m : wire[j].event # "output"
    BY <1>1, <1>6, <1>m, <2>1 DEF ExitLast
  <2>3. AllOut(c[i])'
    BY <2>2, AllOutKept
  <2>4. ASSUME NEW j \in i .. k + 1 PROVE wire'[j].event # "output"
    <3>1. CASE j = k + 1
      BY <1>0, <1>6, <3>1
    <3>2. CASE j # k + 1
      <4>1. j \in 1 .. k /\ j \in i .. m
        BY <1>0, <1>6, <2>1, <3>2
      <4> QED BY <1>6, <2>2, <4>1
    <3> QED BY <3>1, <3>2
  <2> QED BY <1>7, <2>1, <2>3, <2>4
<1>9. call'.code = "exit" => AllOut(g)' /\ NoOutputLeft'
  <2> SUFFICES ASSUME call.code = "exit" PROVE AllOut(g)' /\ NoOutputLeft'
    BY DEF Breaks
  <2>1. AllOut(g) /\ \A j \in 1 .. m : wire[j].event # "output"
    BY <1>m, <1>g DEF OutputInOrder, NoOutputLeft
  <2>2. \A j \in 1 .. k + 1 : wire'[j].event # "output"
    BY <1>0, <1>6, <2>1
  <2> QED BY <1>6, <2>1, <2>2, AllOutKept DEF NoOutputLeft
<1>10. lost' /\ got' = got
  BY DEF Breaks
<1>11. FollowsOn(b[k + 1])'
  BY <1>10 DEF FollowsOn
<1>12. CountsFrom(got', 1) /\ Len(got') = g
  BY <1>10, <1>g DEF OutputInOrder
<1> QED BY <1>6, <1>7, <1>8, <1>9, <1>11, <1>12 DEF OutputInOrder

\* What the handler sends keeps the order, and the exit status of a reaped
\* command comes when the channel and the pipe are empty.
LEMMA SendsInOrder ==
  ASSUME ExecTypes, ExecStands, OutputInOrder, [ExecNext]_execVars,
         ExecStart \/ SendChunk \/ SendExit \/ Drained
  PROVE  OutputInOrder'
<1> USE DEF callerVars, streamVars, runnerVars, osVars
<1>m. PICK m : m = Len(wire)
  OBVIOUS
<1>g. PICK g : g = Len(got)
  OBVIOUS
<1>0. hand # "returned" /\ UNCHANGED <<got, call, lost>>
  BY DEF ExecStart, SendChunk, SendExit, Drained
<1>1. PICK c \in [0 .. m -> Nat] : Numbered(wire, g, c) /\ ExitLast(c) /\ FollowsOn(c[m])
  BY <1>m, <1>g DEF OutputInOrder
<1>2. m \in Nat /\ g \in Nat /\ wire \in Seq(Responses) /\ c[m] \in Nat
  BY <1>m, <1>g, <1>1 DEF ExecTypes
<1>3. ASSUME wire' = wire, hand' # "loop" \/ lost PROVE OutputInOrder'
  <2>1. \A n \in Nat : FollowsOn(n)'
    BY <1>0, <1>3 DEF FollowsOn
  <2> QED BY <1>0, <1>3, <2>1, QuietStep
<1>4. ASSUME NEW e \in Responses, e.event \notin {"exit", "output"}, wire' = Append(wire, e), FollowsOn(c[m])'
      PROVE  OutputInOrder'
  <2>1. FollowsOn(c[m] + (IF e.event = "output" THEN 1 ELSE 0))'
    <3>1. c[m] + (IF e.event = "output" THEN 1 ELSE 0) = c[m]
      BY <1>2, <1>4
    <3> QED BY <1>4, <3>1
  <2> QED BY <1>0, <1>1, <1>4, <1>m, <1>g, <2>1, SentOne
<1>5. ASSUME put(<<Event("error")>>), hand' # "loop" PROVE OutputInOrder'
  <2>1. PICK e : e = Event("error")
    OBVIOUS
  <2>2. e \in Responses /\ e.event = "error" /\ put(<<e>>)
    BY <1>5, <2>1, EventTypes
  <2>3. wire' = IF lost THEN wire ELSE Append(wire, e)
    BY <2>2, PutOne
  <2>4. FollowsOn(c[m])'
    BY <1>5 DEF FollowsOn
  <2> QED BY <1>3, <1>4, <1>5, <2>2, <2>3, <2>4
<1>6. CASE ExecStart
  <2>1. CASE put(<<Event("error")>>) /\ hand' = "returned"
    BY <1>5, <2>1
  <2>2. CASE put(<<Event("started")>>) /\ copier' = "run"
    <3>1. PICK e : e = Event("started")
      OBVIOUS
    <3>2. e \in Responses /\ e.event = "started" /\ put(<<e>>)
      BY <2>2, <3>1, EventTypes
    <3>3. wire' = IF lost THEN wire ELSE Append(wire, e)
      BY <3>2, PutOne
    <3>4. CASE lost
      BY <1>3, <3>3, <3>4
    <3>5. CASE ~lost
      <4>1. wire = <<>> /\ got = <<>> /\ chunks = <<>> /\ pipe = <<>> /\ wrote = 0 /\ ~cut
        BY <1>6, <3>5 DEF ExecStart, ExecStands
      <4>2. m = 0 /\ g = 0
        BY <1>m, <1>g, <4>1
      <4>3. c[m] = 0
        BY <1>1, <4>2 DEF Numbered
      <4>4. chunks' = <<>> /\ pipe' = <<>> /\ wrote' = 0 /\ ~cut'
        BY <1>6, <4>1 DEF ExecStart
      <4>5. Following(0)'
        BY <2>2, <4>4 DEF Following, CountsFrom
      <4>6. FollowsOn(c[m])'
        BY <4>3, <4>5 DEF FollowsOn
      <4> QED BY <1>4, <3>2, <3>3, <3>5, <4>6
    <3> QED BY <3>4, <3>5
  <2> QED BY <1>6, <2>1, <2>2 DEF ExecStart
<1>7. CASE SendChunk
  <2>1. CASE UNCHANGED wire /\ hand' = "drain"
    BY <1>3, <2>1
  <2>2. CASE ~lost /\ put(<<Output(Head(chunks))>>) /\ chunks' = Tail(chunks) /\ UNCHANGED <<hand, execDone>>
    <3>1. hand = "loop" /\ chunks # <<>> /\ UNCHANGED <<copier, cut, pipe, wrote>>
      BY <1>7 DEF SendChunk
    <3>2. PICK n : n = c[m]
      OBVIOUS
    <3>3. Following(n) /\ n \in Nat /\ chunks \in Seq(Nat)
      BY <1>1, <1>2, <2>2, <3>1, <3>2 DEF FollowsOn, ExecTypes
    <3>4. /\ Head(chunks) = n + 1 /\ Len(chunks) \in Nat /\ Len(Tail(chunks)) + 1 = Len(chunks)
          /\ CountsFrom(Tail(chunks), (n + 1) + 1) /\ Len(Tail(chunks)) \in Nat
      BY <3>1, <3>3, CountsTail DEF Following
    <3>5. PICK e : e = Output(n + 1)
      OBVIOUS
    <3>6. e \in Responses /\ e.event = "output" /\ e.chunk = n + 1
      BY <3>3, <3>5 DEF Output, Responses
    <3>7. wire' = Append(wire, e)
      <4>1. put(<<e>>)
        BY <2>2, <3>4, <3>5
      <4> QED BY <2>2, <3>6, <4>1, PutOne
    <3>8. Following(n + 1)'
      <4>1. (n + 1) + Len(chunks') = n + Len(chunks) /\ (n + 1) + Len(chunks') + 1 = n + Len(chunks) + 1
        <5>1. chunks' = Tail(chunks)
          BY <2>2
        <5>2. (n + 1) + Len(Tail(chunks)) = n + Len(chunks)
          <6>1. PICK l : l = Len(Tail(chunks))
            OBVIOUS
          <6>2. l \in Nat /\ n \in Nat /\ l + 1 = Len(chunks)
            BY <3>3, <3>4, <6>1
          <6>3. (n + 1) + l = n + (l + 1)
            BY <6>2
          <6> QED BY <6>1, <6>2, <6>3, Zenon
        <5> QED BY <5>1, <5>2
      <4>2. CountsFrom(chunks', (n + 1) + 1)
        BY <2>2, <3>4
      <4> QED BY <2>2, <3>1, <3>3, <4>1, <4>2 DEF Following
    <3>9. c[m] + (IF e.event = "output" THEN 1 ELSE 0) = n + 1 /\ e.chunk = c[m] + 1 /\ e.event # "exit"
      BY <3>2, <3>6
    <3>10. FollowsOn(c[m] + (IF e.event = "output" THEN 1 ELSE 0))'
      BY <3>8, <3>9 DEF FollowsOn
    <3> QED BY <1>0, <1>1, <1>m, <1>g, <3>6, <3>7, <3>9, <3>10, SentOne
  <2> QED BY <1>7, <2>1, <2>2 DEF SendChunk
<1>8. CASE Drained
  BY <1>5, <1>8 DEF Drained
<1>9. CASE SendExit
  <2>0. hand = "loop" /\ hand' = "returned" /\ chunks = <<>> /\ waiter = "done" /\ UNCHANGED <<waiter, cmd, wrote, cut>>
    BY <1>9 DEF SendExit
  <2>1. CASE ctxDone
    <3>1. put(<<Event("error")>>)
      BY <1>9, <2>1 DEF SendExit
    <3> QED BY <1>5, <2>0, <3>1
  <2>2. CASE ~ctxDone
    <3>1. PICK e : e = Event(IF cmd = "exited" THEN "exit" ELSE "signal")
      OBVIOUS
    <3>2. PICK f : f = Event("end")
      OBVIOUS
    <3>3. /\ e \in Responses /\ e.event = (IF cmd = "exited" THEN "exit" ELSE "signal")
          /\ f \in Responses /\ f.event = "end"
      BY <3>1, <3>2, EventTypes
    <3>4. put(<<e, f>>)
      BY <1>9, <2>2, <3>1, <3>2 DEF SendExit
    <3>5. ~lost /\ wire' = Append(Append(wire, e), f)
      <4>1. wire' = IF lost THEN wire ELSE Append(Append(wire, e), f)
        BY <3>3, <3>4, PutTwo
      <4> QED BY <2>2, <4>1 DEF ExecStands
    <3>6. e.event = "exit" => AllOut(c[m])'
      <4>1. Following(c[m]) /\ copier = "end" /\ ~execDone
        BY <1>1, <2>0, <2>2, <3>5 DEF FollowsOn, ExecStands
      <4>2. Len(chunks) = 0
        BY <2>0
      <4>3. c[m] <= wrote /\ (~cut => c[m] = wrote)
        BY <1>2, <4>1, <4>2 DEF Following
      <4> QED BY <2>0, <3>3, <4>3 DEF AllOut
    <3>7. PICK d : /\ Numbered(Append(wire, e), g, d) /\ d[m + 1] = c[m]
                   /\ \A i \in 0 .. m : d[i] = c[i]
      <4>1. e.event # "output"
        BY <3>3
      <4>2. PICK d : /\ Numbered(Append(wire, e), g, d)
                     /\ d[m + 1] = c[m] + (IF e.event = "output" THEN 1 ELSE 0)
                     /\ \A i \in 0 .. m : d[i] = c[i]
        BY <1>1, <1>2, <1>m, <3>3, <4>1, NumberedAppend
      <4>3. d[m + 1] = c[m]
        BY <1>2, <4>1, <4>2
      <4> QED BY <4>2, <4>3
    <3>w. PICK w : w = Append(wire, e)
      OBVIOUS
    <3>8. w \in Seq(Responses) /\ Len(w) = m + 1 /\ w[m + 1] = e /\ \A i \in 1 .. m : w[i] = wire[i]
      BY <1>2, <1>m, <3>3, <3>w
    <3>9. PICK b : Numbered(Append(w, f), g, b) /\ \A i \in 0 .. m + 1 : b[i] = d[i]
      <4>1. Numbered(w, g, d) /\ (f.event = "output" => f.chunk = d[Len(w)] + 1)
        BY <3>3, <3>7, <3>w
      <4>2. \E b : /\ Numbered(Append(w, f), g, b)
                   /\ b[Len(w) + 1] = d[Len(w)] + (IF f.event = "output" THEN 1 ELSE 0)
                   /\ \A i \in 0 .. Len(w) : b[i] = d[i]
        <5>1. w \in Seq(Responses) /\ g \in Nat /\ f \in Responses
          BY <1>2, <3>3, <3>8
        <5> QED BY <4>1, <5>1, NumberedAppend
      <4>3. Len(w) = m + 1
        BY <3>8
      <4> QED BY <4>2, <4>3
    <3>10. /\ Len(wire') = m + 2 /\ wire'[m + 1] = e /\ wire'[m + 2] = f
           /\ \A i \in 1 .. m : wire'[i] = wire[i]
      <4>1. Append(w, f) \in Seq(Responses) /\ Len(Append(w, f)) = (m + 1) + 1 /\ Append(w, f)[(m + 1) + 1] = f
              /\ \A i \in 1 .. m + 1 : Append(w, f)[i] = w[i]
        BY <1>2, <3>3, <3>8
      <4>2. wire' = Append(w, f)
        BY <3>5, <3>w
      <4>3. (m + 1) + 1 = m + 2 /\ m + 1 \in 1 .. m + 1 /\ \A i \in 1 .. m : i \in 1 .. m + 1
        BY <1>2
      <4> QED BY <3>8, <4>1, <4>2, <4>3
    <3>11. b \in [0 .. m + 2 -> Nat] /\ Numbered(wire', g, b) /\ b[m + 1] = c[m]
      <4>1. Numbered(wire', g, b) /\ m + 1 \in 0 .. m + 1
        BY <1>2, <3>5, <3>9, <3>w
      <4> QED BY <3>7, <3>9, <3>10, <4>1 DEF Numbered
    <3>12. ExitLast(b)'
      <4> SUFFICES ASSUME NEW i \in 1 .. m + 2, wire'[i].event = "exit"
                   PROVE  AllOut(b[i])' /\ \A j \in i .. m + 2 : wire'[j].event # "output"
        BY <3>10 DEF ExitLast
      <4>1. i = m + 1
        <5>1. i # m + 2
          BY <3>3, <3>10
        <5>2. ~(i \in 1 .. m)
          BY <1>0, <1>m, <3>10, NoExitYet
        <5> QED BY <1>2, <5>1, <5>2
      <4>2. AllOut(b[i])'
        BY <3>6, <3>10, <3>11, <4>1
      <4>3. ASSUME NEW j \in i .. m + 2 PROVE wire'[j].event # "output"
        <5>1. j = m + 1 \/ j = m + 2
          BY <1>2, <4>1
        <5> QED BY <3>3, <3>10, <5>1
      <4> QED BY <4>2, <4>3
    <3>13. FollowsOn(b[m + 2])'
      BY <2>0 DEF FollowsOn
    <3>14. call'.code # "exit" /\ CountsFrom(got', 1) /\ Len(got') = g
      BY <1>0, <1>g, NoExitYet DEF OutputInOrder
    <3> QED BY <3>10, <3>11, <3>12, <3>13, <3>14 DEF OutputInOrder
  <2> QED BY <2>1, <2>2
<1> QED BY <1>6, <1>7, <1>8, <1>9

\* Every step keeps the order of the output.
LEMMA OutputInOrderStep ==
  ASSUME ExecTypes, ExecStands, OutputInOrder, [ExecNext]_execVars
  PROVE  OutputInOrder'
<1> USE DEF callerVars, streamVars, runnerVars, osVars
<1>1. CASE Receive
  BY <1>1, ReceivesInOrder
<1>2. CASE Breaks
  BY <1>2, BreaksInOrder
<1>3. CASE ExecStart \/ SendChunk \/ SendExit \/ Drained
  BY <1>3, SendsInOrder
<1>4. CASE Write \/ CopyEnds \/ GraceExpires \/ Runs
  <2>1. UNCHANGED <<got, wire, call>>
    BY <1>4 DEF Write, CopyEnds, GraceExpires, Runs
  <2>2. \A n \in Nat : FollowsOn(n) => FollowsOn(n)'
    BY <1>4, FollowingStep
  <2> QED BY <2>1, <2>2, QuietStep
<1>5. ASSUME UNCHANGED <<got, wire, lost, chunks, pipe, wrote, copier, cut>>,
             call'.code = "exit" => call.code = "exit",
             hand' = "loop" => hand = "loop", execDone => execDone'
      PROVE  OutputInOrder'
  <2>1. \A n \in Nat : FollowsOn(n) => FollowsOn(n)'
    BY <1>5 DEF FollowsOn, Following
  <2> QED BY <1>5, <2>1, QuietStep
<1>6. CASE Ready \/ Reject
  <2>1. call'.code # "exit" \/ call'.code = call.code
    BY <1>6 DEF Ready, Reject, Settle, ExecTypes
  <2> QED BY <1>5, <1>6, <2>1 DEF Ready, Reject
<1>7. CASE (\E why \in {"timeout", "abort", "kill"} : GiveUp(why)) \/ readOutput
  BY <1>5, <1>7 DEF GiveUp, readOutput
<1>8. CASE Throws
  <2>1. call'.code # "exit"
    BY <1>8 DEF Throws, Thrown, Settle
  <2> QED BY <1>5, <1>8, <2>1 DEF Throws
<1>9. CASE Cancelled \/ Reaped \/ Terminate
  BY <1>5, <1>9 DEF Cancelled, Reaped, Terminate
<1>10. CASE UNCHANGED execVars
  BY <1>5, <1>10 DEF execVars
<1> QED BY <1>1, <1>2, <1>3, <1>4, <1>6, <1>7, <1>8, <1>9, <1>10 DEF ExecNext

\* A buffer that held the last chunks and is given the next one holds the last
\* ones still, cut or not.
LEMMA BufferAppend ==
  ASSUME NEW s \in Seq(Nat), NEW w \in Nat, Len(s) <= w, CountsFrom(s, w - Len(s) + 1),
         NEW k, k = w + 1, NEW t, t = Append(s, k), NEW r \in {t, Tail(t)}
  PROVE  r \in Seq(Nat) /\ Len(r) <= k /\ CountsFrom(r, k - Len(r) + 1)
<1>1. PICK l : l = Len(s)
  OBVIOUS
<1>2. PICK b : b = w - l + 1
  OBVIOUS
<1>3. l \in Nat /\ l <= w
  BY <1>1
<1>4. b \in Nat /\ k = b + l /\ k \in Nat
  BY <1>2, <1>3
<1>5. t \in Seq(Nat) /\ Len(t) = l + 1 /\ CountsFrom(t, b)
  BY <1>1, <1>2, <1>4, CountsAppend
<1>6. CASE r = t
  <2>1. l + 1 <= k /\ k - (l + 1) + 1 = b
    BY <1>2, <1>3
  <2> QED BY <1>5, <1>6, <2>1
<1>7. CASE r = Tail(t)
  <2>1. Len(t) # 0
    BY <1>3, <1>5
  <2>2. t # <<>>
    BY <2>1
  <2>3. r \in Seq(Nat) /\ Len(r) + 1 = l + 1 /\ CountsFrom(r, b + 1)
    BY <1>4, <1>5, <1>7, <2>2, CountsTail
  <2>4. Len(r) \in Nat
    BY <2>3
  <2>5. Len(r) = l
    BY <1>3, <2>3, <2>4
  <2>6. l <= k /\ k - l + 1 = b + 1
    BY <1>2, <1>3
  <2> QED BY <2>3, <2>5, <2>6
<1> QED BY <1>6, <1>7

\* What a reader takes from the buffer, from its own place on, continues what it
\* read before, if the buffer still reaches back to that place.
LEMMA BufferRead ==
  ASSUME NEW s \in Seq(Nat), NEW w \in Nat, Len(s) <= w, CountsFrom(s, w - Len(s) + 1),
         NEW h \in Seq(Nat), NEW a \in Nat, Len(h) = a, a <= w, CountsFrom(h, 1), ~(a < w - Len(s))
  PROVE  /\ Len(h \o SubSeq(s, a - (w - Len(s)) + 1, Len(s))) = w
         /\ CountsFrom(h \o SubSeq(s, a - (w - Len(s)) + 1, Len(s)), 1)
<1>1. PICK l : l = Len(s)
  OBVIOUS
<1>2. PICK f : f = a - (w - l) + 1
  OBVIOUS
<1>3. PICK r : r = SubSeq(s, f, l)
  OBVIOUS
<1>4. l \in Nat /\ l <= w
  BY <1>1
<1>5. f \in Nat /\ f >= 1 /\ f <= l + 1
  BY <1>1, <1>2, <1>4
<1>6. r \in Seq(Nat) /\ Len(r) = l - f + 1 /\ \A i \in 1 .. l - f + 1 : r[i] = s[f + i - 1]
  <2>1. Len(r) = IF f <= l THEN l - f + 1 ELSE 0
    BY <1>1, <1>3, <1>4, <1>5
  <2>2. Len(r) = l - f + 1
    BY <1>4, <1>5, <2>1
  <2>3. r \in Seq(Nat)
    BY <1>1, <1>3, <1>4, <1>5
  <2>4. ASSUME NEW i \in 1 .. l - f + 1 PROVE r[i] = s[f + i - 1]
    BY <1>1, <1>3, <1>4, <1>5, <2>2
  <2> QED BY <2>2, <2>3, <2>4
<1>7. CountsFrom(r, 1 + a)
  <2> SUFFICES ASSUME NEW i \in 1 .. l - f + 1 PROVE r[i] + 1 = (1 + a) + i
    BY <1>6 DEF CountsFrom
  <2>1. i \in Nat /\ f + i - 1 \in 1 .. l /\ (w - l + 1) + (f + i - 1) = (1 + a) + i
    BY <1>2, <1>4, <1>5
  <2>2. s[f + i - 1] + 1 = (w - l + 1) + (f + i - 1)
    BY <1>1, <2>1 DEF CountsFrom
  <2> QED BY <1>6, <2>1, <2>2
<1>8. Len(h \o r) = a + Len(r) /\ CountsFrom(h \o r, 1)
  BY <1>6, <1>7, CountsConcat
<1>9. a + (l - f + 1) = w
  BY <1>2, <1>4
<1> QED BY <1>1, <1>2, <1>3, <1>6, <1>8, <1>9

\* Every step keeps what the buffer holds and what its reader has read.
LEMMA TailKeptStep ==
  ASSUME ExecTypes, ExecStands, OutputInOrder, TailKept, [ExecNext]_execVars
  PROVE  TailKept'
<1> USE DEF callerVars, streamVars, runnerVars, osVars
<1>0. /\ tail.text \in Seq(Nat) /\ tail.written \in Nat /\ Len(tail.text) \in Nat /\ Len(tail.text) <= tail.written
      /\ drain.at \in Nat /\ drain.heard \in Seq(Nat) /\ Len(drain.heard) \in Nat /\ drain.at <= tail.written
      /\ got \in Seq(Nat)
  BY DEF ExecTypes, TailKept
<1>1. CASE UNCHANGED <<got, tail, drain>>
  BY <1>1 DEF TailKept
<1>2. CASE Receive
  <2>1. CASE Head(wire).event # "output"
    <3>1. UNCHANGED <<got, tail, drain>>
      BY <1>2, <2>1, ReceiveCases DEF Receive
    <3> QED BY <1>1, <3>1
  <2>2. CASE Head(wire).event = "output"
    <3>1. PICK k : k = Len(got) + 1
      OBVIOUS
    <3>2. got' = Append(got, k) /\ tail' = append(k) /\ drain' = drain
      BY <1>2, <2>2, <3>1, ReceiveCases, ReceivesInOrder DEF Receive
    <3>3. k \in Nat /\ k = tail.written + 1 /\ Len(got') = k
      BY <1>0, <3>1, <3>2 DEF TailKept
    <3>4. PICK t : t = Append(tail.text, k)
      OBVIOUS
    <3>5. tail'.written = k /\ tail'.text \in {t, Tail(t)}
      BY <3>2, <3>3, <3>4 DEF append
    <3>6. tail'.text \in Seq(Nat) /\ Len(tail'.text) <= k /\ CountsFrom(tail'.text, k - Len(tail'.text) + 1)
      <4>1. CountsFrom(tail.text, tail.written - Len(tail.text) + 1)
        BY DEF TailKept
      <4> QED BY <1>0, <3>3, <3>4, <3>5, <4>1, BufferAppend
    <3>7. drain'.at <= tail'.written
      BY <1>0, <3>2, <3>3, <3>5
    <3> QED BY <3>2, <3>3, <3>5, <3>6, <3>7 DEF TailKept
  <2> QED BY <2>1, <2>2
<1>3. CASE readOutput
  <2>0. /\ drain'.at = tail.written /\ drain'.heard = drain.heard \o readFrom(drain.at).text
        /\ drain'.lossy = (drain.lossy \/ readFrom(drain.at).lossy \/ tail.dropped)
        /\ UNCHANGED <<tail, got>>
    BY <1>3 DEF readOutput
  <2>1. ASSUME ~drain'.lossy
        PROVE  Len(drain'.heard) = drain'.at /\ CountsFrom(drain'.heard, 1)
    <3>1. ~drain.lossy /\ ~readFrom(drain.at).lossy
      BY <2>0, <2>1
    <3>2. ~(drain.at < tail.written - Len(tail.text))
      BY <3>1 DEF readFrom
    <3>3. readFrom(drain.at).text = SubSeq(tail.text, drain.at - (tail.written - Len(tail.text)) + 1, Len(tail.text))
      BY <3>2 DEF readFrom
    <3>4. /\ CountsFrom(tail.text, tail.written - Len(tail.text) + 1)
          /\ Len(drain.heard) = drain.at /\ CountsFrom(drain.heard, 1)
      BY <3>1 DEF TailKept
    <3>5. PICK r : r = readFrom(drain.at).text
      OBVIOUS
    <3>6. Len(drain.heard \o r) = tail.written /\ CountsFrom(drain.heard \o r, 1)
      <4>1. PICK s : s = tail.text
        OBVIOUS
      <4>2. PICK w : w = tail.written
        OBVIOUS
      <4>3. PICK h : h = drain.heard
        OBVIOUS
      <4>4. PICK a : a = drain.at
        OBVIOUS
      <4>5. /\ s \in Seq(Nat) /\ w \in Nat /\ h \in Seq(Nat) /\ a \in Nat /\ Len(s) <= w /\ a <= w
            /\ CountsFrom(s, w - Len(s) + 1) /\ Len(h) = a /\ CountsFrom(h, 1) /\ ~(a < w - Len(s))
        BY <1>0, <3>2, <3>4, <4>1, <4>2, <4>3, <4>4
      <4>6. r = SubSeq(s, a - (w - Len(s)) + 1, Len(s))
        BY <3>3, <3>5, <4>1, <4>2, <4>4
      <4>7. Len(h \o r) = w /\ CountsFrom(h \o r, 1)
        BY <4>5, <4>6, BufferRead
      <4> QED BY <4>2, <4>3, <4>7
    <3> QED BY <2>0, <3>5, <3>6
  <2>2. /\ tail'.written = Len(got') /\ Len(tail'.text) <= tail'.written
        /\ CountsFrom(tail'.text, tail'.written - Len(tail'.text) + 1)
    BY <2>0 DEF TailKept
  <2>3. drain'.at <= tail'.written
    BY <1>0, <2>0
  <2> QED BY <2>1, <2>2, <2>3 DEF TailKept
<1>4. CASE Ready \/ Reject \/ (\E why \in {"timeout", "abort", "kill"} : GiveUp(why)) \/ Throws
  BY <1>1, <1>4 DEF Ready, Reject, GiveUp, Throws
<1>5. CASE Cancelled \/ Breaks \/ ExecStart \/ SendChunk \/ SendExit \/ Drained
  BY <1>1, <1>5 DEF Cancelled, Breaks, ExecStart, SendChunk, SendExit, Drained
<1>6. CASE Write \/ CopyEnds \/ Reaped \/ GraceExpires \/ Terminate \/ Runs
  BY <1>1, <1>6 DEF Write, CopyEnds, Reaped, GraceExpires, Terminate, Runs
<1>7. CASE UNCHANGED execVars
  BY <1>1, <1>7 DEF execVars
<1> QED BY <1>2, <1>3, <1>4, <1>5, <1>6, <1>7 DEF ExecNext

\* A call that was not made yet has no output.
LEMMA ExecBegins == ExecInit => ExecInv
<1> SUFFICES ASSUME ExecInit PROVE ExecInv
  OBVIOUS
<1>0. <<>> \in Seq(Nat) /\ <<>> \in Seq(Responses) /\ Len(<<>>) = 0
  OBVIOUS
<1>1. ExecTypes /\ ExecStands
  BY <1>0 DEF ExecInit, ExecTypes, ExecStands, holders, Ended
<1>2. OutputInOrder
  <2> DEFINE c == [i \in 0 .. 0 |-> 0]
  <2>1. c \in [0 .. Len(wire) -> Nat] /\ c[0] = 0 /\ wire = <<>> /\ got = <<>> /\ hand = "idle" /\ call.code = "none"
    BY DEF ExecInit
  <2> HIDE DEF c
  <2>2. Numbered(wire, Len(got), c) /\ ExitLast(c) /\ FollowsOn(c[Len(wire)]) /\ CountsFrom(got, 1)
    BY <2>1 DEF Numbered, ExitLast, FollowsOn, CountsFrom
  <2> QED BY <2>1, <2>2 DEF OutputInOrder
<1>3. TailKept
  BY <1>0 DEF ExecInit, TailKept, CountsFrom
<1> QED BY <1>1, <1>2, <1>3 DEF ExecInv

\* The invariant holds in every step.
LEMMA ExecInvStep ==
  ASSUME ExecInv, [ExecNext]_execVars
  PROVE  ExecInv'
  BY ExecTypesStep, ExecStandsStep, OutputInOrderStep, TailKeptStep DEF ExecInv

\* For any amount of output, any channel and any buffer, the exit status that
\* the Exec handler sends reaches the caller after every chunk the command
\* wrote, in order and once each, unless WaitDelay closed the pipe.
THEOREM OutputHonestHolds == ExecSpec => []OutputHonest
<1>1. ExecInv => OutputHonest
  <2> SUFFICES ASSUME ExecInv, call.code = "exit"
               PROVE  /\ cmd = "exited" /\ Len(got) <= wrote /\ \A i \in 1 .. Len(got) : got[i] = i
                      /\ ~cut => Len(got) = wrote
    BY DEF OutputHonest
  <2>1. AllOut(Len(got)) /\ CountsFrom(got, 1) /\ got \in Seq(Nat)
    BY DEF ExecInv, ExecTypes, OutputInOrder
  <2>2. \A i \in 1 .. Len(got) : got[i] = i
    <3> SUFFICES ASSUME NEW i \in 1 .. Len(got) PROVE got[i] = i
      OBVIOUS
    <3>1. got[i] + 1 = 1 + i /\ got[i] \in Nat
      BY <2>1 DEF CountsFrom
    <3> QED BY <3>1
  <2> QED BY <2>1, <2>2 DEF AllOut
<1> QED BY <1>1, ExecBegins, ExecInvStep, PTL DEF ExecSpec

\* For any TailBuffer, the consuming reads of a shell's output return every
\* chunk once and in order, as long as none of them reported a loss.
THEOREM DrainExactHolds == ExecSpec => []DrainExact
<1>1. ExecInv => DrainExact
  <2> SUFFICES ASSUME ExecInv, ~drain.lossy
               PROVE  Len(drain.heard) = drain.at /\ \A i \in 1 .. drain.at : drain.heard[i] = i
    BY DEF DrainExact
  <2>1. Len(drain.heard) = drain.at /\ CountsFrom(drain.heard, 1) /\ drain.heard \in Seq(Nat)
    BY DEF ExecInv, ExecTypes, TailKept
  <2>2. \A i \in 1 .. drain.at : drain.heard[i] = i
    <3> SUFFICES ASSUME NEW i \in 1 .. drain.at PROVE drain.heard[i] = i
      OBVIOUS
    <3>1. drain.heard[i] + 1 = 1 + i /\ drain.heard[i] \in Nat
      BY <2>1 DEF CountsFrom
    <3> QED BY <3>1
  <2> QED BY <2>1, <2>2
<1> QED BY <1>1, ExecBegins, ExecInvStep, PTL DEF ExecSpec

-----------------------------------------------------------------------------
(***************************************************************************)
(* SignIn, for any tabs, addresses, sizes of the tables and windows.       *)
(***************************************************************************)

Budgets == [peer : Peers, count : Nat, resetAt : Nat, since : Nat]

\* The entry that a login under a state has.
LoginOf(s) == [state |-> s, createdAt |-> grants[s].born]

SignTypes ==
  /\ issued \in Nat /\ now \in Nat /\ opens \in Nat
  /\ grants \in Seq([born : Nat, runs : Nat]) /\ Len(grants) = issued
  /\ peers \subseteq Budgets /\ IsFiniteSet(peers) /\ IsFiniteSet(pending)

\* An entry is that of a login whose exchange has not run.
PendingSound ==
  \A e \in pending : e.state \in 1 .. issued /\ e = LoginOf(e.state) /\ grants[e.state].runs = 0

\* Of the youngest logins, as many as the table holds, those that are neither
\* used nor too old are in it.
PendingKept ==
  \A s \in 1 .. issued :
    s > issued - MAX_PENDING_STATES /\ grants[s].runs = 0 /\ now - grants[s].born <= STATE_TTL
      => LoginOf(s) \in pending

\* No login is exchanged twice.
RunOnce == \A s \in 1 .. issued : grants[s].runs <= 1

\* Both tables stay within their bounds.
TablesBounded == Cardinality(pending) <= MAX_PENDING_STATES /\ Cardinality(peers) <= MAX_TRACKED_PEERS

\* LoginsKept is inductive only with what the entries of the table are.
SignInv == SignTypes /\ PendingSound /\ PendingKept /\ RunOnce /\ TablesBounded

\* A table that is not empty has an oldest entry.
LEMMA Oldest ==
  ASSUME NEW L, L # {}, NEW k \in [L -> Nat]
  PROVE  \E e \in L : \A f \in L : k[e] <= k[f]
<1> DEFINE R == OpToRel(<, Nat)
           K == {k[e] : e \in L}
<1>1. IsWellFoundedOn(R, Nat)
  BY NatLessThanWellFounded
<1>2. \A y \in Nat, x \in Nat : y < x => <<y, x>> \in R
  BY DEF OpToRel
<1>3. K # {} /\ K \subseteq Nat
  OBVIOUS
<1> HIDE DEF R
<1>4. PICK x \in K : \A y \in K : ~(<<y, x>> \in R)
  <2> HIDE DEF K
  <2> QED BY <1>1, <1>3, WFMin
<1>5. PICK e \in L : x = k[e]
  BY <1>4
<1>6. ASSUME NEW f \in L PROVE k[e] <= k[f]
  <2>1. k[f] \in K /\ k[f] \in Nat /\ k[e] \in Nat
    OBVIOUS
  <2>2. ~(k[f] < k[e])
    BY <1>2, <1>4, <1>5, <2>1
  <2> QED BY <2>1, <2>2
<1> QED BY <1>6

\* Attempts.prune leaves room for one more budget.
LEMMA PruneMakesRoom ==
  ASSUME SignTypes, TablesBounded
  PROVE  /\ prunedPeers \subseteq peers /\ IsFiniteSet(prunedPeers)
         /\ Cardinality(prunedPeers) \in Nat /\ Cardinality(prunedPeers) + 1 <= MAX_TRACKED_PEERS
<1> DEFINE live == {e \in peers : e.resetAt > now}
           oldest == CHOOSE e \in live : \A f \in live : e.since <= f.since
<1>0. MAX_TRACKED_PEERS \in Nat /\ MAX_TRACKED_PEERS >= 1
  BY SignAssumption
<1>1. IsFiniteSet(peers) /\ Cardinality(peers) \in Nat /\ Cardinality(peers) <= MAX_TRACKED_PEERS
  BY FS_CardinalityType DEF SignTypes, TablesBounded
<1>2. live \in SUBSET peers
  OBVIOUS
<1>3. IsFiniteSet(live) /\ Cardinality(live) \in Nat /\ Cardinality(live) <= MAX_TRACKED_PEERS
  <2> HIDE DEF live
  <2>1. IsFiniteSet(live) /\ Cardinality(live) <= Cardinality(peers)
    BY <1>1, <1>2, FS_Subset
  <2>2. Cardinality(live) \in Nat
    BY <2>1, FS_CardinalityType
  <2> QED BY <1>0, <1>1, <2>1, <2>2
<1>4. prunedPeers = IF Cardinality(peers) < MAX_TRACKED_PEERS THEN peers
                    ELSE IF Cardinality(live) < MAX_TRACKED_PEERS THEN live ELSE live \ {oldest}
  BY DEF prunedPeers
<1>5. live # {} => oldest \in live
  <2> SUFFICES ASSUME live # {} PROVE oldest \in live
    OBVIOUS
  <2> DEFINE k == [e \in live |-> e.since]
  <2>1. k \in [live -> Nat]
    BY DEF SignTypes, Budgets
  <2>2. \E e \in live : \A f \in live : k[e] <= k[f]
    <3> HIDE DEF k, live
    <3> QED BY <2>1, Oldest
  <2>3. \E e \in live : \A f \in live : e.since <= f.since
    <3>1. \A e \in live : k[e] = e.since
      OBVIOUS
    <3> HIDE DEF k, live
    <3> QED BY <2>2, <3>1
  <2> HIDE DEF live
  <2> QED BY <2>3
<1> HIDE DEF live, oldest
<1>6. CASE Cardinality(peers) < MAX_TRACKED_PEERS
  BY <1>0, <1>1, <1>4, <1>6
<1>7. CASE ~(Cardinality(peers) < MAX_TRACKED_PEERS) /\ Cardinality(live) < MAX_TRACKED_PEERS
  BY <1>0, <1>2, <1>3, <1>4, <1>7
<1>8. CASE ~(Cardinality(peers) < MAX_TRACKED_PEERS) /\ ~(Cardinality(live) < MAX_TRACKED_PEERS)
  <2>1. prunedPeers = live \ {oldest}
    BY <1>4, <1>8
  <2>2. live # {}
    BY <1>0, <1>3, <1>8, FS_EmptySet
  <2>3. IsFiniteSet(live \ {oldest}) /\ Cardinality(live \ {oldest}) = Cardinality(live) - 1
    BY <1>3, <1>5, <2>2, FS_RemoveElement
  <2>4. Cardinality(live) - 1 \in Nat /\ (Cardinality(live) - 1) + 1 <= MAX_TRACKED_PEERS
    BY <1>0, <1>3, <1>8
  <2> QED BY <1>2, <2>1, <2>3, <2>4
<1> QED BY <1>6, <1>7, <1>8

\* A failure is counted within the bound of the table.
LEMMA FailedBounded ==
  ASSUME SignTypes, TablesBounded, NEW p \in Peers
  PROVE  /\ failed(p) \subseteq Budgets /\ IsFiniteSet(failed(p))
         /\ Cardinality(failed(p)) <= MAX_TRACKED_PEERS
<1> DEFINE kept == prunedPeers
           mine == {e \in kept : e.peer = p}
           previous == CHOOSE e \in mine : TRUE
           entry == IF mine # {} /\ previous.resetAt > now
                    THEN [previous EXCEPT !.count = @ + 1]
                    ELSE [peer |-> p, count |-> 1, resetAt |-> now + ATTEMPT_WINDOW,
                          since |-> IF mine = {} THEN opens ELSE previous.since]
<1>1. failed(p) = (kept \ mine) \cup {entry}
  BY DEF failed
<1>2. /\ kept \subseteq Budgets /\ IsFiniteSet(kept) /\ kept \ mine \in SUBSET kept
      /\ Cardinality(kept) \in Nat /\ Cardinality(kept) + 1 <= MAX_TRACKED_PEERS
  BY PruneMakesRoom DEF SignTypes
<1>3. entry \in Budgets
  <2>1. mine # {} => previous \in Budgets
    BY <1>2
  <2>2. now + ATTEMPT_WINDOW \in Nat /\ opens \in Nat
    BY SignAssumption DEF SignTypes
  <2> HIDE DEF mine, previous
  <2> QED BY <2>1, <2>2 DEF Budgets
<1> HIDE DEF mine, entry, kept
<1>4. IsFiniteSet(kept \ mine) /\ Cardinality(kept \ mine) <= Cardinality(kept)
  BY <1>2, FS_Subset
<1>5. Cardinality(kept \ mine) \in Nat
  BY <1>4, FS_CardinalityType
<1>6. /\ IsFiniteSet((kept \ mine) \cup {entry})
      /\ Cardinality((kept \ mine) \cup {entry}) \in {Cardinality(kept \ mine), Cardinality(kept \ mine) + 1}
  BY <1>4, FS_AddElement
<1>7. Cardinality((kept \ mine) \cup {entry}) <= MAX_TRACKED_PEERS
  <2>1. MAX_TRACKED_PEERS \in Nat
    BY SignAssumption
  <2> QED BY <1>2, <1>4, <1>5, <1>6, <2>1
<1> QED BY <1>1, <1>2, <1>3, <1>6, <1>7

\* PendingLogins.remember keeps the table's bound, drops only entries that are
\* too old or pushed out by as many younger ones as the table holds, and adds
\* the new one.
LEMMA RememberKeeps ==
  ASSUME SignInv, NEW s, s = issued + 1
  PROVE  /\ IsFiniteSet(remembered(s)) /\ Cardinality(remembered(s)) <= MAX_PENDING_STATES
         /\ remembered(s) \subseteq pending \cup {[state |-> s, createdAt |-> now]}
         /\ [state |-> s, createdAt |-> now] \in remembered(s)
         /\ \A e \in pending : now - e.createdAt <= STATE_TTL /\ e.state > s - MAX_PENDING_STATES
              => e \in remembered(s)
<1> DEFINE live == {e \in pending : now - e.createdAt <= STATE_TTL}
           oldest == CHOOSE e \in live : \A f \in live : e.state <= f.state
           entry == [state |-> s, createdAt |-> now]
           kept == IF Cardinality(live) >= MAX_PENDING_STATES THEN live \ {oldest} ELSE live
<1>0. MAX_PENDING_STATES \in Nat /\ MAX_PENDING_STATES >= 1 /\ issued \in Nat /\ s \in Nat
  BY SignAssumption DEF SignInv, SignTypes
<1>1. remembered(s) = kept \cup {entry}
  BY DEF remembered
<1>2. IsFiniteSet(pending) /\ Cardinality(pending) \in Nat /\ Cardinality(pending) <= MAX_PENDING_STATES
  BY FS_CardinalityType DEF SignInv, SignTypes, TablesBounded
<1>3. live \in SUBSET pending /\ \A e \in live : e.state \in 1 .. issued
  BY DEF SignInv, PendingSound
<1>4. \A e \in live, f \in live : e.state = f.state => e = f
  <2> SUFFICES ASSUME NEW e \in live, NEW f \in live, e.state = f.state PROVE e = f
    OBVIOUS
  <2>1. e = LoginOf(e.state) /\ f = LoginOf(f.state)
    BY DEF SignInv, PendingSound
  <2> QED BY <2>1
<1>5. \A e \in pending : now - e.createdAt <= STATE_TTL => e \in live
  OBVIOUS
<1>6. live # {} => oldest \in live /\ \A f \in live : oldest.state <= f.state
  <2> SUFFICES ASSUME live # {} PROVE oldest \in live /\ \A f \in live : oldest.state <= f.state
    OBVIOUS
  <2> DEFINE k == [e \in live |-> e.state]
  <2>1. k \in [live -> Nat]
    BY <1>0, <1>3
  <2>2. \E e \in live : \A f \in live : k[e] <= k[f]
    <3> HIDE DEF k, live
    <3> QED BY <2>1, Oldest
  <2>3. \E e \in live : \A f \in live : e.state <= f.state
    <3>1. \A e \in live : k[e] = e.state
      OBVIOUS
    <3> HIDE DEF k, live
    <3> QED BY <2>2, <3>1
  <2> HIDE DEF live
  <2> QED BY <2>3
<1> HIDE DEF live, oldest
<1>7. IsFiniteSet(live) /\ Cardinality(live) \in Nat /\ Cardinality(live) <= MAX_PENDING_STATES
  <2>1. IsFiniteSet(live) /\ Cardinality(live) <= Cardinality(pending)
    BY <1>2, <1>3, FS_Subset
  <2>2. Cardinality(live) \in Nat
    BY <2>1, FS_CardinalityType
  <2> QED BY <1>0, <1>2, <2>1, <2>2
<1>8. Cardinality(live) >= MAX_PENDING_STATES => oldest \in live /\ oldest.state <= s - MAX_PENDING_STATES
  <2> SUFFICES ASSUME Cardinality(live) >= MAX_PENDING_STATES
               PROVE  oldest \in live /\ oldest.state <= s - MAX_PENDING_STATES
    OBVIOUS
  <2>1. live # {}
    BY <1>0, <1>7, FS_EmptySet
  <2>2. oldest \in live /\ \A f \in live : oldest.state <= f.state
    BY <1>6, <2>1
  <2>3. PICK a : a = oldest.state
    OBVIOUS
  <2>4. a \in Nat /\ a <= issued
    BY <1>0, <1>3, <2>2, <2>3
  <2> DEFINE k == [e \in live |-> e.state]
  <2>5. k \in [live -> a .. issued]
    BY <1>0, <1>3, <2>2, <2>3, <2>4
  <2>6. IsFiniteSet(a .. issued) /\ Cardinality(a .. issued) = issued - a + 1
    BY <1>0, <2>4, FS_Interval
  <2>7. ~(Cardinality(a .. issued) < Cardinality(live))
    <3> SUFFICES ASSUME Cardinality(a .. issued) < Cardinality(live) PROVE FALSE
      OBVIOUS
    <3>1. \E x, y \in live : x # y /\ k[x] = k[y]
      <4> HIDE DEF k
      <4> QED BY <1>7, <2>5, <2>6, FS_PigeonHole
    <3> QED BY <1>4, <3>1
  <2>8. a <= s - MAX_PENDING_STATES
    BY <1>0, <1>7, <2>4, <2>6, <2>7
  <2> QED BY <2>2, <2>3, <2>8
<1>9. /\ kept \subseteq pending /\ IsFiniteSet(kept)
      /\ Cardinality(kept) \in Nat /\ Cardinality(kept) + 1 <= MAX_PENDING_STATES
  <2>1. CASE Cardinality(live) >= MAX_PENDING_STATES
    <3>1. IsFiniteSet(live \ {oldest}) /\ Cardinality(live \ {oldest}) = Cardinality(live) - 1
      BY <1>7, <1>8, <2>1, FS_RemoveElement
    <3>2. Cardinality(live) - 1 \in Nat /\ (Cardinality(live) - 1) + 1 <= MAX_PENDING_STATES
      BY <1>0, <1>7, <2>1
    <3> QED BY <1>3, <2>1, <3>1, <3>2
  <2>2. CASE ~(Cardinality(live) >= MAX_PENDING_STATES)
    BY <1>0, <1>3, <1>7, <2>2
  <2> QED BY <2>1, <2>2
<1>10. \A e \in live : e.state > s - MAX_PENDING_STATES => e \in kept
  <2> SUFFICES ASSUME NEW e \in live, e.state > s - MAX_PENDING_STATES PROVE e \in kept
    OBVIOUS
  <2>1. Cardinality(live) >= MAX_PENDING_STATES => e # oldest
    <3>1. e.state \in Nat /\ s - MAX_PENDING_STATES \in Int
      BY <1>0, <1>3
    <3> QED BY <1>8, <3>1
  <2> QED BY <2>1
<1> HIDE DEF kept, entry
<1>11. IsFiniteSet(kept \cup {entry}) /\ Cardinality(kept \cup {entry}) <= MAX_PENDING_STATES
  <2>1. /\ IsFiniteSet(kept \cup {entry})
        /\ Cardinality(kept \cup {entry}) \in {Cardinality(kept), Cardinality(kept) + 1}
    BY <1>9, FS_AddElement
  <2> QED BY <1>0, <1>9, <2>1
<1>12. /\ IsFiniteSet(remembered(s)) /\ Cardinality(remembered(s)) <= MAX_PENDING_STATES
       /\ remembered(s) \subseteq pending \cup {entry}
       /\ entry \in remembered(s)
  BY <1>1, <1>9, <1>11
<1>13. \A e \in pending : now - e.createdAt <= STATE_TTL /\ e.state > s - MAX_PENDING_STATES
              => e \in remembered(s)
  BY <1>1, <1>5, <1>10
<1> QED BY <1>12, <1>13 DEF entry

\* A step that touches neither the tables nor the logins keeps the invariant,
\* whatever the clock does.
LEMMA TablesAlone ==
  ASSUME SignInv, UNCHANGED <<pending, issued, grants, peers>>,
         now' \in Nat, now <= now', opens' \in Nat
  PROVE  SignInv'
<1>1. SignTypes'
  BY DEF SignInv, SignTypes
<1>2. PendingSound' /\ RunOnce' /\ TablesBounded'
  BY DEF SignInv, PendingSound, RunOnce, TablesBounded, LoginOf
<1>3. PendingKept'
  <2> SUFFICES ASSUME NEW s \in 1 .. issued, s > issued - MAX_PENDING_STATES, grants[s].runs = 0,
                      now' - grants[s].born <= STATE_TTL
               PROVE  LoginOf(s) \in pending
    BY DEF PendingKept, LoginOf
  <2>0. grants \in Seq([born : Nat, runs : Nat]) /\ s \in 1 .. Len(grants) /\ now \in Nat
    BY DEF SignInv, SignTypes
  <2>1. grants[s].born \in Nat /\ STATE_TTL \in Nat
    <3>1. grants[s] \in [born : Nat, runs : Nat]
      BY <2>0, ElementOf
    <3> QED BY <3>1, SignAssumption
  <2>2. now - grants[s].born <= STATE_TTL
    BY <2>0, <2>1
  <2> QED BY <2>2 DEF SignInv, PendingKept
<1> QED BY <1>1, <1>2, <1>3 DEF SignInv

\* The login that goes on is remembered, and the others stay as they were.
LEMMA ToProviderKeeps ==
  ASSUME SignInv, NEW t \in Tabs, ToProvider(t)
  PROVE  SignInv'
<1>s. PICK s : s = issued + 1
  OBVIOUS
<1>r. PICK r : r = remembered(s)
  OBVIOUS
<1>n. PICK n : n = [born |-> now, runs |-> 0]
  OBVIOUS
<1>0. issued \in Nat /\ now \in Nat /\ s \in Nat /\ MAX_PENDING_STATES \in Nat /\ STATE_TTL \in Nat
        /\ n \in [born : Nat, runs : Nat] /\ n.born = now /\ n.runs = 0
  BY <1>s, <1>n, SignAssumption DEF SignInv, SignTypes
<1>1. /\ issued' = s /\ pending' = r /\ grants' = Append(grants, n)
      /\ UNCHANGED <<peers, now, opens>>
  BY <1>s, <1>r, <1>n DEF ToProvider
<1>2. /\ IsFiniteSet(r) /\ Cardinality(r) <= MAX_PENDING_STATES
      /\ r \subseteq pending \cup {[state |-> s, createdAt |-> now]}
      /\ [state |-> s, createdAt |-> now] \in r
      /\ \A e \in pending : now - e.createdAt <= STATE_TTL /\ e.state > s - MAX_PENDING_STATES => e \in r
  BY <1>s, <1>r, RememberKeeps
<1>3. /\ grants' \in Seq([born : Nat, runs : Nat]) /\ Len(grants') = s /\ grants'[s] = n
      /\ \A i \in 1 .. issued : grants'[i] = grants[i] /\ i \in 1 .. s
  BY <1>0, <1>1, <1>s DEF SignInv, SignTypes
<1>4. SignTypes'
  BY <1>0, <1>1, <1>2, <1>3 DEF SignInv, SignTypes
<1>5. \A i \in 1 .. issued : LoginOf(i)' = LoginOf(i)
  BY <1>3 DEF LoginOf
<1>6. LoginOf(s)' = [state |-> s, createdAt |-> now]
  BY <1>0, <1>3 DEF LoginOf
<1>7. PendingSound'
  <2> SUFFICES ASSUME NEW e \in r
               PROVE  e.state \in 1 .. s /\ e = LoginOf(e.state)' /\ grants'[e.state].runs = 0
    BY <1>1 DEF PendingSound
  <2>1. CASE e = [state |-> s, createdAt |-> now]
    <3>1. e.state = s /\ s \in 1 .. s
      BY <1>0, <1>s, <2>1
    <3> QED BY <1>0, <1>3, <1>6, <2>1, <3>1
  <2>2. CASE e \in pending
    <3>1. e.state \in 1 .. issued /\ e = LoginOf(e.state) /\ grants[e.state].runs = 0
      BY <2>2 DEF SignInv, PendingSound
    <3> QED BY <1>3, <1>5, <3>1
  <2> QED BY <1>2, <2>1, <2>2
<1>8. PendingKept'
  <2> SUFFICES ASSUME NEW i \in 1 .. s, i > s - MAX_PENDING_STATES, grants'[i].runs = 0,
                      now - grants'[i].born <= STATE_TTL
               PROVE  LoginOf(i)' \in r
    BY <1>1 DEF PendingKept
  <2>1. CASE i = s
    BY <1>2, <1>6, <2>1
  <2>2. CASE i # s
    <3>1. i \in 1 .. issued /\ i > issued - MAX_PENDING_STATES
      BY <1>0, <1>s, <2>2
    <3>2. LoginOf(i) \in pending
      BY <1>3, <3>1 DEF SignInv, PendingKept
    <3>3. LoginOf(i).state = i /\ LoginOf(i).createdAt = grants[i].born
      BY DEF LoginOf
    <3>4. LoginOf(i) \in r
      BY <1>2, <1>3, <3>1, <3>2, <3>3
    <3> QED BY <1>5, <3>1, <3>4
  <2> QED BY <2>1, <2>2
<1>9. RunOnce'
  <2> SUFFICES ASSUME NEW i \in 1 .. s PROVE grants'[i].runs <= 1
    BY <1>1 DEF RunOnce
  <2>1. CASE i = s
    BY <1>0, <1>3, <2>1
  <2>2. CASE i # s
    <3>1. i \in 1 .. issued
      BY <1>0, <1>s, <2>2
    <3> QED BY <1>3, <3>1 DEF SignInv, RunOnce
  <2> QED BY <2>1, <2>2
<1>10. TablesBounded'
  BY <1>1, <1>2 DEF SignInv, TablesBounded
<1> QED BY <1>4, <1>7, <1>8, <1>9, <1>10 DEF SignInv

\* A callback takes its login out of the table with the exchange it runs.
LEMMA CallbackKeepsInv ==
  ASSUME SignInv, NEW t \in Tabs, Callback(t)
  PROVE  SignInv'
<1>s. PICK s : s = tab[t].state
  OBVIOUS
<1>u. PICK u : u = untrusted(t)
  OBVIOUS
<1>d. PICK d : d = (~u /\ redeemable(s))
  OBVIOUS
<1>0. /\ pending' = (IF u THEN pending ELSE taken(s))
      /\ grants' = (IF d THEN [grants EXCEPT ![s].runs = @ + 1] ELSE grants)
      /\ UNCHANGED <<issued, peers, now, opens>>
  BY <1>s, <1>u, <1>d DEF Callback
<1>1. /\ issued \in Nat /\ now \in Nat /\ opens \in Nat
      /\ grants \in Seq([born : Nat, runs : Nat]) /\ Len(grants) = issued
  BY DEF SignInv, SignTypes
<1>2. d => s \in 1 .. issued /\ grants[s].runs = 0 /\ ~u
  <2> SUFFICES ASSUME d PROVE s \in 1 .. issued /\ grants[s].runs = 0 /\ ~u
    OBVIOUS
  <2>1. PICK e \in pending : e.state = s
    BY <1>d DEF redeemable
  <2> QED BY <1>d, <2>1 DEF SignInv, PendingSound
<1>3. /\ grants' \in Seq([born : Nat, runs : Nat]) /\ Len(grants') = issued
      /\ \A i \in 1 .. issued : /\ grants'[i].born = grants[i].born
                                /\ grants'[i].runs = (IF d /\ i = s THEN 1 ELSE grants[i].runs)
  <2>1. CASE d
    <3>1. grants' = [grants EXCEPT ![s] = [grants[s] EXCEPT !.runs = @ + 1]]
      BY <1>0, <2>1
    <3>a. s \in 1 .. Len(grants) /\ grants[s].runs = 0
      BY <1>1, <1>2, <2>1
    <3>2. grants[s] \in [born : Nat, runs : Nat] /\ grants[s].runs = 0 /\ s \in 1 .. Len(grants)
      BY <1>1, <3>a, ElementOf
    <3>3. PICK g : g = [grants[s] EXCEPT !.runs = @ + 1]
      OBVIOUS
    <3>4. g \in [born : Nat, runs : Nat] /\ g.runs = 1 /\ g.born = grants[s].born
      BY <3>2, <3>3
    <3>5. /\ grants' \in Seq([born : Nat, runs : Nat]) /\ Len(grants') = Len(grants)
          /\ \A i \in 1 .. Len(grants) : grants'[i] = IF i = s THEN g ELSE grants[i]
      BY <1>1, <3>1, <3>2, <3>3, <3>4
    <3> QED BY <1>1, <2>1, <3>4, <3>5
  <2>2. CASE ~d
    BY <1>0, <1>1, <2>2
  <2> QED BY <2>1, <2>2
<1>4. pending' \in SUBSET pending /\ (d => \A e \in pending' : e.state # s)
        /\ \A e \in pending : e.state # s => e \in pending'
  BY <1>0, <1>2 DEF taken
<1>5. IsFiniteSet(pending') /\ Cardinality(pending') <= MAX_PENDING_STATES
  <2>1. IsFiniteSet(pending') /\ Cardinality(pending') <= Cardinality(pending)
    BY <1>4, FS_Subset DEF SignInv, SignTypes
  <2>2. Cardinality(pending') \in Nat /\ Cardinality(pending) \in Nat
    BY <2>1, FS_CardinalityType DEF SignInv, SignTypes
  <2> QED BY <2>1, <2>2, SignAssumption DEF SignInv, TablesBounded
<1>6. SignTypes' /\ TablesBounded'
  BY <1>0, <1>1, <1>3, <1>5 DEF SignInv, SignTypes, TablesBounded
<1>7. \A i \in 1 .. issued : LoginOf(i)' = LoginOf(i)
  BY <1>3 DEF LoginOf
<1>8. PendingSound'
  <2> SUFFICES ASSUME NEW e \in pending'
               PROVE  e.state \in 1 .. issued /\ e = LoginOf(e.state)' /\ grants'[e.state].runs = 0
    BY <1>0 DEF PendingSound
  <2>1. e.state \in 1 .. issued /\ e = LoginOf(e.state) /\ grants[e.state].runs = 0
    BY <1>4 DEF SignInv, PendingSound
  <2>2. ~(d /\ e.state = s)
    BY <1>4
  <2> QED BY <1>3, <1>7, <2>1, <2>2
<1>9. PendingKept'
  <2> SUFFICES ASSUME NEW i \in 1 .. issued, i > issued - MAX_PENDING_STATES, grants'[i].runs = 0,
                      now - grants'[i].born <= STATE_TTL
               PROVE  LoginOf(i)' \in pending'
    BY <1>0 DEF PendingKept
  <2>1. ~(d /\ i = s) /\ grants[i].runs = 0 /\ now - grants[i].born <= STATE_TTL
    BY <1>3
  <2>2. LoginOf(i) \in pending
    BY <2>1 DEF SignInv, PendingKept
  <2>3. LoginOf(i).state = i /\ LoginOf(i).createdAt = grants[i].born
    BY DEF LoginOf
  <2>4. LoginOf(i) \in pending'
    <3>1. CASE i # s
      BY <1>4, <2>2, <2>3, <3>1
    <3>2. CASE i = s
      <4>1. redeemable(s)
        BY <2>1, <2>2, <2>3, <3>2 DEF redeemable
      <4>2. u
        BY <1>d, <2>1, <3>2, <4>1
      <4> QED BY <1>0, <2>2, <4>2
    <3> QED BY <3>1, <3>2
  <2> QED BY <1>7, <2>4
<1>10. RunOnce'
  <2> SUFFICES ASSUME NEW i \in 1 .. issued PROVE grants'[i].runs <= 1
    BY <1>0 DEF RunOnce
  <2>1. grants[i].runs <= 1
    BY DEF SignInv, RunOnce
  <2> QED BY <1>3, <2>1
<1> QED BY <1>6, <1>8, <1>9, <1>10 DEF SignInv

\* A form keeps the table of budgets within its bound.
LEMMA SubmitFormKeeps ==
  ASSUME SignInv, NEW t \in Tabs, NEW p \in Peers, NEW right \in BOOLEAN, NEW minted \in BOOLEAN,
         SubmitForm(t, p, right, minted)
  PROVE  SignInv'
<1>0. UNCHANGED <<pending, issued, grants, now>> /\ opens' = opens + 1
  BY DEF SubmitForm
<1>1. peers' \subseteq Budgets /\ IsFiniteSet(peers') /\ Cardinality(peers') <= MAX_TRACKED_PEERS
  <2>1. /\ peers \subseteq Budgets /\ IsFiniteSet(peers) /\ Cardinality(peers) <= MAX_TRACKED_PEERS
        /\ Cardinality(peers) \in Nat /\ MAX_TRACKED_PEERS \in Nat
    BY SignAssumption, FS_CardinalityType DEF SignInv, SignTypes, TablesBounded
  <2>2. peers' = peers \/ peers' = {e \in peers : e.peer # p} \/ peers' = failed(p)
    BY DEF SubmitForm
  <2>3. CASE peers' = peers
    BY <2>1, <2>3
  <2>4. CASE peers' = {e \in peers : e.peer # p}
    <3>1. peers' \in SUBSET peers
      BY <2>4
    <3>2. IsFiniteSet(peers') /\ Cardinality(peers') <= Cardinality(peers)
      BY <2>1, <3>1, FS_Subset
    <3>3. Cardinality(peers') \in Nat
      BY <3>2, FS_CardinalityType
    <3> QED BY <2>1, <3>1, <3>2, <3>3
  <2>5. CASE peers' = failed(p)
    BY <2>5, FailedBounded DEF SignInv
  <2> QED BY <2>2, <2>3, <2>4, <2>5
<1>2. SignTypes' /\ TablesBounded'
  BY <1>0, <1>1 DEF SignInv, SignTypes, TablesBounded
<1>3. PendingSound' /\ PendingKept' /\ RunOnce'
  BY <1>0 DEF SignInv, PendingSound, PendingKept, RunOnce, LoginOf
<1> QED BY <1>2, <1>3 DEF SignInv

\* Every step keeps the invariant.
LEMMA SignInvStep ==
  ASSUME SignInv, [SignNext]_signVars
  PROVE  SignInv'
<1>0. now \in Nat /\ opens \in Nat /\ now <= now /\ now + 1 \in Nat /\ now <= now + 1 /\ opens + 1 \in Nat
  BY DEF SignInv, SignTypes
<1>1. CASE UNCHANGED signVars
  BY <1>0, <1>1, TablesAlone DEF signVars
<1>2. ASSUME NEW t \in Tabs, Answer(t) PROVE SignInv'
  <2>1. CASE Callback(t)
    BY <2>1, CallbackKeepsInv
  <2>2. CASE ToProvider(t)
    BY <2>2, ToProviderKeeps
  <2>3. CASE IndexGate(t) \/ Logout(t) \/ Login(t) \/ \E outcome \in grantOutcomes : Granted(t, outcome)
    <3>1. UNCHANGED <<pending, issued, grants, peers, now, opens>>
      BY <2>3 DEF IndexGate, Logout, Login, Granted
    <3> QED BY <1>0, <3>1, TablesAlone
  <2> QED BY <1>2, <2>1, <2>2, <2>3 DEF Answer
<1>3. ASSUME NEW t \in Tabs, NEW p, NEW s, NEW x, NEW y, NEW z, OpenPage(t, p, x, y, z, s) PROVE SignInv'
  BY <1>0, <1>3, TablesAlone DEF OpenPage
<1>4. ASSUME NEW t \in Tabs, NEW p \in Peers, NEW right \in BOOLEAN, NEW minted \in BOOLEAN,
             SubmitForm(t, p, right, minted)
      PROVE  SignInv'
  BY <1>4, SubmitFormKeeps
<1>5. CASE \/ \E t \in Tabs, x \in BOOLEAN : ProviderReturns(t, x)
           \/ \E ok \in BOOLEAN : Discovered(ok)
  <2>1. UNCHANGED <<pending, issued, grants, peers, now, opens>>
    BY <1>5 DEF ProviderReturns, Discovered
  <2> QED BY <1>0, <2>1, TablesAlone
<1>6. CASE CookieExpires \/ Tock
  BY <1>0, <1>6, TablesAlone DEF CookieExpires, Tock
<1> QED BY <1>1, <1>2, <1>3, <1>4, <1>5, <1>6 DEF SignNext

\* Both tables begin empty.
LEMMA SignBegins == SignInit => SignInv
<1> SUFFICES ASSUME SignInit PROVE SignInv
  OBVIOUS
<1>1. IsFiniteSet({}) /\ Cardinality({}) = 0
  BY FS_EmptySet
<1>2. MAX_PENDING_STATES \in Nat /\ MAX_TRACKED_PEERS \in Nat
  BY SignAssumption
<1>3. <<>> \in Seq([born : Nat, runs : Nat]) /\ Len(<<>>) = 0 /\ \A i : i \notin 1 .. 0
  OBVIOUS
<1>4. SignTypes /\ TablesBounded
  BY <1>1, <1>2, <1>3 DEF SignInit, SignTypes, TablesBounded
<1>5. PendingSound /\ PendingKept /\ RunOnce
  BY <1>3 DEF SignInit, PendingSound, PendingKept, RunOnce
<1> QED BY <1>4, <1>5 DEF SignInv

\* For any number of tabs and addresses and any size of the two tables: a
\* callback runs one exchange however often it is opened; PendingLogins forgets
\* a login only when it is used, too old, or pushed out by as many younger ones
\* as it holds; and neither it nor Attempts grows past its bound.
THEOREM LoginsKeptHolds == SignSpec => []LoginsKept
<1>1. SignInv => LoginsKept
  <2> SUFFICES ASSUME SignInv PROVE LoginsKept
    OBVIOUS
  <2>1. ASSUME NEW s \in 1 .. issued
        PROVE  Cardinality({e \in pending : e.state = s}) <= 1
    <3>1. {e \in pending : e.state = s} = {} \/ {e \in pending : e.state = s} = {LoginOf(s)}
      BY DEF SignInv, PendingSound
    <3>2. Cardinality({}) = 0 /\ Cardinality({LoginOf(s)}) = 1
      BY FS_EmptySet, FS_Singleton
    <3> QED BY <3>1, <3>2
  <2>2. ASSUME NEW s \in 1 .. issued, s > issued - MAX_PENDING_STATES, grants[s].runs = 0,
               now - grants[s].born <= STATE_TTL
        PROVE  redeemable(s)
    <3>1. LoginOf(s) \in pending
      BY <2>2 DEF SignInv, PendingKept
    <3>2. LoginOf(s).state = s /\ LoginOf(s).createdAt = grants[s].born
      BY DEF LoginOf
    <3> QED BY <2>2, <3>1, <3>2 DEF redeemable
  <2>3. /\ \A s \in 1 .. issued : grants[s].runs <= 1
        /\ Cardinality(pending) <= MAX_PENDING_STATES /\ Cardinality(peers) <= MAX_TRACKED_PEERS
    BY DEF SignInv, RunOnce, TablesBounded
  <2> QED BY <2>1, <2>2, <2>3 DEF LoginsKept
<1> QED BY <1>1, SignBegins, SignInvStep, PTL DEF SignSpec

=============================================================================
