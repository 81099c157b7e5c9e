----------------------------- MODULE HostProofs -----------------------------
(***************************************************************************)
(* What the runs of MCHost check of the host's own components, proved for  *)
(* every value of their constants: which MCP servers a turn has, which     *)
(* credentials a push carries, which tools an agent has, which profile a   *)
(* session is served, which builds run for it, and what the host adds to a *)
(* step's prompt.  Each section is one component: its inductive invariant, *)
(* the lemmas its steps rest on, and the theorem.                          *)
(***************************************************************************)
EXTENDS McpChoice, Credentials, SessionTools, ProfileSettings, BuildkiteBuilds, StepPrompt,
        FiniteSetTheorems, WellFoundedInduction, TLAPS

-----------------------------------------------------------------------------
(***************************************************************************)
(* McpChoice, for any servers, agents and turns.                           *)
(***************************************************************************)

\* The open turns have a list of their own, and no one else has.
LiveOwned ==
  /\ up \subseteq Servers /\ begun \in Nat
  /\ preset = [a \in Agents |-> preset[a]] /\ mask = [a \in Agents |-> mask[a]]
  /\ open # {} => live.set /\ begun > 0
  /\ open = {} => ~live.set

\* Outside an edit in flight every mask is what a reconcile would make it.
MasksCurrent == ~editing => \A a \in Agents : mask[a] = denied(a)

\* What the next turn begins with is what the last one ran with, unless the
\* page set a list that still waits.
GoesOn ==
  begun > 0 /\ ~paged =>
    /\ choice.set => choice.off = ran
    /\ ~choice.set => ran = {}
    /\ open # {} => live.off = ran

ChoiceInv == LiveOwned /\ MasksCurrent /\ GoesOn

\* Masks that are not made again need not be, while nothing they follow from
\* changes.
LEMMA MasksStay ==
  ASSUME ChoiceInv, UNCHANGED <<editing, mask, preset, up, config>>, hiddenServers' = hiddenServers
  PROVE  MasksCurrent'
<1>1. everyServer' = everyServer /\ registered' = registered
  BY DEF everyServer, enabled, registered
<1>2. \A a \in Agents : denied(a)' = denied(a)
  BY <1>1 DEF denied, excludedPreset
<1> QED BY <1>2 DEF ChoiceInv, MasksCurrent

\* A reconcile makes them current.
LEMMA MasksMade == ASSUME Reconcile PROVE MasksCurrent' /\ mask' = [a \in Agents |-> mask'[a]]
  BY DEF Reconcile, MasksCurrent

\* ChoiceInv is kept by every step.
LEMMA ChoiceInvStep == ChoiceInv /\ [ChoiceNext]_choiceVars => ChoiceInv'
<1> SUFFICES ASSUME ChoiceInv, [ChoiceNext]_choiceVars PROVE ChoiceInv'
  OBVIOUS
<1>1. CASE \E t \in TurnIds : TurnStart(t)
  <2>1. PICK t \in TurnIds : TurnStart(t)
    BY <1>1
  <2>2. open' # {} /\ begun' = begun + 1 /\ ran' = hiddenServers' /\ live'.set /\ choice'.set
    BY <2>1 DEF TurnStart, beginTurn, freeze
  <2>3. ran' = live'.off
    BY <2>2 DEF hiddenServers
  <2>4. open = {} => live'.off = choice'.off
    BY <2>1, <2>2 DEF TurnStart, beginTurn, ChoiceInv, LiveOwned, chosen
  <2>5. choice.set => choice' = choice
    BY <2>1 DEF TurnStart, freeze
  <2>6. begun > 0 /\ ~choice.set => choice'.off = {}
    BY <2>1 DEF TurnStart, freeze
  <2>7. open # {} => live' = live
    BY <2>1 DEF TurnStart, beginTurn, ChoiceInv, LiveOwned
  <2>8. GoesOn'
    BY <2>1, <2>2, <2>3, <2>4, <2>5, <2>6, <2>7 DEF TurnStart, GoesOn, ChoiceInv, LiveOwned
  <2>9. MasksCurrent' /\ mask' = [a \in Agents |-> mask'[a]]
    <3>1. CASE choice.set
      <4>1. hiddenServers' = hiddenServers
        BY <2>2, <2>4, <2>5, <2>7, <3>1 DEF hiddenServers, chosen, ChoiceInv, LiveOwned
      <4> QED BY <2>1, <3>1, <4>1, MasksStay DEF TurnStart, ChoiceInv, LiveOwned
    <3>2. CASE ~choice.set
      BY <2>1, <3>2, MasksMade DEF TurnStart
    <3> QED BY <3>1, <3>2
  <2> QED BY <2>1, <2>2, <2>8, <2>9 DEF TurnStart, ChoiceInv, LiveOwned
<1>2. CASE \E t \in TurnIds : TurnEnd(t)
  <2>1. PICK t \in TurnIds : TurnEnd(t)
    BY <1>2
  <2>2. open # {} /\ live.set /\ UNCHANGED <<config, editing, choice, begun, up, preset, ran, paged>>
    BY <2>1 DEF TurnEnd, ChoiceInv, LiveOwned
  <2>3. GoesOn' /\ (open' # {} => live' = live) /\ (open' = {} => ~live'.set)
    BY <2>1, <2>2 DEF TurnEnd, NoList, GoesOn, ChoiceInv
  <2>4. MasksCurrent' /\ mask' = [a \in Agents |-> mask'[a]]
    <3>1. CASE open' = {} /\ live.off # chosen
      BY <2>1, <3>1, MasksMade DEF TurnEnd
    <3>2. CASE ~(open' = {} /\ live.off # chosen)
      <4>1. chosen' = chosen
        BY <2>2 DEF chosen, defaults, enabled
      <4>2. hiddenServers' = hiddenServers
        BY <2>2, <2>3, <3>2, <4>1 DEF hiddenServers
      <4> QED BY <2>1, <2>2, <3>2, <4>2, MasksStay DEF TurnEnd, ChoiceInv, LiveOwned
    <3> QED BY <3>1, <3>2
  <2> QED BY <2>2, <2>3, <2>4 DEF ChoiceInv, LiveOwned
<1>3. CASE \E off \in SUBSET Servers : setSessionMcp(off)
  <2>1. PICK off \in SUBSET Servers : setSessionMcp(off)
    BY <1>3
  <2>2. paged' /\ UNCHANGED <<config, editing, begun, up, preset, open>>
    BY <2>1 DEF setSessionMcp
  <2>3. (open # {} => live' = live) /\ (open = {} => ~live'.set)
    BY <2>1 DEF setSessionMcp, NoList
  <2>4. MasksCurrent' /\ mask' = [a \in Agents |-> mask'[a]]
    <3>1. CASE open = {}
      BY <2>1, <3>1, MasksMade DEF setSessionMcp
    <3>2. CASE open # {}
      <4>2. hiddenServers' = hiddenServers
        BY <2>2, <2>3, <3>2 DEF hiddenServers, ChoiceInv, LiveOwned
      <4> QED BY <2>1, <2>2, <3>2, <4>2, MasksStay DEF setSessionMcp, ChoiceInv, LiveOwned
    <3> QED BY <3>1, <3>2
  <2> QED BY <2>2, <2>3, <2>4 DEF ChoiceInv, LiveOwned, GoesOn
<1>4. CASE ChoiceSaved \/ UNCHANGED choiceVars
  <2>1. UNCHANGED <<config, editing, choice, live, open, begun, up, preset, mask, ran, paged>>
    BY <1>4 DEF ChoiceSaved, choiceVars
  <2>2. hiddenServers' = hiddenServers
    BY <2>1 DEF hiddenServers, chosen, defaults, enabled
  <2>3. MasksCurrent'
    BY <2>1, <2>2, MasksStay
  <2> QED BY <2>1, <2>3 DEF ChoiceInv, LiveOwned, GoesOn
<1>5. CASE \E s \in Servers, e \in Entries : EditServer(s, e)
  BY <1>5 DEF EditServer, ChoiceInv, LiveOwned, MasksCurrent, GoesOn
<1>6. CASE EditAnnounced
  BY <1>6, MasksMade DEF EditAnnounced, ChoiceInv, LiveOwned, GoesOn
<1>7. CASE \E s \in Servers : ToolsChange(s)
  BY <1>7, MasksMade DEF ToolsChange, ChoiceInv, LiveOwned, GoesOn
<1>8. CASE \E a \in Agents, p \in {"standard", "minimal"} : SelectPreset(a, p)
  BY <1>8, MasksMade DEF SelectPreset, ChoiceInv, LiveOwned, GoesOn
<1>9. CASE \E a \in Agents : AgentDisposed(a) \/ \E p \in {"standard", "minimal"} : AgentCreated(a, p)
  <2>1. PICK a \in Agents : AgentDisposed(a) \/ \E p \in {"standard", "minimal"} : AgentCreated(a, p)
    BY <1>9
  <2>2. UNCHANGED <<config, editing, choice, live, open, begun, up, ran, paged>>
    BY <2>1 DEF AgentDisposed, AgentCreated
  <2>3. /\ preset' = [b \in Agents |-> preset'[b]] /\ mask' = [b \in Agents |-> mask'[b]]
        /\ \A b \in Agents : b # a => preset'[b] = preset[b] /\ mask'[b] = mask[b]
    BY <2>1 DEF AgentDisposed, AgentCreated, ChoiceInv, LiveOwned
  <2>4. everyServer' = everyServer /\ registered' = registered /\ hiddenServers' = hiddenServers
    BY <2>2 DEF everyServer, enabled, registered, hiddenServers, chosen, defaults
  <2>5. \A b \in Agents : b # a => denied(b)' = denied(b)
    BY <2>3, <2>4 DEF denied, excludedPreset
  <2>6. mask'[a] = denied(a)'
    <3>1. CASE AgentDisposed(a)
      <4>1. preset'[a] = "gone" /\ mask'[a] = {}
        BY <3>1 DEF AgentDisposed, ChoiceInv, LiveOwned
      <4> QED BY <4>1 DEF denied, excludedPreset
    <3>2. CASE \E p \in {"standard", "minimal"} : AgentCreated(a, p)
      BY <3>2 DEF AgentCreated, ChoiceInv, LiveOwned
    <3> QED BY <2>1, <3>1, <3>2
  <2>7. MasksCurrent'
    BY <2>2, <2>3, <2>5, <2>6 DEF MasksCurrent, ChoiceInv
  <2> QED BY <2>2, <2>3, <2>7 DEF ChoiceInv, LiveOwned, GoesOn
<1>10. CASE Restart
  <2>1. \A a \in Agents : preset'[a] = "gone" /\ mask'[a] = {}
    BY <1>10 DEF Restart
  <2>2. \A a \in Agents : denied(a)' = {}
    BY <2>1 DEF denied, excludedPreset
  <2> QED BY <1>10, <2>1, <2>2 DEF Restart, NoList, ChoiceInv, LiveOwned, MasksCurrent, GoesOn
<1> QED BY <1>1, <1>2, <1>3, <1>4, <1>5, <1>6, <1>7, <1>8, <1>9, <1>10 DEF ChoiceNext

\* A new session, or one from before choices were recorded.
LEMMA ChoiceBegins == ChoiceInit => ChoiceInv
<1> SUFFICES ASSUME ChoiceInit PROVE ChoiceInv
  OBVIOUS
<1>1. \A a \in Agents : denied(a) = {}
  BY DEF ChoiceInit, denied, excludedPreset
<1> QED BY <1>1 DEF ChoiceInit, NoList, ChoiceInv, LiveOwned, MasksCurrent, GoesOn

\* Outside a settings edit in flight an agent's tools and its prompt name the
\* same servers, for any number of turns, presets and mounts.
THEOREM NeverAMixHolds == ChoiceSpec => []NeverAMix
<1>1. ChoiceInv => NeverAMix
  <2> SUFFICES ASSUME ChoiceInv, ~editing, NEW a \in Agents, preset[a] = "standard"
               PROVE  up \ mask[a] = assembled(a) /\ (resourceSection # {} => "resources" \in registered \ mask[a])
    BY DEF NeverAMix
  <2>1. mask[a] = {n \in registered : IF n = "resources" THEN everyServer ELSE n \in hiddenServers}
    BY DEF ChoiceInv, MasksCurrent, denied, excludedPreset
  <2>2. "resources" \notin up /\ up \subseteq registered
    BY ChoiceAssumption DEF ChoiceInv, LiveOwned, registered
  <2>3. up \ mask[a] = up \ hiddenServers
    BY <2>1, <2>2
  <2>4. assembled(a) = up \ hiddenServers
    BY DEF assembled, sections, excludedPreset
  <2>5. resourceSection # {} => ~everyServer /\ up # {}
    BY DEF resourceSection
  <2>6. up # {} => "resources" \in registered
    BY DEF registered
  <2> QED BY <2>1, <2>3, <2>4, <2>5, <2>6
<1> QED BY <1>1, ChoiceBegins, ChoiceInvStep, PTL DEF ChoiceSpec

\* No step changes the list of an open turn, and none begins a turn with
\* another list than the last one's unless the page chose it.
THEOREM TurnStableHolds == ChoiceSpec => TurnStable
<1>1. ChoiceInv /\ [ChoiceNext]_choiceVars =>
        [/\ open # {} /\ open' # {} => hiddenServers' = hiddenServers
         /\ begun' > begun /\ begun > 0 /\ ~paged => hiddenServers' = ran]_choiceVars
  <2> SUFFICES ASSUME ChoiceInv, [ChoiceNext]_choiceVars
               PROVE  /\ open # {} /\ open' # {} => hiddenServers' = hiddenServers
                      /\ begun' > begun /\ begun > 0 /\ ~paged => hiddenServers' = ran
    OBVIOUS
  <2>0. begun \in Nat /\ (open # {} => live.set) /\ (open = {} => ~live.set)
    BY DEF ChoiceInv, LiveOwned
  <2>1. CASE \E t \in TurnIds : TurnStart(t)
    <3>1. PICK t \in TurnIds : TurnStart(t)
      BY <2>1
    <3>2. open' # {} /\ live'.set /\ choice'.set
      BY <3>1 DEF TurnStart, beginTurn, freeze
    <3>3. hiddenServers' = live'.off
      BY <3>2 DEF hiddenServers
    <3>4. open # {} => live' = live /\ hiddenServers = live.off
      BY <2>0, <3>1 DEF TurnStart, beginTurn, hiddenServers
    <3>5. open = {} => live'.off = choice'.off
      BY <2>0, <3>1, <3>2 DEF TurnStart, beginTurn, chosen
    <3>6. begun > 0 => choice'.off = IF choice.set THEN choice.off ELSE {}
      BY <3>1 DEF TurnStart, freeze
    <3> QED BY <3>3, <3>4, <3>5, <3>6 DEF ChoiceInv, GoesOn
  <2>2. CASE begun' = begun /\ (open' # {} => live' = live)
    BY <2>0, <2>2 DEF hiddenServers
  <2>3. CASE \E t \in TurnIds : TurnEnd(t)
    BY <2>0, <2>2, <2>3 DEF TurnEnd
  <2> QED BY <2>1, <2>2, <2>3 DEF ChoiceNext, choiceVars, setSessionMcp, ChoiceSaved, EditServer, EditAnnounced,
               ToolsChange, AgentCreated, SelectPreset, AgentDisposed, Restart
<1> QED BY <1>1, ChoiceBegins, ChoiceInvStep, PTL DEF ChoiceSpec, TurnStable

-----------------------------------------------------------------------------
(***************************************************************************)
(* Credentials, for any sessions, edits and pushes.                        *)
(***************************************************************************)

Edits == 1 .. Len(keyEdits)
IsCall(c) == c = [at |-> c.at, after |-> c.after, copy |-> c.copy, floor |-> c.floor]
SecretKindsOf(s) == IF s \in Scratch THEN {"global"} ELSE {"global", "workspace"}
GitKindsOf(s) == IF s \in Scratch THEN {"global", "git"} ELSE SecretKinds

CredKnown ==
  /\ keyEdits \in Seq(SecretKinds) /\ landed \in Nat /\ chain \in Seq(SUBSET Nat)
  /\ held \subseteq Edits /\ onDisk \subseteq Edits /\ acked \subseteq Edits /\ passedOver \subseteq Edits
  /\ \A i \in 1 .. Len(chain) : chain[i] \subseteq Edits
  /\ push = [r \in Readers |-> push[r]]
  /\ \A r \in Readers : IsCall(push[r]) /\ push[r].after \in Nat /\ push[r].floor \subseteq acked
  /\ secretsOf = [s \in Sessions |-> secretsOf[s]] /\ gitOf = [s \in Sessions |-> gitOf[s]]

\* Short of what was passed over: what is answered is in the file, what is in
\* the file is in every write to come, and those grow.
WritesGrow ==
  /\ acked \ passedOver \subseteq onDisk
  /\ \A i \in 1 .. Len(chain) : onDisk \ passedOver \subseteq chain[i]
  /\ \A i, j \in 1 .. Len(chain) : i <= j => chain[i] \ passedOver \subseteq chain[j]

\* Memory holds nothing else than what is written or to be, and lacks only
\* what the CLI wrote or what a refresh overtook.
MemoryFollows ==
  /\ held \ passedOver \subseteq written
  /\ written \ held \subseteq overtaken \cup outside \cup passedOver

\* What a refresh has read, or the file of the moment it may read it at.
Found(r) ==
  IF push[r].at = "apply" THEN push[r].copy
  ELSE IF push[r].after <= landed THEN onDisk ELSE chain[push[r].after - landed]

\* A refresh under way lacks only what was edited since it began.
ReadsFollow ==
  \A r \in Readers : push[r].at \in {"chain", "apply"} =>
    /\ push[r].after <= landed + Len(chain)
    /\ Found(r) \ passedOver \subseteq written
    /\ written \ Found(r) \subseteq overtaken \cup passedOver

\* What was answered before the call is in what it sends.
Sent ==
  /\ \A r \in Readers : push[r].at \in {"apply", "secrets"} => push[r].floor \ passedOver \subseteq push[r].copy
  /\ \A s \in Sessions :
       /\ push[s].at \in {"secrets", "git"} => push[s].floor \ (passedOver \cup overtaken) \subseteq held
       /\ push[s].at \in {"git", "ready"} =>
            \A e \in push[s].floor \ passedOver : keyEdits[e] \in SecretKindsOf(s) => e \in secretsOf[s]
       /\ push[s].at = "ready" =>
            \A e \in push[s].floor \ (passedOver \cup overtaken) : keyEdits[e] \in GitKindsOf(s) => e \in gitOf[s]

CredInv == CredKnown /\ WritesGrow /\ MemoryFollows /\ ReadsFollow /\ Sent

Begun(Q, P, r, a) == Q = [P EXCEPT ![r].at = a]
Carries(Q, P, r, a, c) == Q = [P EXCEPT ![r].at = a, ![r].copy = c]

\* A call that goes on keeps what it is about.
LEMMA CallGoesOn ==
  ASSUME NEW P, P = [q \in Readers |-> P[q]], NEW r \in Readers, IsCall(P[r]), NEW a, NEW Q, Begun(Q, P, r, a)
  PROVE  /\ Q = [q \in Readers |-> Q[q]] /\ \A q \in Readers : q # r => Q[q] = P[q]
         /\ IsCall(Q[r]) /\ Q[r].at = a /\ Q[r].copy = P[r].copy /\ Q[r].after = P[r].after /\ Q[r].floor = P[r].floor
<1>1. PICK x : x = P[r]
  OBVIOUS
<1>2. x = [at |-> x.at, after |-> x.after, copy |-> x.copy, floor |-> x.floor]
  BY <1>1 DEF IsCall
<1>3. [x EXCEPT !.at = a] = [at |-> a, after |-> x.after, copy |-> x.copy, floor |-> x.floor]
  BY <1>2
<1>4. Q = [P EXCEPT ![r] = [x EXCEPT !.at = a]]
  BY <1>1 DEF Begun
<1>5. Q = [P EXCEPT ![r] = [at |-> a, after |-> x.after, copy |-> x.copy, floor |-> x.floor]]
  BY <1>3, <1>4
<1> QED BY <1>1, <1>5 DEF IsCall

\* So does one that goes on with another copy.
LEMMA CallCarries ==
  ASSUME NEW P, P = [q \in Readers |-> P[q]], NEW r \in Readers, IsCall(P[r]), NEW a, NEW c, NEW Q,
         Carries(Q, P, r, a, c)
  PROVE  /\ Q = [q \in Readers |-> Q[q]] /\ \A q \in Readers : q # r => Q[q] = P[q]
         /\ IsCall(Q[r]) /\ Q[r].at = a /\ Q[r].copy = c /\ Q[r].after = P[r].after /\ Q[r].floor = P[r].floor
<1>1. PICK R : Begun(R, P, r, a)
  BY DEF Begun
<1>2. /\ R = [q \in Readers |-> R[q]] /\ \A q \in Readers : q # r => R[q] = P[q]
      /\ IsCall(R[r]) /\ R[r].at = a /\ R[r].after = P[r].after /\ R[r].floor = P[r].floor
  BY <1>1, CallGoesOn
<1>3. PICK x : x = R[r]
  OBVIOUS
<1>4. [x EXCEPT !.copy = c] = [at |-> x.at, after |-> x.after, copy |-> c, floor |-> x.floor]
  BY <1>2, <1>3 DEF IsCall
<1>5. Q = [R EXCEPT ![r] = [x EXCEPT !.copy = c]]
  BY <1>1, <1>3 DEF Carries, Begun
<1>6. Q = [R EXCEPT ![r] = [at |-> x.at, after |-> x.after, copy |-> c, floor |-> x.floor]]
  BY <1>4, <1>5
<1> QED BY <1>2, <1>3, <1>6 DEF IsCall

\* What a refresh under way will find is on disk, or one of the writes to come.
LEMMA FoundWrite ==
  ASSUME CredKnown, NEW r \in Readers, push[r].after <= landed + Len(chain), push[r].at # "apply"
  PROVE  Found(r) = onDisk \/ (push[r].after > landed /\ push[r].after - landed \in 1 .. Len(chain))
<1>1. push[r].after \in Nat /\ landed \in Nat /\ Len(chain) \in Nat
  BY DEF CredKnown
<1>2. PICK a, n : a = push[r].after /\ n = Len(chain)
  OBVIOUS
<1>3. a > landed => a - landed \in 1 .. n
  BY <1>1, <1>2
<1>4. CASE push[r].after <= landed
  BY <1>4 DEF Found
<1>5. CASE push[r].after > landed
  <2>1. push[r].after - landed \in 1 .. Len(chain)
    BY <1>2, <1>3, <1>5
  <2> QED BY <1>5, <2>1
<1> QED BY <1>1, <1>4, <1>5

\* CredInv is inductive.
LEMMA CredInvStep == CredInv /\ [CredNext]_credVars => CredInv'
<1> SUFFICES ASSUME CredInv, [CredNext]_credVars PROVE CredInv'
  OBVIOUS
<1>k. CredKnown /\ WritesGrow /\ MemoryFollows /\ ReadsFollow /\ Sent
  BY DEF CredInv
<1>f. \A r \in Readers : push[r].floor \subseteq Edits
  BY <1>k DEF CredKnown
<1>1. CASE \E k \in SecretKinds : Edit(k)
  <2>1. PICK k \in SecretKinds : Edit(k)
    BY <1>1
  <2> DEFINE e == Len(keyEdits) + 1
  <2>2. /\ UNCHANGED <<onDisk, landed, acked, push, secretsOf, gitOf, outside>>
        /\ overtaken' = overtaken \cup (IF refreshing THEN {e} ELSE {})
        /\ passedOver' = passedOver \cup ((written \ held) \cap (overtaken \cup outside))
    BY <2>1 DEF Edit, overtake
  <2>3. /\ keyEdits' \in Seq(SecretKinds) /\ Len(keyEdits') = e /\ \A i \in Edits : keyEdits'[i] = keyEdits[i]
        /\ Edits \subseteq Edits' /\ e \in Edits'
    BY <1>k, <2>1 DEF Edit, CredKnown, Edits
  <2>4. held' = held \cup {e} /\ held' \subseteq Edits'
    BY <1>k, <2>1, <2>3 DEF Edit, CredKnown
  <2>5. /\ chain' \in Seq(SUBSET Nat) /\ Len(chain') = Len(chain) + 1 /\ chain'[Len(chain) + 1] = held'
        /\ \A i \in 1 .. Len(chain) : chain'[i] = chain[i]
    <3>1. held' \in SUBSET Nat /\ chain' = Append(chain, held')
      BY <2>1, <2>4 DEF Edit, Edits
    <3> QED BY <1>k, <3>1 DEF CredKnown
  <2>6. /\ \A i \in 1 .. Len(chain') : i \in 1 .. Len(chain) \/ i = Len(chain) + 1
        /\ \A i \in 1 .. Len(chain) : i \in 1 .. Len(chain')
        /\ Len(chain) + 1 \in 1 .. Len(chain')
    BY <1>k, <2>5 DEF CredKnown
  <2>7. written' = written \cup held'
    BY <2>2, <2>5, <2>6 DEF written
  <2>8. passedOver \subseteq passedOver' /\ overtaken \subseteq overtaken' /\ written \ passedOver' \subseteq held'
    BY <1>k, <2>2, <2>4 DEF MemoryFollows
  <2>9. CredKnown'
    <3>1. passedOver' \subseteq Edits
      <4>1. written \subseteq Edits
        BY <1>k DEF CredKnown, written
      <4> QED BY <1>k, <2>2, <4>1 DEF CredKnown
    <3> QED BY <1>k, <2>2, <2>3, <2>4, <2>5, <2>6, <3>1 DEF CredKnown
  <2>10. WritesGrow'
    <3>1. \A i \in 1 .. Len(chain) : chain[i] \subseteq written
      BY DEF written
    <3>2. \A i \in 1 .. Len(chain) : chain[i] \ passedOver' \subseteq held' /\ onDisk \ passedOver' \subseteq held'
      BY <2>8, <3>1 DEF written
    <3>3. onDisk \ passedOver' \subseteq held'
      BY <2>8 DEF written
    <3>4. \A i \in 1 .. Len(chain') : onDisk' \ passedOver' \subseteq chain'[i]
      BY <1>k, <2>2, <2>5, <2>6, <2>8, <3>3 DEF WritesGrow
    <3>5. ASSUME NEW i \in 1 .. Len(chain'), NEW j \in 1 .. Len(chain'), i <= j
          PROVE  chain'[i] \ passedOver' \subseteq chain'[j]
      <4>1. CASE j \in 1 .. Len(chain)
        <5>1. i \in 1 .. Len(chain)
          BY <1>k, <3>5, <4>1 DEF CredKnown
        <5> QED BY <1>k, <2>5, <2>8, <3>5, <4>1, <5>1 DEF WritesGrow
      <4>2. CASE j = Len(chain) + 1
        BY <2>5, <2>6, <3>2, <4>2
      <4> QED BY <2>6, <4>1, <4>2
    <3>6. acked' \ passedOver' \subseteq onDisk'
      BY <1>k, <2>2, <2>8 DEF WritesGrow
    <3> QED BY <3>4, <3>5, <3>6 DEF WritesGrow
  <2>11. MemoryFollows'
    BY <2>2, <2>7, <2>8 DEF MemoryFollows
  <2>12. ReadsFollow'
    <3> SUFFICES ASSUME NEW r \in Readers, push[r].at \in {"chain", "apply"}
                 PROVE  /\ push[r].after <= landed + Len(chain')
                        /\ Found(r)' \ passedOver' \subseteq written'
                        /\ written' \ Found(r)' \subseteq overtaken' \cup passedOver'
      BY <2>2 DEF ReadsFollow
    <3>1. e \in overtaken'
      BY <2>2 DEF refreshing
    <3>2. /\ push[r].after \in Nat /\ push[r].after <= landed + Len(chain) /\ Found(r) \ passedOver \subseteq written
          /\ written \ Found(r) \subseteq overtaken \cup passedOver
      BY <1>k DEF ReadsFollow, CredKnown
    <3>3. Found(r)' = Found(r)
      BY <1>k, <2>2, <2>5, <3>2, FoundWrite DEF Found, CredKnown
    <3>4. push[r].after <= landed + Len(chain')
      BY <1>k, <2>5, <3>2 DEF CredKnown
    <3>5. held \ passedOver \subseteq written
      BY <1>k DEF MemoryFollows
    <3> QED BY <2>4, <2>7, <2>8, <3>1, <3>2, <3>3, <3>4, <3>5
  <2>13. Sent'
    BY <1>k, <1>f, <2>2, <2>3, <2>4, <2>8 DEF Sent, SecretKindsOf, GitKindsOf, Readers
  <2> QED BY <2>9, <2>10, <2>11, <2>12, <2>13 DEF CredInv
<1>2. CASE \E k \in SecretKinds : OutsideEdit(k)
  <2>1. PICK k \in SecretKinds : OutsideEdit(k)
    BY <1>2
  <2> DEFINE e == Len(keyEdits) + 1
  <2>2. /\ UNCHANGED <<held, chain, landed, push, secretsOf, gitOf>> /\ outside' = outside \cup {e}
        /\ overtaken' = overtaken \cup (IF refreshing THEN {e} ELSE {})
        /\ passedOver' = passedOver \cup (IF chain = <<>> THEN {} ELSE {e})
    BY <2>1 DEF OutsideEdit, overtake
  <2>3. /\ keyEdits' \in Seq(SecretKinds) /\ Len(keyEdits') = e /\ \A i \in Edits : keyEdits'[i] = keyEdits[i]
        /\ Edits \subseteq Edits' /\ e \in Edits'
    BY <1>k, <2>1 DEF OutsideEdit, CredKnown, Edits
  <2>4. onDisk' = onDisk \cup {e} /\ acked' = acked \cup {e} /\ onDisk' \subseteq Edits' /\ acked' \subseteq Edits'
    BY <1>k, <2>1, <2>3 DEF OutsideEdit, CredKnown
  <2>5. written' = written \cup {e}
    BY <2>2, <2>4 DEF written
  <2>6. \A i \in 1 .. Len(chain) : chain # <<>>
    BY <1>k DEF CredKnown
  <2>8. CredKnown'
    BY <1>k, <2>2, <2>3, <2>4 DEF CredKnown
  <2>9. WritesGrow'
    BY <1>k, <2>2, <2>4, <2>6 DEF WritesGrow
  <2>10. MemoryFollows'
    BY <1>k, <2>2, <2>5 DEF MemoryFollows
  <2>11. ReadsFollow'
    <3> SUFFICES ASSUME NEW r \in Readers, push[r].at \in {"chain", "apply"}
                 PROVE  /\ push[r].after <= landed + Len(chain)
                        /\ Found(r)' \ passedOver' \subseteq written'
                        /\ written' \ Found(r)' \subseteq overtaken' \cup passedOver'
      BY <2>2 DEF ReadsFollow
    <3>1. e \in overtaken'
      BY <2>2 DEF refreshing
    <3>2. /\ push[r].after <= landed + Len(chain) /\ Found(r) \ passedOver \subseteq written
          /\ written \ Found(r) \subseteq overtaken \cup passedOver
      BY <1>k DEF ReadsFollow
    <3>3. Found(r)' \in {Found(r), Found(r) \cup {e}}
      BY <2>2, <2>4 DEF Found
    <3> QED BY <2>2, <2>5, <3>1, <3>2, <3>3
  <2>12. Sent'
    BY <1>k, <1>f, <2>2, <2>3 DEF Sent, SecretKindsOf, GitKindsOf, Readers
  <2> QED BY <2>8, <2>9, <2>10, <2>11, <2>12 DEF CredInv
<1>3. CASE Persisted
  <2>1. chain # <<>> /\ UNCHANGED <<held, keyEdits, push, secretsOf, gitOf, outside, overtaken, passedOver>>
    BY <1>3 DEF Persisted, ghosts
  <2>2. Len(chain) >= 1 /\ onDisk' = chain[1] /\ acked' = acked \cup chain[1] /\ landed' = landed + 1
    BY <1>k, <1>3 DEF Persisted, CredKnown
  <2>3. /\ chain' \in Seq(SUBSET Nat) /\ Len(chain') = Len(chain) - 1
        /\ \A i \in 1 .. Len(chain') : chain'[i] = chain[i + 1] /\ i + 1 \in 1 .. Len(chain)
    <3>1. chain \in Seq(SUBSET Nat) /\ chain # <<>> /\ chain' = Tail(chain)
      BY <1>k, <1>3 DEF Persisted, CredKnown
    <3> QED BY <3>1
  <2>4. 1 \in 1 .. Len(chain) /\ Edits' = Edits
    BY <1>k, <2>1, <2>2 DEF CredKnown, Edits
  <2>5. CredKnown'
    <3>1. \A i \in 1 .. Len(chain') : chain'[i] \subseteq Edits
      BY <1>k, <2>3 DEF CredKnown
    <3>2. onDisk' \subseteq Edits' /\ held' \subseteq Edits' /\ acked' \subseteq Edits'
      BY <1>k, <2>1, <2>2, <2>4 DEF CredKnown
    <3>3. \A r \in Readers : IsCall(push[r]) /\ push[r].after \in Nat /\ push[r].floor \subseteq acked'
      BY <1>k, <2>2 DEF CredKnown
    <3>4. landed' \in Nat
      BY <1>k, <2>2 DEF CredKnown
    <3> QED BY <1>k, <2>1, <2>3, <2>4, <3>1, <3>2, <3>3, <3>4 DEF CredKnown
  <2>6. WritesGrow'
    <3>1. acked' \ passedOver' \subseteq onDisk'
      BY <1>k, <2>1, <2>2, <2>4 DEF WritesGrow
    <3>2. \A i \in 1 .. Len(chain') : onDisk' \ passedOver' \subseteq chain'[i]
      <4>1. ASSUME NEW i \in 1 .. Len(chain') PROVE chain[1] \ passedOver \subseteq chain[i + 1]
        BY <1>k, <2>3, <2>4 DEF WritesGrow
      <4> QED BY <2>1, <2>2, <2>3, <4>1
    <3>3. \A i, j \in 1 .. Len(chain') : i <= j => chain'[i] \ passedOver' \subseteq chain'[j]
      <4> SUFFICES ASSUME NEW i \in 1 .. Len(chain'), NEW j \in 1 .. Len(chain'), i <= j
                   PROVE  chain'[i] \ passedOver' \subseteq chain'[j]
        OBVIOUS
      <4>1. i + 1 <= j + 1 /\ i + 1 \in 1 .. Len(chain) /\ j + 1 \in 1 .. Len(chain)
        BY <2>3
      <4> QED BY <1>k, <2>1, <2>3, <4>1 DEF WritesGrow
    <3> QED BY <3>1, <3>2, <3>3 DEF WritesGrow
  <2>7. written' \subseteq written /\ written \ passedOver \subseteq written'
    <3>1. written' \subseteq written
      BY <2>2, <2>3, <2>4 DEF written
    <3>2. onDisk \ passedOver \subseteq written'
      BY <1>k, <2>2, <2>4 DEF written, WritesGrow
    <3>3. ASSUME NEW i \in 1 .. Len(chain) PROVE chain[i] \subseteq written'
      <4>1. CASE i = 1
        BY <2>2, <4>1 DEF written
      <4>2. CASE i # 1
        <5>1. i - 1 \in 1 .. Len(chain') /\ (i - 1) + 1 = i
          BY <1>k, <2>3, <4>2 DEF CredKnown
        <5>2. chain'[i - 1] = chain[i]
          BY <2>3, <5>1
        <5> QED BY <5>1, <5>2 DEF written
      <4> QED BY <4>1, <4>2
    <3> QED BY <3>1, <3>2, <3>3 DEF written
  <2>8. MemoryFollows'
    BY <1>k, <2>1, <2>7 DEF MemoryFollows
  <2>9. ReadsFollow'
    <3> SUFFICES ASSUME NEW r \in Readers, push[r].at \in {"chain", "apply"}
                 PROVE  /\ push[r].after <= landed' + Len(chain')
                        /\ Found(r)' \ passedOver \subseteq written'
                        /\ written' \ Found(r)' \subseteq overtaken \cup passedOver
      BY <2>1 DEF ReadsFollow
    <3>1. /\ push[r].after \in Nat /\ push[r].after <= landed + Len(chain) /\ Found(r) \ passedOver \subseteq written
          /\ written \ Found(r) \subseteq overtaken \cup passedOver
      BY <1>k DEF ReadsFollow, CredKnown
    <3>2. push[r].after <= landed' + Len(chain')
      BY <1>k, <2>2, <2>3, <3>1 DEF CredKnown
    <3>3. Found(r) \ passedOver \subseteq Found(r)'
      <4>1. CASE push[r].at = "apply"
        BY <2>1, <4>1 DEF Found
      <4>2. CASE push[r].at # "apply" /\ push[r].after <= landed
        <5>1. Found(r) = onDisk /\ Found(r)' = onDisk'
          BY <1>k, <2>1, <2>2, <3>1, <4>2 DEF Found, CredKnown
        <5> QED BY <1>k, <2>2, <2>4, <5>1 DEF WritesGrow
      <4>3. CASE push[r].at # "apply" /\ push[r].after = landed + 1
        BY <1>k, <2>1, <2>2, <3>1, <4>3 DEF Found, CredKnown
      <4>4. CASE push[r].at # "apply" /\ push[r].after > landed + 1
        <5> DEFINE n == push[r].after - landed
        <5>1. n \in 1 .. Len(chain) /\ n - 1 \in 1 .. Len(chain') /\ (n - 1) + 1 = n /\ push[r].after - landed' = n - 1
          BY <1>k, <2>2, <2>3, <3>1, <4>4 DEF CredKnown
        <5>2. Found(r) = chain[n] /\ Found(r)' = chain'[n - 1]
          BY <1>k, <2>1, <2>2, <3>1, <4>4, <5>1 DEF Found, CredKnown
        <5> QED BY <2>3, <5>1, <5>2
      <4> QED BY <1>k, <3>1, <4>1, <4>2, <4>3, <4>4 DEF CredKnown
    <3>4. Found(r)' \ passedOver \subseteq written'
      <4>1. CASE push[r].at = "apply"
        BY <2>1, <2>7, <3>1, <4>1 DEF Found
      <4>2. CASE push[r].at # "apply"
        <5>1. Found(r)' = onDisk' \/ push[r].after - landed' \in 1 .. Len(chain')
          BY <2>1, <2>5, <3>2, <4>2 DEF Found, CredKnown
        <5> QED BY <2>1, <4>2, <5>1 DEF Found, written
      <4> QED BY <4>1, <4>2
    <3> QED BY <2>7, <3>1, <3>2, <3>3, <3>4
  <2>10. Sent'
    BY <1>k, <2>1 DEF Sent, SecretKindsOf, GitKindsOf
  <2> QED BY <2>5, <2>6, <2>8, <2>9, <2>10 DEF CredInv
<1>4. CASE \E r \in Readers : Call(r)
  <2>1. PICK r \in Readers : Call(r)
    BY <1>4
  <2>2. /\ push' = [push EXCEPT ![r] = [at |-> "chain", after |-> landed + Len(chain), copy |-> {}, floor |-> acked]]
        /\ UNCHANGED <<held, onDisk, chain, landed, keyEdits, acked, secretsOf, gitOf, outside, overtaken, passedOver>>
    BY <2>1 DEF Call, ghosts
  <2>3. /\ push' = [q \in Readers |-> push'[q]]
        /\ push'[r] = [at |-> "chain", after |-> landed + Len(chain), copy |-> {}, floor |-> acked]
        /\ \A q \in Readers : q # r => push'[q] = push[q]
    BY <1>k, <2>2 DEF CredKnown
  <2>4. IsCall(push'[r]) /\ push'[r].at = "chain" /\ push'[r].after = landed + Len(chain) /\ push'[r].floor = acked
    BY <2>3 DEF IsCall
  <2>5. CredKnown'
    BY <1>k, <2>2, <2>3, <2>4 DEF CredKnown, Edits
  <2>6. WritesGrow' /\ MemoryFollows' /\ written' = written
    BY <1>k, <2>2 DEF WritesGrow, MemoryFollows, written
  <2>7. Found(r)' \subseteq written /\ written \ Found(r)' \subseteq passedOver
    <3>1. CASE Len(chain) = 0
      <4>1. Found(r)' = onDisk /\ written = onDisk
        BY <1>k, <2>2, <2>4, <3>1 DEF Found, written, CredKnown
      <4> QED BY <4>1
    <3>2. CASE Len(chain) > 0
      <4>1. Found(r)' = chain[Len(chain)] /\ Len(chain) \in 1 .. Len(chain)
        BY <1>k, <2>2, <2>4, <3>2 DEF Found, CredKnown
      <4>2. \A i \in 1 .. Len(chain) : chain[i] \ passedOver \subseteq chain[Len(chain)]
        BY <1>k, <4>1 DEF WritesGrow, CredKnown
      <4>3. onDisk \ passedOver \subseteq chain[Len(chain)]
        BY <1>k, <4>1 DEF WritesGrow
      <4> QED BY <4>1, <4>2, <4>3 DEF written
    <3> QED BY <1>k, <3>1, <3>2 DEF CredKnown
  <2>8. ReadsFollow'
    <3>1. \A q \in Readers : q # r => Found(q)' = Found(q)
      BY <2>2, <2>3 DEF Found
    <3>2. push'[r].after <= landed + Len(chain)
      BY <1>k, <2>4 DEF CredKnown
    <3> QED BY <1>k, <2>2, <2>3, <2>6, <2>7, <3>1, <3>2 DEF ReadsFollow
  <2>9. Sent'
    BY <1>k, <2>2, <2>3, <2>4 DEF Sent, Readers, SecretKindsOf, GitKindsOf
  <2> QED BY <2>5, <2>6, <2>8, <2>9 DEF CredInv
<1>5. CASE \E r \in Readers : ReadFile(r)
  <2>1. PICK r \in Readers : ReadFile(r)
    BY <1>5
  <2>2. /\ push[r].at = "chain" /\ landed >= push[r].after
        /\ push' = [push EXCEPT ![r].at = "apply", ![r].copy = onDisk]
        /\ UNCHANGED <<held, onDisk, chain, landed, keyEdits, acked, secretsOf, gitOf, outside, overtaken, passedOver>>
    BY <2>1 DEF ReadFile, ghosts
  <2>3. /\ push' = [q \in Readers |-> push'[q]]
        /\ IsCall(push'[r]) /\ push'[r].at = "apply" /\ push'[r].copy = onDisk
        /\ push'[r].after = push[r].after /\ push'[r].floor = push[r].floor
        /\ \A q \in Readers : q # r => push'[q] = push[q]
    <3>1. Carries(push', push, r, "apply", onDisk)
      BY <2>2 DEF Carries
    <3>2. push = [q \in Readers |-> push[q]] /\ IsCall(push[r])
      BY <1>k DEF CredKnown
    <3> QED BY <3>1, <3>2, CallCarries
  <2>4. CredKnown'
    BY <1>k, <2>2, <2>3 DEF CredKnown, Edits
  <2>5. WritesGrow' /\ MemoryFollows' /\ written' = written
    BY <1>k, <2>2 DEF WritesGrow, MemoryFollows, written
  <2>6. ReadsFollow'
    <3>1. \A q \in Readers : q # r => Found(q)' = Found(q)
      BY <2>2, <2>3 DEF Found
    <3>2. Found(r) = onDisk /\ Found(r)' = onDisk
      BY <1>k, <2>2, <2>3 DEF Found, CredKnown
    <3> QED BY <1>k, <2>2, <2>3, <2>5, <3>1, <3>2 DEF ReadsFollow
  <2>7. Sent'
    <3>1. push'[r].floor \ passedOver \subseteq onDisk
      BY <1>k, <2>3 DEF CredKnown, WritesGrow
    <3> QED BY <1>k, <2>2, <2>3, <3>1 DEF Sent, Readers, SecretKindsOf, GitKindsOf
  <2> QED BY <2>4, <2>5, <2>6, <2>7 DEF CredInv
<1>6. CASE \E r \in Readers : Refreshed(r)
  <2>1. PICK r \in Readers : Refreshed(r)
    BY <1>6
  <2>2. /\ push[r].at = "apply" /\ held' = push[r].copy
        /\ push' = [push EXCEPT ![r] = IF r = "page" THEN NoCall ELSE [push[r] EXCEPT !.at = "secrets"]]
        /\ UNCHANGED <<onDisk, chain, landed, keyEdits, acked, secretsOf, gitOf, outside, overtaken, passedOver>>
    BY <2>1 DEF Refreshed, ghosts
  <2>3. held' \ passedOver \subseteq written /\ written \ held' \subseteq overtaken \cup passedOver
    BY <1>k, <2>2 DEF ReadsFollow, Found
  <2>4. /\ push' = [q \in Readers |-> push'[q]]
        /\ \A q \in Readers : q # r => push'[q] = push[q]
        /\ push'[r] = IF r = "page" THEN NoCall ELSE [push[r] EXCEPT !.at = "secrets"]
    BY <1>k, <2>2 DEF CredKnown
  <2>5. /\ IsCall(push'[r]) /\ push'[r].at \in {"idle", "secrets"} /\ push'[r].after \in Nat
        /\ push'[r].floor \subseteq push[r].floor
        /\ push'[r].at = "secrets" => push'[r].copy = push[r].copy
    <3>1. CASE r = "page"
      BY <2>4, <3>1 DEF NoCall, IsCall
    <3>2. CASE r # "page"
      BY <1>k, <2>4, <3>2 DEF IsCall, CredKnown
    <3> QED BY <3>1, <3>2
  <2>6. CredKnown'
    <3>1. held' \subseteq Edits
      <4>1. written \subseteq Edits
        BY <1>k DEF CredKnown, written
      <4> QED BY <1>k, <2>3, <4>1 DEF CredKnown
    <3> QED BY <1>k, <2>2, <2>4, <2>5, <3>1 DEF CredKnown, Edits
  <2>7. WritesGrow' /\ MemoryFollows' /\ written' = written
    BY <1>k, <2>2, <2>3 DEF WritesGrow, MemoryFollows, written
  <2>8. ReadsFollow'
    <3>1. \A q \in Readers : q # r => Found(q)' = Found(q)
      BY <2>2, <2>4 DEF Found
    <3> QED BY <1>k, <2>2, <2>4, <2>5, <2>7, <3>1 DEF ReadsFollow
  <2>9. Sent'
    <3>1. \A q \in Readers : push'[q].floor \ (passedOver \cup overtaken) \subseteq held'
      <4>1. \A q \in Readers : push'[q].floor \subseteq acked
        BY <1>k, <2>4, <2>5 DEF CredKnown
      <4>2. acked \ passedOver \subseteq written
        BY <1>k DEF WritesGrow, written
      <4> QED BY <2>3, <4>1, <4>2
    <3>2. push'[r].at = "secrets" => push'[r].floor \ passedOver \subseteq push'[r].copy
      BY <1>k, <2>2, <2>5 DEF Sent
    <3> QED BY <1>k, <2>2, <2>4, <2>5, <3>1, <3>2 DEF Sent, Readers, SecretKindsOf, GitKindsOf
  <2> QED BY <2>6, <2>7, <2>8, <2>9 DEF CredInv
<1>7. CASE \E s \in Sessions : SetSecrets(s)
  <2>1. PICK s \in Sessions : SetSecrets(s)
    BY <1>7
  <2>2. /\ push[s].at = "secrets" /\ push' = [push EXCEPT ![s].at = "git", ![s].copy = {}] /\ s \in Readers
        /\ secretsOf' = [secretsOf EXCEPT ![s] = secrets(s, push[s].copy)]
        /\ UNCHANGED <<held, onDisk, chain, landed, keyEdits, acked, gitOf, outside, overtaken, passedOver>>
    BY <2>1 DEF SetSecrets, ghosts, Readers
  <2>3. /\ push' = [q \in Readers |-> push'[q]]
        /\ IsCall(push'[s]) /\ push'[s].at = "git"
        /\ push'[s].after = push[s].after /\ push'[s].floor = push[s].floor
        /\ \A q \in Readers : q # s => push'[q] = push[q]
    <3>1. Carries(push', push, s, "git", {})
      BY <2>2 DEF Carries
    <3>2. push = [q \in Readers |-> push[q]] /\ IsCall(push[s])
      BY <1>k, <2>2 DEF CredKnown
    <3> QED BY <2>2, <3>1, <3>2, CallCarries
  <2>4. \A e \in push[s].floor \ passedOver : keyEdits[e] \in SecretKindsOf(s) => e \in secretsOf'[s]
    BY <1>k, <2>2 DEF CredKnown, Sent, secrets, ofKind, SecretKindsOf
  <2>5. CredKnown'
    BY <1>k, <2>2, <2>3 DEF CredKnown, Edits
  <2>6. WritesGrow' /\ MemoryFollows' /\ written' = written
    BY <1>k, <2>2 DEF WritesGrow, MemoryFollows, written
  <2>7. ReadsFollow'
    <3>1. \A q \in Readers : q # s => Found(q)' = Found(q)
      BY <2>2, <2>3 DEF Found
    <3> QED BY <1>k, <2>2, <2>3, <2>6, <3>1 DEF ReadsFollow
  <2>8. Sent'
    <3>1. \A t \in Sessions : t # s => secretsOf'[t] = secretsOf[t]
      BY <1>k, <2>2 DEF CredKnown
    <3> QED BY <1>k, <2>2, <2>3, <2>4, <3>1 DEF Sent, Readers, SecretKindsOf, GitKindsOf
  <2> QED BY <2>5, <2>6, <2>7, <2>8 DEF CredInv
<1>8. CASE \E s \in Sessions : SetGitCredentials(s)
  <2>1. PICK s \in Sessions : SetGitCredentials(s)
    BY <1>8
  <2>2. /\ push[s].at = "git" /\ push' = [push EXCEPT ![s].at = "ready"] /\ s \in Readers
        /\ gitOf' = [gitOf EXCEPT ![s] = gitCredentials(s, held)]
        /\ UNCHANGED <<held, onDisk, chain, landed, keyEdits, acked, secretsOf, outside, overtaken, passedOver>>
    BY <2>1 DEF SetGitCredentials, ghosts, Readers
  <2>3. /\ push' = [q \in Readers |-> push'[q]]
        /\ IsCall(push'[s]) /\ push'[s].at = "ready" /\ push'[s].copy = push[s].copy
        /\ push'[s].after = push[s].after /\ push'[s].floor = push[s].floor
        /\ \A q \in Readers : q # s => push'[q] = push[q]
    <3>1. Begun(push', push, s, "ready")
      BY <2>2 DEF Begun
    <3>2. push = [q \in Readers |-> push[q]] /\ IsCall(push[s])
      BY <1>k, <2>2 DEF CredKnown
    <3> QED BY <2>2, <3>1, <3>2, CallGoesOn
  <2>4. \A e \in push[s].floor \ (passedOver \cup overtaken) : keyEdits[e] \in GitKindsOf(s) => e \in gitOf'[s]
    BY <1>k, <2>2 DEF CredKnown, Sent, gitCredentials, ofKind, GitKindsOf
  <2>5. CredKnown'
    BY <1>k, <2>2, <2>3 DEF CredKnown, Edits
  <2>6. WritesGrow' /\ MemoryFollows' /\ written' = written
    BY <1>k, <2>2 DEF WritesGrow, MemoryFollows, written
  <2>7. ReadsFollow'
    <3>1. \A q \in Readers : q # s => Found(q)' = Found(q)
      BY <2>2, <2>3 DEF Found
    <3> QED BY <1>k, <2>2, <2>3, <2>6, <3>1 DEF ReadsFollow
  <2>8. Sent'
    <3>1. \A t \in Sessions : t # s => gitOf'[t] = gitOf[t]
      BY <1>k, <2>2 DEF CredKnown
    <3> QED BY <1>k, <2>2, <2>3, <2>4, <3>1 DEF Sent, Readers, SecretKindsOf, GitKindsOf
  <2> QED BY <2>5, <2>6, <2>7, <2>8 DEF CredInv
<1>9. CASE \E s \in Sessions : PushFails(s) \/ RunnerRestarts(s)
  <2>1. PICK s \in Sessions : PushFails(s) \/ RunnerRestarts(s)
    BY <1>9
  <2>2. /\ push' = [push EXCEPT ![s] = NoCall] /\ s \in Readers
        /\ UNCHANGED <<held, onDisk, chain, landed, keyEdits, acked, outside, overtaken, passedOver>>
        /\ secretsOf' \in {secretsOf, [secretsOf EXCEPT ![s] = {}]} /\ gitOf' \in {gitOf, [gitOf EXCEPT ![s] = {}]}
    BY <2>1 DEF PushFails, RunnerRestarts, ghosts, Readers
  <2>3. /\ push' = [q \in Readers |-> push'[q]] /\ push'[s] = NoCall
        /\ \A q \in Readers : q # s => push'[q] = push[q]
    BY <1>k, <2>2 DEF CredKnown
  <2>4. IsCall(push'[s]) /\ push'[s].at = "idle" /\ push'[s].after \in Nat /\ push'[s].floor = {}
    BY <2>3 DEF NoCall, IsCall
  <2>0. /\ secretsOf' = [t \in Sessions |-> secretsOf'[t]] /\ gitOf' = [t \in Sessions |-> gitOf'[t]]
        /\ \A t \in Sessions : t # s => secretsOf'[t] = secretsOf[t] /\ gitOf'[t] = gitOf[t]
    BY <1>k, <2>2 DEF CredKnown
  <2>5. CredKnown'
    BY <1>k, <2>0, <2>2, <2>3, <2>4 DEF CredKnown, Edits
  <2>6. WritesGrow' /\ MemoryFollows' /\ written' = written
    BY <1>k, <2>2 DEF WritesGrow, MemoryFollows, written
  <2>7. ReadsFollow'
    <3>1. \A q \in Readers : q # s => Found(q)' = Found(q)
      BY <2>2, <2>3 DEF Found
    <3> QED BY <1>k, <2>2, <2>3, <2>4, <2>6, <3>1 DEF ReadsFollow
  <2>8. Sent'
    BY <1>k, <2>0, <2>2, <2>3, <2>4 DEF Sent, Readers, SecretKindsOf, GitKindsOf
  <2> QED BY <2>5, <2>6, <2>7, <2>8 DEF CredInv
<1>10. CASE UNCHANGED credVars
  <2>0. /\ UNCHANGED <<held, onDisk, chain, landed, keyEdits, acked, push, secretsOf, gitOf>>
        /\ UNCHANGED <<outside, overtaken, passedOver>>
    BY <1>10 DEF credVars, ghosts
  <2>1. CredKnown' /\ WritesGrow' /\ MemoryFollows'
    BY <1>k, <2>0 DEF CredKnown, Edits, WritesGrow, MemoryFollows, written
  <2>2. written' = written /\ \A r \in Readers : Found(r)' = Found(r)
    BY <2>0 DEF written, Found
  <2>3. ReadsFollow'
    BY <1>k, <2>0, <2>2 DEF ReadsFollow
  <2>4. Sent'
    BY <1>k, <2>0 DEF Sent, SecretKindsOf, GitKindsOf
  <2> QED BY <2>1, <2>3, <2>4 DEF CredInv
<1> QED BY <1>1, <1>2, <1>3, <1>4, <1>5, <1>6, <1>7, <1>8, <1>9, <1>10 DEF CredNext

\* The file keeps every answered edit that no write of the host passed over,
\* and a command runs with all of them that were answered before its call
\* began, in its git table short of those a refresh overtook, for any
\* interleaving of edits, writes, refreshes and pushes of the host and the CLI.
THEOREM EditsReachHolds == CredSpec => []EditsReach
<1>1. CredInit => CredInv
  <2> SUFFICES ASSUME CredInit PROVE CredInv
    OBVIOUS
  <2>1. \A r \in Readers : push[r] = NoCall
    BY DEF CredInit
  <2>2. \A r \in Readers : IsCall(push[r]) /\ push[r].at = "idle" /\ push[r].after = 0 /\ push[r].floor = {}
    BY <2>1 DEF NoCall, IsCall
  <2> QED BY <2>2 DEF CredInit, CredInv, CredKnown, WritesGrow, MemoryFollows, ReadsFollow, written, Sent, Readers, Edits
<1>2. CredInv => EditsReach
  <2> SUFFICES ASSUME CredInv PROVE EditsReach
    OBVIOUS
  <2>1. acked \ passedOver \subseteq onDisk
    BY DEF CredInv, WritesGrow
  <2>2. ASSUME NEW s \in Sessions, push[s].at = "ready"
        PROVE /\ push[s].floor \cap secrets(s, acked \ passedOver) \subseteq secretsOf[s]
              /\ push[s].floor \cap gitCredentials(s, acked \ (passedOver \cup overtaken)) \subseteq gitOf[s]
    BY <2>2 DEF CredInv, Sent, secrets, gitCredentials, ofKind, SecretKindsOf, GitKindsOf
  <2> QED BY <2>1, <2>2 DEF EditsReach
<1> QED BY <1>1, <1>2, CredInvStep, PTL DEF CredSpec

-----------------------------------------------------------------------------
(***************************************************************************)
(* SessionTools, for any agents, presets and offers.                       *)
(***************************************************************************)

CrewInv == presetOf = [a \in Crew |-> presetOf[a]] /\ alive \subseteq Crew /\ ToolsFollow

\* The agents with the tools are the ones that may have them whenever no
\* reconcile waits, after any sequence of joins, moves and reloads.
THEOREM ToolsFollowHolds == ToolsSpec => []ToolsFollow
<1>1. ToolsInit => CrewInv
  BY DEF ToolsInit, CrewInv, ToolsFollow
<1>2. CrewInv /\ [ToolsNext]_toolVars => CrewInv'
  <2> SUFFICES ASSUME CrewInv, [ToolsNext]_toolVars PROVE CrewInv'
    OBVIOUS
  <2> USE DEF CrewInv, ToolsFollow, allowed
  <2>1. CASE \E a \in Crew, p \in Presets : AgentJoins(a, p) \/ Rebind(a, p)
    BY <2>1 DEF AgentJoins, Rebind
  <2>2. CASE \E a \in Crew : AgentLeaves(a)
    BY <2>2 DEF AgentLeaves
  <2>3. CASE reconcile \/ Reload
    BY <2>3 DEF reconcile, Reload
  <2>4. CASE UNCHANGED crewVars
    BY <2>4 DEF crewVars
  <2>5. ASSUME ~(\E a \in Crew, p \in Presets : AgentJoins(a, p) \/ Rebind(a, p)),
               ~(\E a \in Crew : AgentLeaves(a)), ~(reconcile \/ Reload)
        PROVE  UNCHANGED crewVars
    BY <2>5 DEF ToolsNext, toolVars, Offer, CreateSession, CheckOffers, Create, SetProfile, SelectModel,
                FirstPrompt, MessageSession, InterruptSession, KidTurn, WaitSession, Poll, Sleep, WaitReturns
  <2> QED BY <2>1, <2>2, <2>3, <2>4, <2>5
<1>3. CrewInv => ToolsFollow
  BY DEF CrewInv
<1> QED BY <1>1, <1>2, <1>3, PTL DEF ToolsSpec

\* The records of a child and of the call that makes it.
Kid(k) == k = [there |-> k.there, profile |-> k.profile, model |-> k.model, inbox |-> k.inbox, running |-> k.running]
Order(o) == o = [at |-> o.at, profile |-> o.profile, model |-> o.model, prompt |-> o.prompt, failed |-> o.failed]

Moved(K, k, i, r) == K = [k EXCEPT !.inbox = i, !.running = r]

\* A child whose inbox and turn change keeps the rest.
LEMMA KidMoves ==
  ASSUME NEW k, Kid(k), NEW i, NEW r, NEW K, Moved(K, k, i, r)
  PROVE  Kid(K) /\ K.there = k.there /\ K.profile = k.profile /\ K.model = k.model /\ K.inbox = i /\ K.running = r
<1>1. K = [there |-> k.there, profile |-> k.profile, model |-> k.model, inbox |-> i, running |-> r]
  BY DEF Kid, Moved
<1> QED BY <1>1 DEF Kid

\* What a child has been given by the time its creation has come so far, and
\* that it has no message before its settings are made.
KidInv ==
  /\ Kid(kid) /\ Order(order)
  /\ kid.inbox \in Nat /\ tellings \in Nat
  /\ order.at # "done" => tellings = 0 /\ kid.inbox = 0 /\ ~kid.running
  /\ order.at \in {"model", "prompt"} /\ ~order.failed => kid.profile = order.profile
  /\ order.at = "prompt" /\ ~order.failed => kid.model = order.model
  /\ order.at \in {"idle", "check", "create", "profile", "model", "prompt", "done"}
  /\ tellings = 0 /\ (kid.running \/ kid.inbox > 0) => kid.profile = order.profile /\ kid.model = order.model

\* A child works on its creator's prompt with the profile and the model asked
\* for, whatever is withdrawn while the session is made.
THEOREM SettingsFirstHolds == ToolsSpec => []SettingsFirst
<1>1. ToolsInit => KidInv
  BY DEF ToolsInit, KidInv, Kid, Order, NoKid, NoOrder, AnyOffer
<1>2. KidInv /\ [ToolsNext]_toolVars => KidInv'
  <2> SUFFICES ASSUME KidInv, [ToolsNext]_toolVars PROVE KidInv'
    OBVIOUS
  <2> USE DEF KidInv
  <2>1. CASE \E profile, model \in Offers \cup {AnyOffer}, prompt \in BOOLEAN : CreateSession(profile, model, prompt)
    BY <2>1 DEF CreateSession, Order
  <2>0. Kid(kid) /\ Order(order)
    BY DEF Kid, Order
  <2>2. CASE CheckOffers
    <3>1. \/ order' = [at |-> "create", profile |-> order.profile, model |-> order.model, prompt |-> order.prompt, failed |-> order.failed]
          \/ order' = NoOrder
      BY <2>0, <2>2 DEF CheckOffers, Order
    <3>2. order'.at \in {"create", "idle"} /\ order.at = "check" /\ Order(order')
      BY <2>2, <3>1 DEF CheckOffers, NoOrder, Order
    <3> QED BY <2>2, <3>1, <3>2 DEF CheckOffers, NoOrder, Order
  <2>3. CASE Create
    <3>1. kid' = [there |-> TRUE, profile |-> AnyOffer, model |-> AnyOffer, inbox |-> 0, running |-> FALSE]
      BY <2>3 DEF Create, NoKid
    <3>2. order'.at = "profile" /\ Order(order')
      BY <2>0, <2>3 DEF Create, Order
    <3>3. Kid(kid') /\ kid'.inbox = 0 /\ ~kid'.running
      BY <3>1 DEF Kid
    <3> QED BY <2>3, <3>2, <3>3 DEF Create
  <2>4. CASE SetProfile
    <3>1. /\ Order(order') /\ order'.at = "model" /\ order'.profile = order.profile
          /\ ~order'.failed => order.profile \in offered \cup {AnyOffer}
      BY <2>0, <2>4 DEF SetProfile, Order
    <3>2. /\ Kid(kid') /\ kid'.inbox = kid.inbox /\ kid'.running = kid.running
          /\ order.profile \in offered \cup {AnyOffer} => kid'.profile = order.profile
      BY <2>0, <2>4 DEF SetProfile, Kid
    <3> QED BY <2>4, <3>1, <3>2 DEF SetProfile
  <2>5. CASE SelectModel
    <3>1. /\ Order(order') /\ order'.at = "prompt" /\ order'.profile = order.profile /\ order'.model = order.model
          /\ ~order'.failed => ~order.failed /\ order.model \in offered \cup {AnyOffer}
      BY <2>0, <2>5 DEF SelectModel, Order
    <3>2. /\ Kid(kid') /\ kid'.inbox = kid.inbox /\ kid'.running = kid.running /\ kid'.profile = kid.profile
          /\ order.model \in offered \cup {AnyOffer} => kid'.model = order.model
      BY <2>0, <2>5 DEF SelectModel, Kid
    <3> QED BY <2>5, <3>1, <3>2 DEF SelectModel
  <2>6. CASE FirstPrompt
    <3>1. /\ Order(order') /\ order'.at = "done" /\ order'.profile = order.profile /\ order'.model = order.model
      BY <2>0, <2>6 DEF FirstPrompt, Order
    <3>2. /\ Kid(kid') /\ kid'.profile = kid.profile /\ kid'.model = kid.model /\ kid'.inbox \in Nat
          /\ \/ ~order.failed
             \/ kid' = kid
      <4>1. CASE ~order.failed /\ sendMessage(FALSE)
        <5>1. PICK i, r : i = kid.inbox + 1 /\ Moved(kid', kid, i, r)
          BY <4>1 DEF sendMessage, Moved
        <5> QED BY <2>0, <4>1, <5>1, KidMoves
      <4> QED BY <2>0, <2>6, <4>1 DEF FirstPrompt
    <3> QED BY <2>6, <3>1, <3>2 DEF FirstPrompt
  <2>7. CASE \E steer \in BOOLEAN : MessageSession(steer)
    <3>1. Kid(kid') /\ kid'.inbox \in Nat /\ order.at = "done" /\ tellings' = tellings + 1 /\ UNCHANGED order
      <4>1. PICK i, r : i = kid.inbox + 1 /\ Moved(kid', kid, i, r)
        BY <2>7 DEF MessageSession, sendMessage, Moved
      <4> QED BY <2>0, <2>7, <4>1, KidMoves DEF MessageSession
    <3> QED BY <3>1
  <2>8. CASE InterruptSession
    <3>1. Kid(kid') /\ kid'.profile = kid.profile /\ kid'.model = kid.model /\ kid'.inbox = kid.inbox /\ ~kid'.running
      BY <2>0, <2>8 DEF InterruptSession, Kid
    <3> QED BY <2>8, <3>1 DEF InterruptSession
  <2>9. CASE KidTurn
    <3>1. /\ Kid(kid') /\ kid'.profile = kid.profile /\ kid'.model = kid.model /\ kid'.inbox \in Nat
          /\ kid'.there = kid.there /\ (kid.running \/ kid.inbox > 0)
      <4>1. CASE kid.running /\ kid' = [kid EXCEPT !.running = FALSE]
        BY <2>0, <4>1 DEF Kid
      <4>2. CASE kid.inbox > 0 /\ kid' = [kid EXCEPT !.running = TRUE, !.inbox = @ - 1]
        <5>1. PICK i, r : i = kid.inbox - 1 /\ Moved(kid', kid, i, r)
          BY <2>0, <4>2 DEF Kid, Moved
        <5> QED BY <2>0, <4>2, <5>1, KidMoves
      <4> QED BY <2>9, <4>1, <4>2 DEF KidTurn
    <3> QED BY <2>9, <3>1 DEF KidTurn
  <2>10. CASE UNCHANGED <<order, kid, tellings>>
    BY <2>10
  <2> QED BY <2>1, <2>2, <2>3, <2>4, <2>5, <2>6, <2>7, <2>8, <2>9, <2>10
          DEF ToolsNext, toolVars, kidVars, AgentJoins, Rebind, AgentLeaves, reconcile, Reload, Offer,
              WaitSession, Poll, Sleep, WaitReturns
<1>3. KidInv => SettingsFirst
  BY DEF KidInv, SettingsFirst
<1> QED BY <1>1, <1>2, <1>3, PTL DEF ToolsSpec

-----------------------------------------------------------------------------
(***************************************************************************)
(* ProfileSettings, for any names, deployment and sessions.                *)
(***************************************************************************)

IsVisit(d) == d = [at |-> d.at, name |-> d.name, profile |-> d.profile, edits |-> d.edits, whole |-> d.whole]

\* The registry holds what was applied last, which is the last version that
\* could be served, and every backend was built for the profile registered.
RegistryWhole ==
  /\ registry = applied /\ registry = good
  /\ builtFor = [n \in DOMAIN registry |-> registry[n]] /\ registry = [n \in DOMAIN registry |-> registry[n]]

\* As long as nobody edits the settings after its call synchronised them, a
\* session whose settings could be served finds them in the registry.
Synchronised ==
  \A s \in Rooms :
    doing[s].at \in {"queued", "picked"} /\ doing[s].edits = pageEdits /\ doing[s].whole => registry = profiles
PickedNow ==
  \A s \in Rooms :
    doing[s].at = "picked" /\ doing[s].edits = pageEdits =>
      doing[s].name \in DOMAIN profiles /\ doing[s].profile = profiles[doing[s].name]
VisitsTyped ==
  /\ pageEdits \in Nat /\ doing = [s \in Rooms |-> doing[s]]
  /\ \A s \in Rooms : IsVisit(doing[s]) /\ doing[s].edits \in Nat /\ doing[s].edits <= pageEdits
PickInv == RegistryWhole /\ VisitsTyped /\ Synchronised /\ PickedNow

Started(e, n, w) == e = [AtRest EXCEPT !.at = "queued", !.edits = n, !.whole = w]
HasPicked(e, d, n, p) == e = [d EXCEPT !.at = "picked", !.name = n, !.profile = p]
MovedOn(e, d, a) == e = [d EXCEPT !.at = a]

\* The steps of one call.
LEMMA VisitStarts ==
  ASSUME NEW e, NEW n, NEW w, Started(e, n, w)
  PROVE  IsVisit(e) /\ e.at = "queued" /\ e.edits = n /\ e.whole = w
<1>1. e = [at |-> "queued", name |-> 0, profile |-> 0, edits |-> n, whole |-> w]
  BY DEF Started, AtRest
<1> QED BY <1>1 DEF IsVisit

\* A call that has picked carries what it picked.
LEMMA VisitPicks ==
  ASSUME NEW e, NEW d, IsVisit(d), NEW n, NEW p, HasPicked(e, d, n, p)
  PROVE  IsVisit(e) /\ e.at = "picked" /\ e.name = n /\ e.profile = p /\ e.edits = d.edits /\ e.whole = d.whole
<1>1. e = [at |-> "picked", name |-> n, profile |-> p, edits |-> d.edits, whole |-> d.whole]
  BY DEF HasPicked, IsVisit
<1> QED BY <1>1 DEF IsVisit

\* A call that moves on keeps what it carries.
LEMMA VisitMovesOn ==
  ASSUME NEW e, NEW d, IsVisit(d), NEW a, MovedOn(e, d, a)
  PROVE  IsVisit(e) /\ e.at = a /\ e.edits = d.edits
<1>1. e = [at |-> a, name |-> d.name, profile |-> d.profile, edits |-> d.edits, whole |-> d.whole]
  BY DEF MovedOn, IsVisit
<1> QED BY <1>1 DEF IsVisit

\* A session at rest carries nothing.
LEMMA VisitRests == IsVisit(AtRest) /\ AtRest.at = "rest" /\ AtRest.edits = 0
  BY DEF IsVisit, AtRest

\* The profiles are a function of the settings alone.
LEMMA ProfilesStay == ASSUME UNCHANGED pageVars PROVE profiles' = profiles /\ (boots /\ UNCHANGED kubeconfig => boots')
  BY DEF pageVars, profiles, raw, resolveProfile, readyTimeout, boots, buildable

\* A step that edits nothing, moves only the session s, and leaves the
\* registry or brings it up to date.
LEMMA OthersStay ==
  ASSUME PickInv, UNCHANGED <<pageVars, pageEdits>>, RegistryWhole',
         registry' = registry \/ registry' = profiles,
         NEW s \in Rooms, NEW d, doing' = [doing EXCEPT ![s] = d],
         IsVisit(d), d.edits \in Nat, d.edits <= pageEdits,
         d.at \in {"queued", "picked"} /\ d.edits = pageEdits /\ d.whole => registry' = profiles,
         d.at = "picked" /\ d.edits = pageEdits => d.name \in DOMAIN profiles /\ d.profile = profiles[d.name]
  PROVE  PickInv'
<1>1. profiles' = profiles /\ pageEdits' = pageEdits
  BY ProfilesStay
<1>2. doing' = [t \in Rooms |-> doing'[t]] /\ doing'[s] = d /\ \A t \in Rooms : t # s => doing'[t] = doing[t]
  BY DEF PickInv, VisitsTyped
<1>3. VisitsTyped'
  BY <1>1, <1>2 DEF PickInv, VisitsTyped
<1>4. Synchronised'
  BY <1>1, <1>2 DEF PickInv, Synchronised
<1>5. PickedNow'
  BY <1>1, <1>2 DEF PickInv, PickedNow
<1> QED BY <1>3, <1>4, <1>5 DEF PickInv

\* A step that edits nothing, moves no call and leaves the registry.
LEMMA AllStay ==
  ASSUME PickInv, UNCHANGED <<pageVars, pageEdits, registry, builtFor, applied, good, doing>>
  PROVE  PickInv'
<1>1. profiles' = profiles
  BY ProfilesStay
<1> QED BY <1>1 DEF PickInv, RegistryWhole, VisitsTyped, Synchronised, PickedNow

\* PickInv is kept by every step.
LEMMA PickInvStep == PickInv /\ [SettingsNext]_settingVars => PickInv'
<1> SUFFICES ASSUME PickInv, [SettingsNext]_settingVars PROVE PickInv'
  OBVIOUS
<1>1. CASE (\E n \in Names, kind \in BackendKinds \cup {"none"} : EditProfile(n, kind))
           \/ (\E n \in Names \cup {0}, r \in {"unset", "long", "negative"} : EditScalar(n, r))
  <2>1. pageEdits' = pageEdits + 1 /\ UNCHANGED <<registry, builtFor, applied, good, doing>>
    BY <1>1 DEF EditProfile, EditScalar, hostVars
  <2>2. \A s \in Rooms : doing'[s].edits # pageEdits'
    BY <2>1 DEF PickInv, VisitsTyped
  <2>3. RegistryWhole'
    BY <2>1 DEF PickInv, RegistryWhole
  <2>4. VisitsTyped'
    BY <2>1 DEF PickInv, VisitsTyped
  <2> QED BY <2>1, <2>2, <2>3, <2>4 DEF PickInv, Synchronised, PickedNow
<1>2. CASE getSandboxSettings \/ KubeconfigMoves
  BY <1>2, AllStay DEF getSandboxSettings, KubeconfigMoves, hostVars
<1>3. CASE Boot
  <2>1. doing' = [s \in Rooms |-> AtRest] /\ pageEdits' = pageEdits /\ registry' = profiles /\ builtFor' = profiles /\ applied' = profiles
        /\ good' = profiles
    BY <1>3 DEF Boot
  <2>2. \A s \in Rooms : doing'[s] = AtRest
    BY <2>1
  <2>3. RegistryWhole'
    BY <2>1 DEF RegistryWhole, profiles
  <2> QED BY <2>1, <2>2, <2>3, VisitRests DEF PickInv, VisitsTyped, Synchronised, PickedNow
<1>4. CASE \E s \in Rooms : EnsureRunning(s)
  <2>1. PICK s \in Rooms : EnsureRunning(s)
    BY <1>4
  <2>2. PICK d : Started(d, pageEdits, servable) /\ doing' = [doing EXCEPT ![s] = d]
    BY <2>1 DEF EnsureRunning, Started
  <2>3. IsVisit(d) /\ d.at = "queued" /\ d.edits = pageEdits /\ d.whole = servable /\ good' = IF servable THEN profiles ELSE good
    BY <2>1, <2>2, VisitStarts DEF EnsureRunning
  <2>0. servable <=> updates
    BY DEF servable, updates, unchanged, PickInv, RegistryWhole
  <2>4. CASE applied # profiles /\ updates
    <3>1. registry' = profiles /\ applied' = profiles
          /\ builtFor' = [n \in DOMAIN profiles |-> IF unchanged(n) THEN builtFor[n] ELSE profiles[n]]
      BY <2>1, <2>4 DEF EnsureRunning, syncRuntimeSettings, update
    <3>2. RegistryWhole'
      BY <2>0, <2>3, <2>4, <3>1 DEF RegistryWhole, unchanged, PickInv, profiles
    <3> QED BY <2>1, <2>2, <2>3, <3>1, <3>2, OthersStay DEF EnsureRunning, PickInv, VisitsTyped
  <2>5. CASE ~(applied # profiles /\ updates)
    <3>1. UNCHANGED <<registry, builtFor, applied>>
      BY <2>1, <2>5 DEF EnsureRunning, syncRuntimeSettings
    <3>2. servable => registry = profiles
      BY <2>0, <2>5 DEF PickInv, RegistryWhole
    <3>3. d.whole => registry' = profiles
      BY <2>3, <3>1, <3>2
    <3>4. RegistryWhole'
      BY <2>3, <3>1, <3>2 DEF PickInv, RegistryWhole
    <3> QED BY <2>1, <2>2, <2>3, <3>1, <3>3, <3>4, OthersStay DEF EnsureRunning, PickInv, VisitsTyped
  <2> QED BY <2>4, <2>5
<1>5. CASE \E s \in Rooms : Pick(s)
  <2>1. PICK s \in Rooms : Pick(s)
    BY <1>5
  <2>2. RegistryWhole' /\ registry' = registry /\ UNCHANGED <<pageVars, pageEdits>> /\ doing[s].at = "queued"
    BY <2>1 DEF Pick, PickInv, RegistryWhole
  <2>3. CASE pendingName(s) \in DOMAIN profiles
    <3>1. PICK n, d : n = pendingName(s) /\ HasPicked(d, doing[s], n, profiles[n]) /\ doing' = [doing EXCEPT ![s] = d]
      <4> DEFINE e == [doing[s] EXCEPT !.at = "picked", !.name = pendingName(s), !.profile = profiles[pendingName(s)]]
      <4>1. doing' = [doing EXCEPT ![s] = e]
        BY <2>1, <2>3 DEF Pick
      <4>2. HasPicked(e, doing[s], pendingName(s), profiles[pendingName(s)])
        BY DEF HasPicked
      <4> HIDE DEF e
      <4> QED BY <4>1, <4>2
    <3>2. IsVisit(doing[s]) /\ doing[s].edits \in Nat /\ doing[s].edits <= pageEdits
      BY DEF PickInv, VisitsTyped
    <3>3. IsVisit(d) /\ d.at = "picked" /\ d.name = n /\ d.profile = profiles[n] /\ d.edits = doing[s].edits /\ d.whole = doing[s].whole
      BY <3>1, <3>2, VisitPicks
    <3>4. d.edits = pageEdits /\ d.whole => registry' = profiles
      BY <2>2, <3>3 DEF PickInv, Synchronised
    <3> QED BY <2>2, <2>3, <3>1, <3>2, <3>3, <3>4, OthersStay
  <2>4. CASE pendingName(s) \notin DOMAIN profiles
    <3>1. doing' = [doing EXCEPT ![s] = AtRest]
      BY <2>1, <2>4 DEF Pick
    <3> QED BY <2>2, <3>1, VisitRests, OthersStay DEF PickInv, VisitsTyped
  <2> QED BY <2>3, <2>4
<1>6. CASE \E s \in Rooms : Claim(s)
  <2>1. PICK s \in Rooms : Claim(s)
    BY <1>6
  <2>2. RegistryWhole' /\ registry' = registry /\ UNCHANGED <<pageVars, pageEdits>>
    BY <2>1 DEF Claim, hostVars, PickInv, RegistryWhole
  <2>3. CASE doing[s].name \in DOMAIN registry
    <3>1. PICK d : MovedOn(d, doing[s], "provisioning") /\ doing' = [doing EXCEPT ![s] = d]
      BY <2>1, <2>3 DEF Claim, MovedOn
    <3>2. IsVisit(doing[s]) /\ doing[s].edits \in Nat /\ doing[s].edits <= pageEdits
      BY DEF PickInv, VisitsTyped
    <3>3. IsVisit(d) /\ d.at = "provisioning" /\ d.edits = doing[s].edits
      BY <3>1, <3>2, VisitMovesOn
    <3> QED BY <2>2, <3>1, <3>2, <3>3, OthersStay
  <2>4. CASE doing[s].name \notin DOMAIN registry
    <3>1. doing' = [doing EXCEPT ![s] = AtRest]
      BY <2>1, <2>4 DEF Claim
    <3> QED BY <2>2, <3>1, VisitRests, OthersStay DEF PickInv, VisitsTyped
  <2> QED BY <2>3, <2>4
<1>7. CASE \E s \in Rooms, ok \in BOOLEAN : BoxProvisioned(s, ok)
  <2>1. PICK s \in Rooms, ok \in BOOLEAN : BoxProvisioned(s, ok)
    BY <1>7
  <2>2. RegistryWhole' /\ registry' = registry /\ UNCHANGED <<pageVars, pageEdits>> /\ doing' = [doing EXCEPT ![s] = AtRest]
    BY <2>1 DEF BoxProvisioned, hostVars, PickInv, RegistryWhole
  <2> QED BY <2>2, VisitRests, OthersStay DEF PickInv, VisitsTyped
<1>8. CASE \E s \in Rooms : Released(s) \/ \E n \in Names : Choose(s, n)
  BY <1>8, AllStay DEF Released, Choose, hostVars
<1>9. CASE UNCHANGED settingVars
  BY <1>9, AllStay DEF settingVars, pageVars
<1> QED BY <1>1, <1>2, <1>3, <1>4, <1>5, <1>6, <1>7, <1>8, <1>9 DEF SettingsNext

\* The backends are those of one version of the settings, the last that could
\* be served, in every state; and a session is provisioned from the settings
\* its call synchronised if they could be and nobody edited them since.
THEOREM PickServedHolds == SettingsSpec => []PickServed
<1>1. SettingsInit => PickInv
  <2> SUFFICES ASSUME SettingsInit PROVE PickInv
    OBVIOUS
  <2>1. /\ registry = profiles /\ builtFor = profiles /\ applied = profiles /\ good = profiles
        /\ doing = [s \in Rooms |-> AtRest] /\ pageEdits = 0
    BY DEF SettingsInit
  <2>2. RegistryWhole
    BY <2>1 DEF RegistryWhole, profiles
  <2>3. \A s \in Rooms : doing[s] = AtRest
    BY <2>1
  <2> QED BY <2>1, <2>2, <2>3, VisitRests DEF PickInv, VisitsTyped, Synchronised, PickedNow
<1>2. PickInv => PickServed
  BY DEF PickInv, RegistryWhole, Synchronised, PickedNow, PickServed
<1> QED BY <1>1, <1>2, PickInvStep, PTL DEF SettingsSpec

-----------------------------------------------------------------------------
(***************************************************************************)
(* BuildkiteBuilds, for any sessions, builds and mishaps.                  *)
(***************************************************************************)

\* One write of the secret at a time, and what it found missing is missing.
OneWrite == writing = <<>> \/ \E x \in {"asked", "there", "missing"} : writing = <<x>>
KeyInv == OneWrite /\ NoKeyClash /\ (writing = <<"missing">> => ~secretKey)

\* The write that settles was the only one.
LEMMA WriteSettles ==
  ASSUME OneWrite, NEW i \in Int, 1 <= i, i <= Len(writing), NEW ok, settled(i, ok)
  PROVE  /\ i = 1 /\ writing' = <<>>
         /\ writing[1] \in {"asked", "there", "missing"} /\ (writing[1] = "missing" => writing = <<"missing">>)
<1>1. PICK x \in {"asked", "there", "missing"} : writing = <<x>>
  BY DEF OneWrite
<1>2. i = 1 /\ Len(writing) = 1 /\ writing[1] = x
  BY <1>1
<1>3. SubSeq(writing, 1, 0) = <<>> /\ SubSeq(writing, 2, 1) = <<>>
  BY <1>1
<1> QED BY <1>1, <1>2, <1>3 DEF settled

\* Two provisions never create the secret twice, however they overlap, fail or
\* are cut short.
THEOREM NoKeyClashHolds == BuildsSpec => []NoKeyClash
<1>1. BuildsInit => KeyInv
  BY DEF BuildsInit, KeyInv, OneWrite, NoKeyClash
<1>2. KeyInv /\ [BuildsNext]_buildVars => KeyInv'
  <2> SUFFICES ASSUME KeyInv, [BuildsNext]_buildVars PROVE KeyInv'
    OBVIOUS
  <2> USE DEF NoKeyClash
  <2>1. CASE \E o \in Owners : FindLiveBuild(o)
    BY <2>1 DEF FindLiveBuild, storeRegistrationToken, KeyInv, OneWrite
  <2>2. CASE \E i \in 1 .. Cardinality(Owners) : WriterLooks(i)
    <3>1. PICK i \in 1 .. Cardinality(Owners) : WriterLooks(i)
      BY <2>2
    <3>2. i \in Int /\ 1 <= i /\ i <= Len(writing)
      BY <3>1 DEF WriterLooks
    <3>3. PICK x \in {"asked", "there", "missing"} : writing = <<x>>
      BY <3>2 DEF KeyInv, OneWrite
    <3>4. i = 1
      BY <3>2, <3>3
    <3>5. writing' = <<IF secretKey THEN "there" ELSE "missing">>
      BY <3>1, <3>3, <3>4 DEF WriterLooks
    <3> QED BY <3>1, <3>5 DEF WriterLooks, KeyInv, OneWrite
  <2>3. CASE \E i \in 1 .. Cardinality(Owners) : WriterWrites(i)
    <3>1. PICK i \in 1 .. Cardinality(Owners) : WriterWrites(i)
      BY <2>3
    <3>2. i \in Int /\ 1 <= i /\ i <= Len(writing)
      BY <3>1 DEF WriterWrites
    <3>3. PICK ok : settled(i, ok)
      BY <3>1 DEF WriterWrites
    <3>4. /\ i = 1 /\ writing' = <<>>
          /\ writing[1] \in {"asked", "there", "missing"} /\ (writing[1] = "missing" => writing = <<"missing">>)
      BY <3>2, <3>3, WriteSettles DEF KeyInv
    <3> QED BY <3>1, <3>4 DEF WriterWrites, KeyInv, OneWrite
  <2>4. CASE \E i \in 1 .. Cardinality(Owners) : WriterFails(i)
    <3>1. PICK i \in 1 .. Cardinality(Owners) : WriterFails(i)
      BY <2>4
    <3>2. i \in Int /\ 1 <= i /\ i <= Len(writing)
      BY <3>1 DEF WriterFails
    <3>3. PICK ok : settled(i, ok)
      BY <3>1, Zenon DEF WriterFails
    <3>4. writing' = <<>>
      BY <3>2, <3>3, WriteSettles DEF KeyInv
    <3> QED BY <3>1, <3>4 DEF WriterFails, KeyInv, OneWrite
  <2>5. CASE HostStops
    BY <2>5 DEF HostStops, KeyInv, OneWrite
  <2>6. CASE SecretDeleted
    BY <2>6 DEF SecretDeleted, KeyInv, OneWrite
  <2>7. CASE UNCHANGED <<writing, secretKey, clashes>>
    BY <2>7 DEF KeyInv, OneWrite
  <2> QED BY <2>1, <2>2, <2>3, <2>4, <2>5, <2>6, <2>7
          DEF BuildsNext, buildVars, StartProvision, PostBuild, PostFails, BuildRunning, GivesUp, TimesOut,
              WakeBuild, Destroy, DestroyFails, JobStarts, BuildEnds
<1>3. KeyInv => NoKeyClash
  BY DEF KeyInv
<1> QED BY <1>1, <1>2, <1>3, PTL DEF BuildsSpec

-----------------------------------------------------------------------------

BuildStates == {"scheduled", "running", "canceled", "failed"}
BuildRecords == [owner : Owners, state : BuildStates]

\* A session that is about to make a build has no live one.
BuildsKnown ==
  /\ builds \in Seq(BuildRecords)
  /\ callStep = [o \in Owners |-> callStep[o]]
Alone == \A b, c \in 1 .. Len(builds) : Live(b) /\ Live(c) /\ builds[b].owner = builds[c].owner => b = c
NoneYet == \A o \in Owners : callStep[o] \in {"storing", "posting"} => \A b \in 1 .. Len(builds) : builds[b].owner = o => ~Live(b)
BuildInv == BuildsKnown /\ Alone /\ NoneYet

\* The builds there are stay, and none comes to life again.
NoRevival ==
  /\ builds' \in Seq(BuildRecords)
  /\ Len(builds') = Len(builds)
  /\ \A b \in 1 .. Len(builds) : builds'[b].owner = builds[b].owner /\ (Live(b)' => Live(b))

\* A build's state changes, and not from dead to live.
LEMMA StateChanges ==
  ASSUME BuildsKnown, NEW b \in 1 .. Len(builds), NEW s \in BuildStates,
         s \in {"scheduled", "running"} => Live(b),
         builds' = [builds EXCEPT ![b].state = s]
  PROVE  NoRevival
<1>1. builds[b] \in BuildRecords
  BY DEF BuildsKnown
<1>0. PICK r : r = builds[b]
  OBVIOUS
<1>9. r \in BuildRecords
  BY <1>0, <1>1
<1>6. r.owner \in Owners /\ r = [owner |-> r.owner, state |-> r.state]
  BY <1>9 DEF BuildRecords
<1>7. [r EXCEPT !.state = s] = [owner |-> r.owner, state |-> s]
  BY <1>6
<1>8. builds' = [builds EXCEPT ![b] = [r EXCEPT !.state = s]]
  BY <1>0
<1>2. builds' = [builds EXCEPT ![b] = [owner |-> r.owner, state |-> s]]
  BY <1>7, <1>8
<1>3. [owner |-> r.owner, state |-> s] \in BuildRecords
  BY <1>6 DEF BuildRecords
<1>4. /\ builds' \in Seq(BuildRecords)
      /\ Len(builds') = Len(builds)
  BY <1>2, <1>3 DEF BuildsKnown
<1>5. ASSUME NEW c \in 1 .. Len(builds) PROVE builds'[c].owner = builds[c].owner /\ (Live(c)' => Live(c))
  <2>1. CASE c = b
    BY <1>0, <1>2, <2>1 DEF BuildsKnown, Live
  <2>2. CASE c # b
    BY <1>2, <2>2 DEF BuildsKnown, Live
  <2> QED BY <2>1, <2>2
<1> QED BY <1>4, <1>5 DEF NoRevival

\* A cancel leaves every build as it was or ends it.
LEMMA CancelRevivesNone ==
  ASSUME BuildsKnown, NEW b, builds' = canceled(b)
  PROVE  NoRevival
<1>1. CASE b \in 1 .. Len(builds)
  <2>1. CASE Live(b)
    <3>1. builds' = [builds EXCEPT ![b].state = "canceled"]
      BY <2>1 DEF canceled
    <3> QED BY <1>1, <3>1, StateChanges DEF BuildStates
  <2>2. CASE ~Live(b)
    <3>1. builds' = [builds EXCEPT ![b].state = builds[b].state]
      BY <2>2, Zenon DEF canceled
    <3>2. PICK r \in BuildRecords : r = builds[b]
      BY <1>1 DEF BuildsKnown
    <3>3. r.state \in BuildStates /\ r.state \notin {"scheduled", "running"}
      BY <2>2, <3>2 DEF Live, BuildRecords
    <3> QED BY <1>1, <3>1, <3>2, <3>3, StateChanges
  <2> QED BY <2>1, <2>2
<1>2. CASE b \notin 1 .. Len(builds)
  <2>1. builds' = builds
    BY <1>2 DEF canceled, BuildsKnown
  <2> QED BY <2>1 DEF BuildsKnown, NoRevival, Live
<1> QED BY <1>1, <1>2

\* A session about to make its build may do so, and is then past that step.
LEMMA CreatedAlone ==
  ASSUME BuildInv, NEW o \in Owners, callStep[o] = "posting", builds' = created(o),
         callStep' = [p \in Owners |-> callStep'[p]],
         callStep'[o] \notin {"storing", "posting"},
         \A p \in Owners : callStep'[p] \in {"storing", "posting"} => callStep'[p] = callStep[p]
  PROVE  BuildInv'
<1> DEFINE n == Len(builds) + 1
<1>1. /\ builds' \in Seq(BuildRecords)
      /\ Len(builds') = n /\ builds'[n].owner = o
      /\ \A b \in 1 .. Len(builds) : builds'[b] = builds[b]
  <2>1. PICK r : r = [owner |-> o, state |-> "scheduled"] /\ builds' = Append(builds, r)
    BY DEF created
  <2>2. r \in BuildRecords /\ r.owner = o
    BY <2>1 DEF BuildRecords, BuildStates
  <2> QED BY <2>1, <2>2 DEF BuildInv, BuildsKnown
<1>2. \A b \in 1 .. Len(builds) : builds[b].owner = o => ~Live(b)
  BY DEF BuildInv, NoneYet
<1>3. \A b \in 1 .. Len(builds) : Live(b)' <=> Live(b)
  BY <1>1 DEF Live
<1>4. \A b \in 1 .. Len(builds') : b \in 1 .. Len(builds) \/ b = n
  BY <1>1 DEF BuildInv, BuildsKnown
<1>5. Alone'
  BY <1>1, <1>2, <1>3, <1>4 DEF Alone, BuildInv
<1>6. NoneYet'
  BY <1>1, <1>2, <1>3, <1>4 DEF NoneYet, BuildInv
<1> QED BY <1>1, <1>5, <1>6 DEF BuildInv, BuildsKnown

\* Nothing else disturbs the invariant unless it sends a session to make one.
LEMMA RestKeeps ==
  ASSUME BuildInv, NoRevival \/ builds' = builds,
         callStep' = [p \in Owners |-> callStep'[p]],
         \A p \in Owners : callStep'[p] \in {"storing", "posting"} =>
            callStep[p] \in {"storing", "posting"} \/ buildsOf(p) = {}
  PROVE  BuildInv'
<1>1. NoRevival
  BY DEF NoRevival, BuildInv, BuildsKnown, Live
<1>2. Alone'
  BY <1>1 DEF NoRevival, Alone, BuildInv
<1>3. NoneYet'
  BY <1>1 DEF NoRevival, NoneYet, BuildInv, buildsOf
<1> QED BY <1>1, <1>2, <1>3 DEF BuildInv, BuildsKnown, NoRevival

\* BuildInv is kept by every step.
LEMMA BuildInvStep == BuildInv /\ [BuildsNext]_buildVars => BuildInv'
<1> SUFFICES ASSUME BuildInv, [BuildsNext]_buildVars PROVE BuildInv'
  OBVIOUS
<1>0. callStep = [p \in Owners |-> callStep[p]] /\ BuildsKnown
  BY DEF BuildInv, BuildsKnown
<1>1. CASE \E o \in Owners : StartProvision(o) \/ BuildRunning(o) \/ GivesUp(o) \/ WakeBuild(o)
  BY <1>0, <1>1, RestKeeps DEF StartProvision, BuildRunning, GivesUp, WakeBuild, Goto
<1>2. CASE \E o \in Owners : FindLiveBuild(o)
  BY <1>0, <1>2, RestKeeps DEF FindLiveBuild, Goto
<1>3. CASE \E o \in Owners : TimesOut(o) \/ Destroy(o) \/ DestroyFails(o)
  <2>1. NoRevival \/ builds' = builds
    BY <1>0, <1>3, CancelRevivesNone DEF TimesOut, Destroy, DestroyFails
  <2> QED BY <1>0, <1>3, <2>1, RestKeeps DEF TimesOut, Destroy, DestroyFails, Goto
<1>4. CASE \E o \in Owners : PostBuild(o) \/ PostFails(o)
  <2>1. PICK o \in Owners : PostBuild(o) \/ PostFails(o)
    BY <1>4
  <2>2. callStep[o] = "posting" /\ callStep' = [p \in Owners |-> callStep'[p]]
        /\ callStep'[o] \in {"waiting", "rest"} /\ \A p \in Owners \ {o} : callStep'[p] = callStep[p]
    BY <1>0, <2>1 DEF PostBuild, PostFails, Goto
  <2>3. CASE builds' = created(o)
    BY <2>2, <2>3, CreatedAlone
  <2>4. CASE builds' = builds
    BY <2>2, <2>4, RestKeeps
  <2> QED BY <2>1, <2>3, <2>4 DEF PostBuild, PostFails
<1>5. CASE \E i \in 1 .. Cardinality(Owners) : WriterLooks(i)
  BY <1>0, <1>5, RestKeeps DEF WriterLooks
<1>6. CASE \E i \in 1 .. Cardinality(Owners) : WriterWrites(i) \/ WriterFails(i)
  <2>1. PICK i, ok : settled(i, ok) /\ builds' = builds
    BY <1>6 DEF WriterWrites, WriterFails
  <2> QED BY <2>1, RestKeeps DEF settled
<1>7. CASE \E b \in 1 .. MaxBuilds : JobStarts(b) \/ BuildEnds(b)
  <2>1. PICK b \in 1 .. MaxBuilds : JobStarts(b) \/ BuildEnds(b)
    BY <1>7
  <2>2. b \in 1 .. Len(builds) /\ UNCHANGED callStep
    BY <1>0, <2>1 DEF JobStarts, BuildEnds, BuildsKnown
  <2>3. NoRevival
    BY <1>0, <2>1, <2>2, StateChanges DEF BuildStates, JobStarts, BuildEnds, Live
  <2> QED BY <1>0, <2>2, <2>3, RestKeeps
<1>8. CASE HostStops
  <2>1. callStep' = [p \in Owners |-> "rest"]
    BY <1>8 DEF HostStops
  <2>2. CASE builds' = builds
    BY <2>1, <2>2, RestKeeps
  <2>3. CASE \E o \in Owners : callStep[o] = "posting" /\ builds' = created(o)
    BY <2>1, <2>3, CreatedAlone
  <2> QED BY <1>8, <2>2, <2>3 DEF HostStops
<1>9. CASE SecretDeleted
  BY <1>0, <1>9, RestKeeps DEF SecretDeleted
<1>10. CASE UNCHANGED buildVars
  BY <1>0, <1>10, RestKeeps DEF buildVars
<1> QED BY <1>1, <1>2, <1>3, <1>4, <1>5, <1>6, <1>7, <1>8, <1>9, <1>10 DEF BuildsNext

\* A session never has two live builds, whatever answers are lost and wherever
\* the host stops.
THEOREM OneLiveBuildHolds == BuildsSpec => []OneLiveBuild
<1>1. BuildsInit => BuildInv
  BY DEF BuildsInit, BuildInv, BuildsKnown, Alone, NoneYet
<1>2. BuildInv => OneLiveBuild
  <2> SUFFICES ASSUME BuildInv, NEW o \in Owners PROVE Cardinality(buildsOf(o)) <= 1
    BY DEF OneLiveBuild
  <2>1. CASE buildsOf(o) = {}
    BY <2>1, FS_EmptySet
  <2>2. CASE buildsOf(o) # {}
    <3>1. PICK b : b \in buildsOf(o)
      BY <2>2
    <3>2. buildsOf(o) = {b}
      BY <3>1 DEF buildsOf, BuildInv, Alone
    <3> QED BY <3>2, FS_Singleton
  <2> QED BY <2>1, <2>2
<1> QED BY <1>1, <1>2, BuildInvStep, PTL DEF BuildsSpec

-----------------------------------------------------------------------------
(***************************************************************************)
(* StepPrompt, for any agents, texts and number of steps.                  *)
(***************************************************************************)

\* A set of places on a surface has a greatest one, which is its Max.
LEMMA LastPlace ==
  ASSUME NEW n \in Nat, NEW T, T \subseteq 1 .. n, T # {}
  PROVE  Max(T) \in T /\ \A j \in T : j <= Max(T)
<1> DEFINE R == OpToRel(<, Nat)
           U == {x \in Nat : n - x \in T}
<1>1. IsWellFoundedOn(R, Nat)
  BY NatLessThanWellFounded
<1>2. \A y \in Nat, x \in Nat : y < x => <<y, x>> \in R
  BY DEF OpToRel
<1>3. U # {} /\ U \subseteq Nat
  <2>1. PICK i : i \in T
    OBVIOUS
  <2>2. n - i \in Nat /\ n - (n - i) = i
    BY <2>1
  <2> QED BY <2>1, <2>2
<1> HIDE DEF R, U
<1>4. PICK x \in U : \A y \in U : ~(<<y, x>> \in R)
  BY <1>1, <1>3, WFMin
<1>5. x \in Nat /\ n - x \in T
  BY <1>4 DEF U
<1>6. ASSUME NEW j \in T PROVE n - x >= j
  <2>1. n - j \in Nat /\ n - (n - j) = j
    OBVIOUS
  <2>2. n - j \in U
    BY <2>1 DEF U
  <2>3. ~(n - j < x)
    BY <1>2, <1>3, <1>4, <2>2
  <2> QED BY <1>5, <2>1, <2>3
<1>7. \E i \in T : \A j \in T : i >= j
  BY <1>5, <1>6
<1>8. Max(T) \in T /\ \A j \in T : Max(T) >= j
  BY <1>7 DEF Max
<1> QED BY <1>8

Texts == [global : Nat, workspace : Nat]
Kinds == {"instructions", "hibernated", "checkpointed", "none"}
Messages == [kind : Kinds, text : Texts, n : Nat]

StoreKnown == global \in Nat /\ workspace \in Nat /\ storedText \in Texts /\ writes \in Seq(Texts)
BoxKnown ==
  /\ box \in {"none", "running", "hibernated", "checkpointed"}
  /\ notice = [kind |-> notice.kind, n |-> notice.n]
  /\ notice.kind \in Kinds \ {"instructions"} /\ notice.n \in Nat
  /\ arrivals \in Nat /\ faults \in Nat /\ notice.n <= arrivals
AgentFits(p, A, L) ==
  /\ A \in Seq(Messages) /\ L \in Seq(Messages)
  /\ p \notin {"noticing", "entering"} => A = <<>>
  /\ p = "noticing" => \A i \in 1 .. Len(A) : A[i].n = 0
Shapes ==
  /\ phase = [a \in Team |-> phase[a]] /\ asks = [a \in Team |-> asks[a]] /\ rendered = [a \in Team |-> rendered[a]]
  /\ adds = [a \in Team |-> adds[a]] /\ log = [a \in Team |-> log[a]]
AgentsKnown == Shapes /\ \A a \in Team : AgentFits(phase[a], adds[a], log[a])

\* One agent's part of a function changes and no other's.
LEMMA Put ==
  ASSUME NEW F, F = [b \in Team |-> F[b]], NEW a \in Team, NEW w, NEW G, G = [F EXCEPT ![a] = w]
  PROVE  G = [b \in Team |-> G[b]] /\ G[a] = w /\ \A b \in Team : b # a => G[b] = F[b]
  OBVIOUS
PromptKnown == StoreKnown /\ BoxKnown /\ AgentsKnown

\* The text a step is composed with is a text, and what goes with it a message.
LEMMA BaselineIsText == ASSUME StoreKnown PROVE Baseline \in Texts /\ Cleared \in Texts
  BY DEF StoreKnown, Baseline, Cleared, Layers, Texts

\* A message has the fields it was made with.
LEMMA MessageIsOne ==
  ASSUME NEW k \in Kinds, NEW x \in Texts, NEW m \in Nat, NEW e, e = [kind |-> k, text |-> x, n |-> m]
  PROVE  e \in Messages /\ e.kind = k /\ e.text = x /\ e.n = m
  BY DEF Messages

\* What concatenation does to lengths and places.
LEMMA Joined ==
  ASSUME NEW S, NEW p \in Seq(S), NEW q \in Seq(S), NEW r, r = p \o q
  PROVE  /\ r \in Seq(S) /\ Len(r) = Len(p) + Len(q) /\ Len(p) \in Nat /\ Len(q) \in Nat
         /\ \A i \in 1 .. Len(p) : r[i] = p[i]
         /\ \A i \in 1 .. Len(q) : r[Len(p) + i] = q[i]
  OBVIOUS

\* The store keeps its kinds.
LEMMA StoreKnownStep == PromptKnown /\ [PromptNext]_promptVars => StoreKnown'
<1> SUFFICES ASSUME PromptKnown, [PromptNext]_promptVars PROVE StoreKnown'
  OBVIOUS
<1> USE DEF PromptKnown, StoreKnown
<1>1. CASE \E text \in 0 .. MAX_INSTRUCTIONS_BYTES : setGlobal(text) \/ setWorkspace(text)
  <2>1. global' \in Nat /\ workspace' \in Nat /\ storedText' = storedText
    BY <1>1 DEF setGlobal, setWorkspace
  <2>2. PICK x : x = Layers(global', workspace') /\ writes' \in {writes, Append(writes, x)}
    BY <1>1 DEF setGlobal, setWorkspace, persist
  <2>3. x \in Texts
    BY <2>1, <2>2 DEF Layers, Texts
  <2> QED BY <2>1, <2>2, <2>3
<1>2. CASE Landed
  <2>1. writes # <<>> /\ storedText' = Head(writes) /\ writes' = Tail(writes) /\ UNCHANGED <<global, workspace>>
    BY <1>2 DEF Landed
  <2> QED BY <2>1
<1>3. CASE WriteRejected
  BY <1>3 DEF WriteRejected
<1>4. CASE HostRestarts
  <2>1. storedText.global \in Nat /\ storedText.workspace \in Nat
    BY DEF Texts
  <2> QED BY <1>4, <2>1 DEF HostRestarts
<1>5. CASE UNCHANGED storeVars
  BY <1>5 DEF storeVars
<1> QED BY <1>1, <1>2, <1>3, <1>4, <1>5 DEF PromptNext, promptVars, storeVars, BrowserReads, PutAway, StepBegins, Ensured,
           StepFails, Instructs, Notices, Enters, Compacts, Decided

\* A wake or a restore leaves a notice of its own, and nothing else comes near
\* it but the step that takes it and the restart that forgets it.
NoticeMoves ==
  \/ UNCHANGED <<notice, arrivals>>
  \/ arrivals' = arrivals + 1 /\ notice' = [kind |-> box, n |-> arrivals + 1] /\ box \in {"hibernated", "checkpointed"}
  \/ notice' = [kind |-> "none", n |-> 0] /\ UNCHANGED arrivals
BoxMoves == faults' \in {faults, faults + 1} /\ box' \in {box, "none", "running", "hibernated", "checkpointed"}
\* Every step moves the notice, and the sandbox, in one of these ways.
LEMMA NoticesMove == [PromptNext]_promptVars => NoticeMoves /\ BoxMoves
<1> SUFFICES ASSUME [PromptNext]_promptVars PROVE NoticeMoves /\ BoxMoves
  OBVIOUS
<1>1. ASSUME brought, UNCHANGED faults PROVE NoticeMoves /\ BoxMoves
  BY <1>1 DEF brought, noticeOf, NoticeMoves, BoxMoves
<1>2. CASE BrowserReads \/ \E a \in Team : Ensured(a)
  BY <1>1, <1>2 DEF BrowserReads, Ensured
<1>3. CASE HostRestarts \/ \E a \in Team : Notices(a)
  BY <1>3 DEF HostRestarts, Notices, NoticeMoves, BoxMoves
<1>4. ASSUME UNCHANGED <<notice, arrivals>>, BoxMoves PROVE NoticeMoves /\ BoxMoves
  BY <1>4 DEF NoticeMoves
<1>5. CASE \E text \in 0 .. MAX_INSTRUCTIONS_BYTES : setGlobal(text) \/ setWorkspace(text)
  BY <1>4, <1>5 DEF setGlobal, setWorkspace, boxVars, BoxMoves
<1>6. CASE Landed \/ WriteRejected
  BY <1>4, <1>6 DEF Landed, WriteRejected, boxVars, BoxMoves
<1>7. CASE \E to \in {"hibernated", "checkpointed", "none"} : PutAway(to)
  BY <1>4, <1>7 DEF PutAway, BoxMoves
<1>8. ASSUME NEW a \in Team, StepBegins(a) \/ StepFails(a) \/ Instructs(a) \/ Enters(a) \/ Compacts(a)
                            \/ \E what \in {"messages", "none", "first"} : Decided(a, what)
      PROVE  NoticeMoves /\ BoxMoves
  BY <1>4, <1>8 DEF StepBegins, StepFails, Instructs, Enters, Compacts, Decided, boxVars, BoxMoves
<1>9. CASE UNCHANGED promptVars
  BY <1>4, <1>9 DEF promptVars, BoxMoves
<1> QED BY <1>2, <1>3, <1>5, <1>6, <1>7, <1>8, <1>9 DEF PromptNext

\* The notice and the sandbox keep their kinds, and a notice is of an arrival.
LEMMA BoxKnownStep == PromptKnown /\ [PromptNext]_promptVars => BoxKnown'
<1> SUFFICES ASSUME PromptKnown, [PromptNext]_promptVars PROVE BoxKnown'
  OBVIOUS
<1> USE DEF PromptKnown, BoxKnown
<1>1. NoticeMoves
  BY NoticesMove
<1>2. faults' \in Nat
  BY NoticesMove DEF BoxMoves
<1>3. box' \in {"none", "running", "hibernated", "checkpointed"}
  BY NoticesMove DEF BoxMoves
<1>4. CASE UNCHANGED <<notice, arrivals>>
  BY <1>2, <1>3, <1>4
<1>5. CASE arrivals' = arrivals + 1 /\ notice' = [kind |-> box, n |-> arrivals + 1] /\ box \in {"hibernated", "checkpointed"}
  <2>1. notice'.kind = box /\ notice'.n = arrivals + 1
    BY <1>5
  <2> QED BY <1>2, <1>3, <1>5, <2>1 DEF Kinds
<1>6. CASE notice' = [kind |-> "none", n |-> 0] /\ UNCHANGED arrivals
  <2>1. notice'.kind = "none" /\ notice'.n = 0
    BY <1>6
  <2> QED BY <1>2, <1>3, <1>6, <2>1 DEF Kinds
<1> QED BY <1>1, <1>4, <1>5, <1>6 DEF NoticeMoves

\* What happens outside a step, and what a step does before the host's
\* listeners see its messages.
Outside ==
  \/ \E text \in 0 .. MAX_INSTRUCTIONS_BYTES : setGlobal(text) \/ setWorkspace(text)
  \/ Landed \/ WriteRejected \/ BrowserReads \/ UNCHANGED promptVars
  \/ \E to \in {"hibernated", "checkpointed", "none"} : PutAway(to)
Waits(a) ==
  \/ StepBegins(a) \/ Ensured(a) \/ StepFails(a)
  \/ \E what \in {"messages", "none", "first"} : Decided(a, what)

\* Such a step changes no surface, and takes no notice.
LEMMA OutsideSays == Outside => UNCHANGED <<phase, asks, adds, log, rendered>> /\ (notice' = notice \/ notice'.n = arrivals')
<1> SUFFICES ASSUME Outside PROVE UNCHANGED <<phase, asks, adds, log, rendered>> /\ (notice' = notice \/ notice'.n = arrivals')
  OBVIOUS
<1>1. CASE \E text \in 0 .. MAX_INSTRUCTIONS_BYTES : setGlobal(text) \/ setWorkspace(text)
  BY <1>1 DEF setGlobal, setWorkspace, agentVars, boxVars
<1>2. CASE Landed \/ WriteRejected
  BY <1>2 DEF Landed, WriteRejected, agentVars, boxVars
<1>3. CASE BrowserReads
  BY <1>3 DEF BrowserReads, brought, noticeOf, agentVars
<1>4. CASE \E to \in {"hibernated", "checkpointed", "none"} : PutAway(to)
  BY <1>4 DEF PutAway, agentVars
<1>5. CASE UNCHANGED promptVars
  BY <1>5 DEF promptVars
<1> QED BY <1>1, <1>2, <1>3, <1>4, <1>5 DEF Outside

\* An agent on its way to the host's listeners has nothing added yet.
LEMMA WaitsSay ==
  ASSUME NEW a \in Team, Waits(a), AgentsKnown
  PROVE  /\ UNCHANGED <<adds, log, rendered>> /\ (notice' = notice \/ notice'.n = arrivals')
         /\ adds[a] = <<>> /\ asks' = [b \in Team |-> asks'[b]]
         /\ \E p \in {"ensuring", "deciding", "instructing", "rest"} : phase' = [phase EXCEPT ![a] = p]
<1>1. CASE StepBegins(a)
  BY <1>1 DEF StepBegins, AgentsKnown, Shapes, AgentFits, Phase, boxVars
<1>2. CASE Ensured(a)
  BY <1>2 DEF Ensured, AgentsKnown, Shapes, AgentFits, Phase, brought, noticeOf
<1>3. CASE StepFails(a)
  BY <1>3 DEF StepFails, AgentsKnown, Shapes, AgentFits, Phase, boxVars
<1>4. CASE \E what \in {"messages", "none", "first"} : Decided(a, what)
  BY <1>4 DEF Decided, AgentsKnown, Shapes, AgentFits, Phase, boxVars
<1> QED BY <1>1, <1>2, <1>3, <1>4 DEF Waits

\* The disjuncts of a step.
LEMMA PromptSteps ==
  ASSUME [PromptNext]_promptVars
  PROVE  \/ Outside \/ HostRestarts
         \/ \E a \in Team : Waits(a) \/ Instructs(a) \/ Notices(a) \/ Enters(a) \/ Compacts(a)
  BY DEF PromptNext, Outside, Waits

\* A step the instructions ride: the surface says Baseline already, or is told.
Repeats(a) == UNCHANGED adds /\ (UNCHANGED rendered \/ (upToDate(a) /\ rendered' = [rendered EXCEPT ![a] = Baseline]))
Tells(a, e) ==
  /\ adds' = [adds EXCEPT ![a] = <<e>>] /\ rendered' = [rendered EXCEPT ![a] = Baseline]
  /\ e.kind = "instructions" /\ e.text = Baseline /\ e.n = 0
\* What Instructs does to the messages of the step.
LEMMA InstructsSays ==
  ASSUME PromptKnown, NEW a \in Team, Instructs(a)
  PROVE  /\ \E e \in Messages : Repeats(a) \/ Tells(a, e)
         /\ UNCHANGED <<log, notice, arrivals>> /\ adds[a] = <<>>
         /\ asks' = [b \in Team |-> asks'[b]] /\ phase' = [phase EXCEPT ![a] = "noticing"]
<1>1. UNCHANGED <<log, notice, arrivals>> /\ phase' = [phase EXCEPT ![a] = "noticing"] /\ phase[a] = "instructing"
  BY DEF Instructs, Phase, boxVars
<1>2. adds[a] = <<>> /\ adds = [b \in Team |-> adds[b]] /\ rendered = [b \in Team |-> rendered[b]] /\ asks = [b \in Team |-> asks[b]]
  BY <1>1 DEF PromptKnown, AgentsKnown, Shapes, AgentFits
<1>3. PICK e : e = [kind |-> "instructions", text |-> Baseline, n |-> 0]
  OBVIOUS
<1>4. e \in Messages /\ e.kind = "instructions" /\ e.text = Baseline /\ e.n = 0
  <2>1. Baseline \in Texts /\ "instructions" \in Kinds /\ 0 \in Nat
    BY BaselineIsText DEF PromptKnown, Kinds
  <2> QED BY <1>3, <2>1, MessageIsOne
<1>5. asks' = [b \in Team |-> asks'[b]]
  <2>1. PICK w : asks' = [asks EXCEPT ![a] = w]
    BY DEF Instructs
  <2> QED BY <1>2, <2>1
<1>6. CASE asks[a] = "first"
  <2>1. adds' = [adds EXCEPT ![a] = <<>>] /\ rendered' = [rendered EXCEPT ![a] = rendered[a]]
    BY <1>6 DEF Instructs
  <2>2. UNCHANGED <<adds, rendered>>
    BY <1>2, <2>1
  <2> QED BY <1>1, <1>2, <1>4, <1>5, <2>2 DEF Repeats
<1>7. CASE asks[a] # "first" /\ upToDate(a)
  <2>1. adds' = [adds EXCEPT ![a] = <<>>] /\ rendered' = [rendered EXCEPT ![a] = Baseline]
    BY <1>7 DEF Instructs
  <2>2. UNCHANGED adds
    BY <1>2, <2>1
  <2> QED BY <1>1, <1>2, <1>4, <1>5, <1>7, <2>1, <2>2 DEF Repeats
<1>8. CASE asks[a] # "first" /\ ~upToDate(a)
  <2>1. adds' = [adds EXCEPT ![a] = <<e>>] /\ rendered' = [rendered EXCEPT ![a] = Baseline]
    BY <1>3, <1>8 DEF Instructs
  <2> QED BY <1>1, <1>2, <1>4, <1>5, <2>1 DEF Tells
<1> QED BY <1>6, <1>7, <1>8

\* A step the notice rides takes it; another leaves it and its messages alone.
Takes(a, e) ==
  /\ notice.n # 0 /\ notice' = [kind |-> "none", n |-> 0] /\ adds' = [adds EXCEPT ![a] = <<e>> \o adds[a]]
  /\ e.kind # "instructions" /\ e.n = notice.n
\* What Notices does to the messages of the step.
LEMMA NoticesSay ==
  ASSUME PromptKnown, NEW a \in Team, Notices(a)
  PROVE  /\ \E e \in Messages : UNCHANGED <<adds, notice>> \/ Takes(a, e)
         /\ UNCHANGED <<log, rendered, arrivals, faults>> /\ phase[a] = "noticing" /\ phase' = [phase EXCEPT ![a] = "entering"]
         /\ asks' = [b \in Team |-> asks'[b]]
<1>1. UNCHANGED <<log, rendered, arrivals, faults>> /\ phase[a] = "noticing" /\ phase' = [phase EXCEPT ![a] = "entering"]
      /\ asks' = [b \in Team |-> asks'[b]]
  <2>1. asks' = [asks EXCEPT ![a] = "none"] /\ asks = [b \in Team |-> asks[b]]
    BY DEF Notices, PromptKnown, AgentsKnown, Shapes
  <2>2. asks' = [b \in Team |-> asks'[b]]
    BY <2>1, Put
  <2> QED BY <2>2 DEF Notices, Phase
<1>2. adds = [b \in Team |-> adds[b]]
  BY DEF PromptKnown, AgentsKnown, Shapes
<1>3. PICK e : e = message(notice.kind, notice.n)
  OBVIOUS
<1>4. e \in Messages /\ e.kind # "instructions" /\ e.n = notice.n
  <2>1. e = [kind |-> notice.kind, text |-> Cleared, n |-> notice.n]
    BY <1>3 DEF message
  <2>2. Cleared \in Texts /\ notice.kind \in Kinds /\ notice.kind # "instructions" /\ notice.n \in Nat
    BY BaselineIsText DEF PromptKnown, BoxKnown
  <2> QED BY <2>1, <2>2, MessageIsOne
<1>5. CASE asks[a] = "messages" /\ notice.n # 0
  <2>1. notice' = [kind |-> "none", n |-> 0] /\ adds' = [adds EXCEPT ![a] = <<e>> \o adds[a]]
    BY <1>3, <1>5 DEF Notices
  <2> QED BY <1>1, <1>4, <1>5, <2>1 DEF Takes
<1>6. CASE ~(asks[a] = "messages" /\ notice.n # 0)
  <2>1. notice' = notice /\ adds' = [adds EXCEPT ![a] = adds[a]]
    BY <1>6 DEF Notices
  <2> QED BY <1>1, <1>2, <1>4, <2>1
<1> QED BY <1>5, <1>6

\* Agents keep their kinds: a notice is taken before anything else is told.
LEMMA AgentsKnownStep == PromptKnown /\ [PromptNext]_promptVars => AgentsKnown'
<1> SUFFICES ASSUME PromptKnown, [PromptNext]_promptVars PROVE AgentsKnown'
  OBVIOUS
<1>0. AgentsKnown
  BY DEF PromptKnown
<1>1. CASE Outside
  BY <1>0, <1>1, OutsideSays DEF AgentsKnown, Shapes
<1>2. CASE HostRestarts
  <2>1. phase' = [a \in Team |-> "rest"] /\ adds' = [a \in Team |-> <<>>] /\ log' = log /\ asks' = [a \in Team |-> "none"]
        /\ rendered' = [a \in Team |-> rendered'[a]]
    BY <1>2 DEF HostRestarts
  <2>2. \A a \in Team : AgentFits("rest", <<>>, log[a])
    BY <1>0 DEF AgentsKnown, AgentFits
  <2> QED BY <1>0, <2>1, <2>2 DEF AgentsKnown, Shapes
<1>3. ASSUME NEW a \in Team, Waits(a) PROVE AgentsKnown'
  <2>1. UNCHANGED <<adds, log, rendered>> /\ adds[a] = <<>> /\ asks' = [b \in Team |-> asks'[b]]
    BY <1>0, <1>3, WaitsSay
  <2>2. PICK p \in {"ensuring", "deciding", "instructing", "rest"} : phase' = [phase EXCEPT ![a] = p]
    BY <1>0, <1>3, WaitsSay
  <2>3. phase' = [b \in Team |-> phase'[b]] /\ phase'[a] = p /\ \A b \in Team : b # a => phase'[b] = phase[b]
    BY <1>0, <2>2, Put DEF AgentsKnown, Shapes, Shapes
  <2>4. AgentFits(p, adds[a], log[a])
    BY <1>0, <2>1 DEF AgentsKnown, AgentFits
  <2> QED BY <1>0, <2>1, <2>3, <2>4 DEF AgentsKnown, Shapes
<1>4. ASSUME NEW a \in Team, Instructs(a) PROVE AgentsKnown'
  <2>1. PICK e \in Messages : Repeats(a) \/ Tells(a, e)
    BY <1>4, InstructsSays
  <2>2. UNCHANGED log /\ adds[a] = <<>> /\ asks' = [b \in Team |-> asks'[b]] /\ phase' = [phase EXCEPT ![a] = "noticing"]
    BY <1>4, InstructsSays
  <2>3. rendered' = [b \in Team |-> rendered'[b]]
    BY <1>0, <2>1, Put DEF Repeats, Tells, AgentsKnown, Shapes
  <2>4. phase' = [b \in Team |-> phase'[b]] /\ phase'[a] = "noticing" /\ \A b \in Team : b # a => phase'[b] = phase[b]
    BY <1>0, <2>2, Put DEF AgentsKnown, Shapes
  <2>5. adds' = [b \in Team |-> adds'[b]] /\ adds'[a] \in {<<>>, <<e>>} /\ \A b \in Team : b # a => adds'[b] = adds[b]
    BY <1>0, <2>1, <2>2, Put DEF Repeats, Tells, AgentsKnown, Shapes
  <2>6. <<e>> \in Seq(Messages) /\ Len(<<e>>) = 1 /\ <<e>>[1] = e /\ <<>> \in Seq(Messages) /\ Len(<<>>) = 0
    OBVIOUS
  <2>7. adds'[a] = <<e>> => e.n = 0
    <3>1. Repeats(a) => adds'[a] = <<>>
      BY <2>2 DEF Repeats
    <3> QED BY <2>1, <3>1 DEF Tells
  <2>8. \A i \in 1 .. Len(adds'[a]) : adds'[a][i].n = 0
    BY <2>5, <2>6, <2>7
  <2>9. AgentFits("noticing", adds'[a], log[a])
    BY <1>0, <2>5, <2>6, <2>8 DEF AgentsKnown, AgentFits
  <2> QED BY <1>0, <2>2, <2>3, <2>4, <2>5, <2>9 DEF AgentsKnown, Shapes
<1>5. ASSUME NEW a \in Team, Notices(a) PROVE AgentsKnown'
  <2>1. PICK e \in Messages : UNCHANGED <<adds, notice>> \/ Takes(a, e)
    BY <1>5, NoticesSay
  <2>2. UNCHANGED <<log, rendered>> /\ phase[a] = "noticing" /\ phase' = [phase EXCEPT ![a] = "entering"]
        /\ asks' = [b \in Team |-> asks'[b]]
    BY <1>5, NoticesSay
  <2>3. PICK q : q = <<e>> \o adds[a] /\ q \in Seq(Messages)
    <3>1. <<e>> \in Seq(Messages) /\ adds[a] \in Seq(Messages)
      BY <1>0 DEF AgentsKnown, AgentFits
    <3> QED BY <3>1, Joined
  <2>4. adds' = adds \/ adds' = [adds EXCEPT ![a] = q]
    BY <2>1, <2>3 DEF Takes
  <2>5. adds' = [b \in Team |-> adds'[b]] /\ adds'[a] \in {adds[a], q} /\ \A b \in Team : b # a => adds'[b] = adds[b]
    BY <1>0, <2>4, Put DEF AgentsKnown, Shapes
  <2>6. phase' = [b \in Team |-> phase'[b]] /\ phase'[a] = "entering" /\ \A b \in Team : b # a => phase'[b] = phase[b]
    BY <1>0, <2>2, Put DEF AgentsKnown, Shapes
  <2>7. AgentFits("entering", adds'[a], log[a])
    BY <1>0, <2>3, <2>5 DEF AgentsKnown, AgentFits
  <2> QED BY <1>0, <2>2, <2>5, <2>6, <2>7 DEF AgentsKnown, Shapes
<1>6. ASSUME NEW a \in Team, Enters(a) PROVE AgentsKnown'
  <2>1. PICK q : q = log[a] \o adds[a] /\ q \in Seq(Messages)
    <3>1. log[a] \in Seq(Messages) /\ adds[a] \in Seq(Messages)
      BY <1>0 DEF AgentsKnown, AgentFits
    <3> QED BY <3>1, Joined
  <2>2. log' = [log EXCEPT ![a] = q] /\ adds' = [adds EXCEPT ![a] = <<>>] /\ phase' = [phase EXCEPT ![a] = "rest"]
        /\ UNCHANGED <<asks, rendered>>
    BY <1>6, <2>1 DEF Enters, Phase
  <2>3. log' = [b \in Team |-> log'[b]] /\ log'[a] = q /\ \A b \in Team : b # a => log'[b] = log[b]
    BY <1>0, <2>2, Put DEF AgentsKnown, Shapes
  <2>4. adds' = [b \in Team |-> adds'[b]] /\ adds'[a] = <<>> /\ \A b \in Team : b # a => adds'[b] = adds[b]
    BY <1>0, <2>2, Put DEF AgentsKnown, Shapes
  <2>5. phase' = [b \in Team |-> phase'[b]] /\ phase'[a] = "rest" /\ \A b \in Team : b # a => phase'[b] = phase[b]
    BY <1>0, <2>2, Put DEF AgentsKnown, Shapes
  <2>6. AgentFits("rest", <<>>, q)
    BY <2>1 DEF AgentFits
  <2> QED BY <1>0, <2>2, <2>3, <2>4, <2>5, <2>6 DEF AgentsKnown, Shapes
<1>7. ASSUME NEW a \in Team, Compacts(a) PROVE AgentsKnown'
  <2>1. log' = [log EXCEPT ![a] = <<>>] /\ rendered' = [rendered EXCEPT ![a] = Cleared] /\ UNCHANGED <<phase, asks, adds>>
    BY <1>7 DEF Compacts
  <2>2. log' = [b \in Team |-> log'[b]] /\ log'[a] = <<>> /\ \A b \in Team : b # a => log'[b] = log[b]
    BY <1>0, <2>1, Put DEF AgentsKnown, Shapes
  <2>3. rendered' = [b \in Team |-> rendered'[b]]
    BY <1>0, <2>1, Put DEF AgentsKnown, Shapes
  <2>4. AgentFits(phase[a], adds[a], <<>>)
    BY <1>0 DEF AgentsKnown, AgentFits
  <2> QED BY <1>0, <2>1, <2>2, <2>3, <2>4 DEF AgentsKnown, Shapes
<1> QED BY <1>1, <1>2, <1>3, <1>4, <1>5, <1>6, <1>7, PromptSteps

\* What is known of the variables stays known.
LEMMA PromptKnownStep == PromptKnown /\ [PromptNext]_promptVars => PromptKnown'
  BY StoreKnownStep, BoxKnownStep, AgentsKnownStep DEF PromptKnown

\* What a surface says: its last baseline is the text r; said without Max, and
\* of the whole surface, what is still to be appended included.
Said(q, r) ==
  \/ r = Cleared /\ \A i \in 1 .. Len(q) : q[i].kind # "instructions"
  \/ \E i \in 1 .. Len(q) : /\ q[i].kind = "instructions" /\ q[i].text = r
                            /\ \A j \in 1 .. Len(q) : q[j].kind = "instructions" => j <= i
BaselinesSaid == \A a \in Team : Said(log[a] \o adds[a], rendered[a])

\* Said is what latestManagedInstructions finds on a surface.
LEMMA SaidIs ==
  ASSUME NEW q \in Seq(Messages), NEW r
  PROVE  Said(q, r) <=> IF baselines(q) = {} THEN r = Cleared ELSE latest(q) = r
<1>1. Len(q) \in Nat /\ DOMAIN q = 1 .. Len(q)
  OBVIOUS
<1>2. baselines(q) = {i \in 1 .. Len(q) : q[i].kind = "instructions"}
  BY <1>1 DEF baselines
<1>3. CASE baselines(q) = {}
  BY <1>2, <1>3 DEF Said
<1>4. CASE baselines(q) # {}
  <2>1. PICK m : m = Max(baselines(q)) /\ m \in baselines(q) /\ \A j \in baselines(q) : j <= m
    <3>1. baselines(q) \subseteq 1 .. Len(q)
      BY <1>2
    <3> QED BY <1>1, <1>4, <3>1, LastPlace
  <2>2. latest(q) = q[m].text
    BY <2>1 DEF latest
  <2>3. \A i \in baselines(q) : (\A j \in baselines(q) : j <= i) => i = m
    <3>1. \A i \in baselines(q) : i \in Nat
      BY <1>1, <1>2
    <3>2. ASSUME NEW i \in baselines(q), \A j \in baselines(q) : j <= i PROVE i = m
      <4>1. m <= i /\ i <= m /\ i \in Nat /\ m \in Nat
        BY <2>1, <3>1, <3>2
      <4> QED BY <4>1
    <3> QED BY <3>2
  <2> QED BY <1>2, <2>1, <2>2, <2>3, <1>4 DEF Said
<1> QED BY <1>3, <1>4

\* A message put in between: the places behind it move on by one.
LEMMA Between ==
  ASSUME NEW L \in Seq(Messages), NEW A \in Seq(Messages), NEW e \in Messages, NEW q, q = L \o A, NEW w, w = L \o (<<e>> \o A)
  PROVE  /\ q \in Seq(Messages) /\ w \in Seq(Messages) /\ Len(L) \in Nat /\ Len(A) \in Nat
         /\ Len(q) = Len(L) + Len(A) /\ Len(w) = Len(L) + Len(A) + 1
         /\ \A i \in 1 .. Len(A) : q[Len(L) + i] = A[i]
         /\ \A i \in 1 .. Len(L) : w[i] = q[i]
         /\ w[Len(L) + 1] = e
         /\ \A i \in 1 .. Len(q) : i > Len(L) => w[i + 1] = q[i]
<1>2. PICK B : B = <<e>> \o A /\ B \in Seq(Messages) /\ Len(B) = Len(A) + 1 /\ B[1] = e
             /\ \A i \in 1 .. Len(A) : B[1 + i] = A[i]
  <2>0. PICK u : u = <<e>>
    OBVIOUS
  <2>1. u = <<e>> /\ u \in Seq(Messages) /\ Len(u) = 1 /\ u[1] = e
    BY <2>0
  <2>2. PICK B : B = u \o A
    OBVIOUS
  <2>3. /\ B \in Seq(Messages) /\ Len(B) = Len(u) + Len(A) /\ Len(A) \in Nat
        /\ (\A i \in 1 .. Len(u) : B[i] = u[i]) /\ (\A i \in 1 .. Len(A) : B[Len(u) + i] = A[i])
    BY <2>1, <2>2, Joined
  <2>4. Len(B) = Len(A) + 1 /\ B[1] = e /\ \A i \in 1 .. Len(A) : B[1 + i] = A[i]
    BY <2>1, <2>3
  <2> QED BY <2>1, <2>2, <2>3, <2>4
<1>4. /\ q \in Seq(Messages) /\ Len(q) = Len(L) + Len(A) /\ Len(L) \in Nat /\ Len(A) \in Nat
      /\ \A i \in 1 .. Len(L) : q[i] = L[i]
      /\ \A i \in 1 .. Len(A) : q[Len(L) + i] = A[i]
  BY Joined
<1>5. /\ Len(w) = Len(L) + Len(A) + 1
      /\ \A i \in 1 .. Len(L) : w[i] = L[i]
      /\ \A i \in 1 .. Len(B) : w[Len(L) + i] = B[i]
  <2>1. Len(w) = Len(L) + Len(B) /\ (\A i \in 1 .. Len(L) : w[i] = L[i]) /\ (\A i \in 1 .. Len(B) : w[Len(L) + i] = B[i])
    BY <1>2, Joined
  <2> QED BY <1>2, <1>4, <2>1
<1>6. \A i \in 1 .. Len(L) : w[i] = q[i]
  BY <1>4, <1>5
<1>7. \A i \in 1 .. Len(q) : i > Len(L) => w[i + 1] = q[i]
  <2> SUFFICES ASSUME NEW i \in 1 .. Len(q), i > Len(L) PROVE w[i + 1] = q[i]
    OBVIOUS
  <2>1. PICK k : k = i - Len(L) /\ k \in 1 .. Len(A) /\ i = Len(L) + k
    BY <1>4
  <2>2. PICK h : h = 1 + k /\ h \in 1 .. Len(B) /\ B[h] = A[k] /\ i + 1 = Len(L) + h
    BY <1>2, <1>4, <2>1
  <2>3. w[Len(L) + h] = B[h]
    BY <1>5, <2>2
  <2> QED BY <1>4, <2>1, <2>2, <2>3
<1>8. w[Len(L) + 1] = e
  BY <1>2, <1>4, <1>5
<1>9. w \in Seq(Messages)
  BY <1>2, Joined
<1> QED BY <1>4, <1>5, <1>6, <1>7, <1>8, <1>9

\* A message of another kind, put in between, says nothing about it.
LEMMA SaidAround ==
  ASSUME NEW L \in Seq(Messages), NEW A \in Seq(Messages), NEW e \in Messages, e.kind # "instructions", NEW r, Said(L \o A, r)
  PROVE  Said(L \o (<<e>> \o A), r)
<1>1. PICK q : q = L \o A
  OBVIOUS
<1>2. PICK w : w = L \o (<<e>> \o A)
  OBVIOUS
<1>3. /\ Len(L) \in Nat /\ Len(A) \in Nat /\ Len(q) = Len(L) + Len(A) /\ Len(w) = Len(L) + Len(A) + 1
      /\ \A i \in 1 .. Len(L) : w[i] = q[i]
      /\ w[Len(L) + 1] = e
      /\ \A i \in 1 .. Len(q) : i > Len(L) => w[i + 1] = q[i]
  BY <1>1, <1>2, Between
<1>4. \A j \in 1 .. Len(w) : w[j].kind = "instructions" =>
        (j <= Len(L) /\ q[j].kind = "instructions") \/ (j - 1 \in 1 .. Len(q) /\ j - 1 > Len(L) /\ q[j - 1].kind = "instructions")
  <2> SUFFICES ASSUME NEW j \in 1 .. Len(w), w[j].kind = "instructions"
               PROVE  (j <= Len(L) /\ q[j].kind = "instructions") \/ (j - 1 \in 1 .. Len(q) /\ j - 1 > Len(L) /\ q[j - 1].kind = "instructions")
    OBVIOUS
  <2>1. CASE j <= Len(L)
    BY <1>3, <2>1
  <2>2. CASE j = Len(L) + 1
    BY <1>3, <2>2
  <2>3. CASE j > Len(L) + 1
    <3>1. PICK k : k = j - 1 /\ k \in 1 .. Len(q) /\ k > Len(L) /\ j = k + 1
      BY <1>3, <2>3
    <3> QED BY <1>3, <3>1
  <2> QED BY <1>3, <2>1, <2>2, <2>3
<1>5. CASE r = Cleared /\ \A i \in 1 .. Len(q) : q[i].kind # "instructions"
  <2>1. \A j \in 1 .. Len(w) : w[j].kind # "instructions"
    BY <1>3, <1>4, <1>5
  <2> QED BY <1>2, <1>5, <2>1 DEF Said
<1>6. ASSUME NEW i \in 1 .. Len(q), q[i].kind = "instructions", q[i].text = r, \A j \in 1 .. Len(q) : q[j].kind = "instructions" => j <= i
       PROVE  Said(w, r)
  <2>1. CASE i <= Len(L)
    <3>1. w[i] = q[i] /\ i \in 1 .. Len(w)
      BY <1>3, <2>1
    <3>2. \A j \in 1 .. Len(w) : w[j].kind = "instructions" => j <= i
      BY <1>3, <1>4, <1>6, <2>1
    <3> QED BY <1>6, <3>1, <3>2 DEF Said
  <2>2. CASE i > Len(L)
    <3>1. w[i + 1] = q[i] /\ i + 1 \in 1 .. Len(w)
      BY <1>3, <2>2
    <3>2. \A j \in 1 .. Len(w) : w[j].kind = "instructions" => j <= i + 1
      BY <1>3, <1>4, <1>6, <2>2
    <3> QED BY <1>6, <3>1, <3>2 DEF Said
  <2> QED BY <1>3, <2>1, <2>2
<1> QED BY <1>1, <1>2, <1>5, <1>6 DEF Said

\* A baseline at the end is what the surface says.
LEMMA SaidLast ==
  ASSUME NEW L \in Seq(Messages), NEW e \in Messages, e.kind = "instructions"
  PROVE  Said(L \o <<e>>, e.text)
<1>1. PICK w : w = L \o <<e>>
  OBVIOUS
<1>2. Len(w) = Len(L) + 1 /\ Len(L) \in Nat /\ w[Len(L) + 1] = e
  BY <1>1
<1>3. Len(L) + 1 \in 1 .. Len(w) /\ \A j \in 1 .. Len(w) : j <= Len(L) + 1
  BY <1>2
<1> QED BY <1>1, <1>2, <1>3 DEF Said

\* An empty surface says the cleared text.
LEMMA SaidNothing == \A q : q = <<>> => Said(q, Cleared)
  BY DEF Said

\* BaselinesSaid is kept by every step.
LEMMA SaidStep == PromptKnown /\ BaselinesSaid /\ [PromptNext]_promptVars => BaselinesSaid'
<1> SUFFICES ASSUME PromptKnown, BaselinesSaid, [PromptNext]_promptVars, NEW b \in Team
             PROVE  Said((log[b] \o adds[b])', rendered'[b])
  BY DEF BaselinesSaid
<1>0. Shapes /\ AgentFits(phase[b], adds[b], log[b]) /\ Said(log[b] \o adds[b], rendered[b])
  BY DEF PromptKnown, AgentsKnown, BaselinesSaid
<1>a. AgentsKnown /\ log[b] \in Seq(Messages) /\ adds[b] \in Seq(Messages)
  BY <1>0 DEF PromptKnown, AgentFits
<1>1. CASE Outside
  BY <1>0, <1>1, OutsideSays
<1>2. CASE HostRestarts
  <2>1. adds'[b] = <<>> /\ log' = log /\ rendered'[b] = (IF baselines(log[b]) = {} THEN Cleared ELSE latest(log[b]))
    BY <1>2 DEF HostRestarts
  <2>2. (log[b] \o adds[b])' = log[b]
    BY <1>a, <2>1
  <2>3. Said(log[b], rendered'[b])
    BY <1>a, <2>1, SaidIs
  <2> QED BY <2>2, <2>3
<1>3. ASSUME NEW a \in Team, Waits(a) PROVE Said((log[b] \o adds[b])', rendered'[b])
  BY <1>0, <1>3, <1>a, WaitsSay
<1>4. ASSUME NEW a \in Team, Instructs(a) PROVE Said((log[b] \o adds[b])', rendered'[b])
  <2>1. PICK e \in Messages : Repeats(a) \/ Tells(a, e)
    BY <1>4, InstructsSays
  <2>2. UNCHANGED log /\ adds[a] = <<>>
    BY <1>4, InstructsSays
  <2>3. CASE a # b
    <3>1. adds'[b] = adds[b] /\ rendered'[b] = rendered[b]
      BY <1>0, <2>1, <2>3, Put DEF Repeats, Tells, Shapes
    <3> QED BY <1>0, <2>2, <3>1
  <2>4. CASE a = b /\ UNCHANGED <<adds, rendered>>
    BY <1>0, <2>2, <2>4
  <2>5. CASE a = b /\ UNCHANGED adds /\ upToDate(a) /\ rendered' = [rendered EXCEPT ![a] = Baseline]
    <3>1. Said(log[b], Baseline)
      BY <1>a, <2>5, SaidIs DEF upToDate
    <3>2. rendered'[b] = Baseline /\ adds'[b] = <<>>
      BY <1>0, <2>2, <2>5, Put DEF Shapes
    <3>3. (log[b] \o adds[b])' = log[b]
      BY <1>a, <2>2, <3>2
    <3> QED BY <3>1, <3>2, <3>3
  <2>6. CASE a = b /\ Tells(a, e)
    <3>1. adds'[b] = <<e>> /\ rendered'[b] = Baseline
      BY <1>0, <2>6, Put DEF Tells, Shapes
    <3>2. e.kind = "instructions" /\ e.text = Baseline
      BY <2>6 DEF Tells
    <3>3. Said(log[b] \o <<e>>, Baseline)
      BY <1>a, <3>2, SaidLast
    <3> QED BY <2>2, <3>1, <3>3
  <2> QED BY <2>1, <2>3, <2>4, <2>5, <2>6 DEF Repeats
<1>5. ASSUME NEW a \in Team, Notices(a) PROVE Said((log[b] \o adds[b])', rendered'[b])
  <2>1. PICK e \in Messages : UNCHANGED <<adds, notice>> \/ Takes(a, e)
    BY <1>5, NoticesSay
  <2>2. UNCHANGED <<log, rendered>>
    BY <1>5, NoticesSay
  <2>3. CASE a # b \/ UNCHANGED adds
    <3>1. adds'[b] = adds[b]
      BY <1>0, <2>1, <2>3, Put DEF Takes, Shapes
    <3> QED BY <1>0, <2>2, <3>1
  <2>4. CASE a = b /\ Takes(a, e)
    <3>1. adds' = [adds EXCEPT ![b] = <<e>> \o adds[b]] /\ e.kind # "instructions"
      BY <2>4 DEF Takes
    <3>2. adds'[b] = <<e>> \o adds[b]
      BY <1>0, <3>1, Put DEF Shapes
    <3>3. Said(log[b] \o (<<e>> \o adds[b]), rendered[b])
      BY <1>0, <1>a, <3>1, SaidAround
    <3> QED BY <2>2, <3>2, <3>3
  <2> QED BY <2>1, <2>3, <2>4
<1>6. ASSUME NEW a \in Team, Enters(a) PROVE Said((log[b] \o adds[b])', rendered'[b])
  <2>1. PICK q : q = log[a] \o adds[a]
    OBVIOUS
  <2>2. log' = [log EXCEPT ![a] = q] /\ adds' = [adds EXCEPT ![a] = <<>>] /\ rendered' = rendered
    BY <1>6, <2>1 DEF Enters
  <2>3. CASE a # b
    <3>1. adds'[b] = adds[b] /\ log'[b] = log[b]
      BY <1>0, <2>2, <2>3, Put DEF Shapes
    <3> QED BY <1>0, <2>2, <3>1
  <2>4. CASE a = b
    <3>1. adds'[b] = <<>> /\ log'[b] = q
      BY <1>0, <2>2, <2>4, Put DEF Shapes
    <3>2. q \in Seq(Messages)
      BY <1>a, <2>1, <2>4, Joined
    <3>3. (log[b] \o adds[b])' = q
      BY <3>1, <3>2
    <3> QED BY <1>0, <2>1, <2>2, <2>4, <3>3
  <2> QED BY <2>3, <2>4
<1>7. ASSUME NEW a \in Team, Compacts(a) PROVE Said((log[b] \o adds[b])', rendered'[b])
  <2>1. log' = [log EXCEPT ![a] = <<>>] /\ rendered' = [rendered EXCEPT ![a] = Cleared] /\ UNCHANGED adds /\ phase[a] = "rest"
    BY <1>7 DEF Compacts
  <2>2. CASE a # b
    <3>1. rendered'[b] = rendered[b] /\ log'[b] = log[b]
      BY <1>0, <2>1, <2>2, Put DEF Shapes
    <3> QED BY <1>0, <2>1, <3>1
  <2>3. CASE a = b
    <3>1. rendered'[b] = Cleared /\ log'[b] = <<>>
      BY <1>0, <2>1, <2>3, Put DEF Shapes
    <3>2. adds[b] = <<>>
      BY <1>0, <2>1, <2>3 DEF AgentFits
    <3>3. (log[b] \o adds[b])' = <<>>
      BY <2>1, <3>1, <3>2
    <3> QED BY <3>1, <3>3, SaidNothing
  <2> QED BY <2>2, <2>3
<1> QED BY <1>1, <1>2, <1>3, <1>4, <1>5, <1>6, <1>7, PromptSteps

\* The host starts with nothing said to anyone.
LEMMA PromptStarts == PromptInit => PromptKnown /\ BaselinesSaid
<1> SUFFICES ASSUME PromptInit PROVE PromptKnown /\ BaselinesSaid
  OBVIOUS
<1>1. Cleared \in Texts
  BY DEF Cleared, Layers, Texts
<1>2. StoreKnown
  BY <1>1 DEF PromptInit, StoreKnown
<1>3. notice.kind = "none" /\ notice.n = 0
  BY DEF PromptInit
<1>4. BoxKnown
  BY <1>3 DEF PromptInit, BoxKnown, Kinds
<1>5. \A a \in Team : phase[a] = "rest" /\ adds[a] = <<>> /\ log[a] = <<>> /\ rendered[a] = Cleared
  BY DEF PromptInit
<1>6. AgentFits("rest", <<>>, <<>>)
  BY DEF AgentFits
<1>7. AgentsKnown
  <2>1. Shapes
    BY DEF PromptInit, Shapes
  <2> QED BY <1>5, <1>6, <2>1 DEF AgentsKnown
<1>8. \A a \in Team : log[a] \o adds[a] = <<>>
  BY <1>5
<1>9. BaselinesSaid
  BY <1>5, <1>8, SaidNothing DEF BaselinesSaid
<1> QED BY <1>2, <1>4, <1>7, <1>9 DEF PromptKnown

\* A step runs under the instructions the operator had when it was composed,
\* for any agents and any number of edits, wakes, failures, compactions and
\* restarts (ManagedInstructions.install, latestManagedInstructions).
THEOREM BaselineCurrentHolds == PromptSpec => []BaselineCurrent
<1>1. PromptInit => PromptKnown /\ BaselinesSaid
  BY PromptStarts
<1>2. PromptKnown /\ BaselinesSaid /\ [PromptNext]_promptVars => PromptKnown' /\ BaselinesSaid'
  BY PromptKnownStep, SaidStep
<1>3. PromptKnown /\ BaselinesSaid => BaselineCurrent
  <2> SUFFICES ASSUME PromptKnown, BaselinesSaid, NEW a \in Team, phase[a] = "rest"
               PROVE  IF baselines(log[a]) = {} THEN rendered[a] = Cleared ELSE latest(log[a]) = rendered[a]
    BY DEF BaselineCurrent
  <2>1. adds[a] = <<>> /\ log[a] \in Seq(Messages) /\ Said(log[a] \o adds[a], rendered[a])
    BY DEF PromptKnown, AgentsKnown, AgentFits, BaselinesSaid
  <2>2. Said(log[a], rendered[a])
    BY <2>1
  <2> QED BY <2>1, <2>2, SaidIs
<1> QED BY <1>1, <1>2, <1>3, PTL DEF PromptSpec

\* What the surfaces tell: T is a surface for each agent, nt the number of the
\* notice that waits.  All that is told came before the one that waits.
Once(T, arr, nt) ==
  /\ \A a, b \in Team : \A i \in 1 .. Len(T[a]), j \in 1 .. Len(T[b]) :
       T[a][i].n # 0 /\ T[a][i].n = T[b][j].n => a = b /\ i = j
  /\ \A a \in Team : \A i, j \in 1 .. Len(T[a]) : i < j /\ T[a][i].n # 0 /\ T[a][j].n # 0 => T[a][i].n < T[a][j].n
  /\ \A a \in Team : \A i \in 1 .. Len(T[a]) : T[a][i].n <= arr /\ (nt # 0 => T[a][i].n < nt)
  /\ nt \in {0, arr}
Told(T, arr, nt) == arr > 0 => nt = arr \/ \E a \in Team : \E i \in 1 .. Len(T[a]) : T[a][i].n = arr
\* No place of V numbers an arrival that the same place of T does not.
Keeps(T, V) == \A a \in Team : \A i \in 1 .. Len(V[a]) : V[a][i].n # 0 => i \in 1 .. Len(T[a]) /\ V[a][i].n = T[a][i].n
SurfacesKnown(T) == \A a \in Team : T[a] \in Seq(Messages)
Surfaces == [a \in Team |-> log[a] \o adds[a]]
TellOnce == Once(Surfaces, arrivals, notice.n)
TellLatest == faults = 0 => Told(Surfaces, arrivals, notice.n)

\* The number of a message is a number.
LEMMA NumberIsOne == ASSUME NEW q \in Seq(Messages), NEW i \in 1 .. Len(q) PROVE q[i].n \in Nat
<1>1. PICK e \in Messages : e = q[i]
  OBVIOUS
<1> QED BY <1>1 DEF Messages

\* Surfaces that tell no more than others did, while a notice stays, is
\* forgotten or makes room for that of a new arrival, tell each one once.
LEMMA OnceKeeps ==
  ASSUME NEW T, NEW V, NEW arr \in Nat, NEW nt \in Nat, Once(T, arr, nt),
         SurfacesKnown(V), Keeps(T, V),
         NEW arr2 \in Nat, NEW nt2 \in Nat,
         \/ arr2 = arr /\ nt2 \in {0, nt}
         \/ arr2 = arr + 1 /\ nt2 = arr + 1
  PROVE  Once(V, arr2, nt2)
<1>0. \A a \in Team : \A i \in 1 .. Len(V[a]) : V[a][i].n \in Nat
  BY NumberIsOne DEF SurfacesKnown
<1>1. ASSUME NEW a \in Team, NEW b \in Team, NEW i \in 1 .. Len(V[a]), NEW j \in 1 .. Len(V[b]), V[a][i].n # 0, V[a][i].n = V[b][j].n
      PROVE  a = b /\ i = j
  <2>1. i \in 1 .. Len(T[a]) /\ j \in 1 .. Len(T[b]) /\ T[a][i].n # 0 /\ T[a][i].n = T[b][j].n
    BY <1>1 DEF Keeps
  <2> QED BY <2>1 DEF Once
<1>2. ASSUME NEW a \in Team, NEW i \in 1 .. Len(V[a]), NEW j \in 1 .. Len(V[a]), i < j, V[a][i].n # 0, V[a][j].n # 0
      PROVE  V[a][i].n < V[a][j].n
  <2>1. i \in 1 .. Len(T[a]) /\ j \in 1 .. Len(T[a]) /\ T[a][i].n = V[a][i].n /\ T[a][j].n = V[a][j].n
    BY <1>2 DEF Keeps
  <2> QED BY <1>2, <2>1 DEF Once
<1>3. ASSUME NEW a \in Team, NEW i \in 1 .. Len(V[a]) PROVE V[a][i].n <= arr2 /\ (nt2 # 0 => V[a][i].n < nt2)
  <2>1. PICK x : x = V[a][i].n
    OBVIOUS
  <2>2. x \in Nat
    BY <1>0, <2>1
  <2>3. x # 0 => x <= arr /\ (nt # 0 => x < nt)
    <3>1. x # 0 => i \in 1 .. Len(T[a]) /\ x = T[a][i].n
      BY <2>1 DEF Keeps
    <3> QED BY <3>1 DEF Once
  <2> QED BY <2>1, <2>2, <2>3
<1>4. nt2 \in {0, arr2}
  BY DEF Once
<1> QED BY <1>1, <1>2, <1>3, <1>4 DEF Once

\* The notice that waits is told behind all that is told, and told no more.
LEMMA OnceTakes ==
  ASSUME NEW T, NEW V, NEW arr \in Nat, NEW nt \in Nat, nt # 0, Once(T, arr, nt),
         \A a \in Team : T[a] \in Seq(Messages) /\ V[a] \in Seq(Messages),
         NEW c \in Team, NEW k \in Nat, k \in 1 .. Len(V[c]), V[c][k].n = nt,
         \A i \in 1 .. Len(V[c]) : V[c][i].n # 0 /\ i # k => i < k /\ i \in 1 .. Len(T[c]) /\ V[c][i].n = T[c][i].n,
         \A a \in Team : a # c => V[a] = T[a]
  PROVE  Once(V, arr, 0)
<1>0. \A a \in Team : \A i \in 1 .. Len(V[a]) : V[a][i].n \in Nat
  BY NumberIsOne
<1>1. ASSUME NEW a \in Team, NEW i \in 1 .. Len(V[a]), V[a][i].n # 0, ~(a = c /\ i = k)
      PROVE  i \in 1 .. Len(T[a]) /\ V[a][i].n = T[a][i].n /\ V[a][i].n < nt
  <2>1. i \in 1 .. Len(T[a]) /\ V[a][i].n = T[a][i].n
    BY <1>1
  <2> QED BY <2>1 DEF Once
<1>2. ASSUME NEW a \in Team, NEW b \in Team, NEW i \in 1 .. Len(V[a]), NEW j \in 1 .. Len(V[b]), V[a][i].n # 0, V[a][i].n = V[b][j].n
      PROVE  a = b /\ i = j
  <2>1. CASE ~(a = c /\ i = k) /\ ~(b = c /\ j = k)
    <3>1. i \in 1 .. Len(T[a]) /\ j \in 1 .. Len(T[b]) /\ T[a][i].n # 0 /\ T[a][i].n = T[b][j].n
      BY <1>1, <1>2, <2>1
    <3> QED BY <3>1 DEF Once
  <2>2. CASE (a = c /\ i = k) /\ ~(b = c /\ j = k)
    <3>1. V[b][j].n < nt /\ V[b][j].n = nt
      BY <1>1, <1>2, <2>2
    <3> QED BY <3>1
  <2>3. CASE ~(a = c /\ i = k) /\ (b = c /\ j = k)
    <3>1. V[a][i].n < nt /\ V[a][i].n = nt
      BY <1>1, <1>2, <2>3
    <3> QED BY <3>1
  <2> QED BY <2>1, <2>2, <2>3
<1>3. ASSUME NEW a \in Team, NEW i \in 1 .. Len(V[a]), NEW j \in 1 .. Len(V[a]), i < j, V[a][i].n # 0, V[a][j].n # 0
      PROVE  V[a][i].n < V[a][j].n
  <2>1. CASE a = c /\ j = k
    <3>1. V[a][i].n < nt /\ V[a][j].n = nt
      BY <1>1, <1>3, <2>1
    <3> QED BY <3>1
  <2>2. CASE ~(a = c /\ j = k)
    <3>1. ~(a = c /\ i = k)
      <4>1. a = c => j < k
        BY <1>3, <2>2
      <4>2. Len(V[a]) \in Nat
        OBVIOUS
      <4> QED BY <1>3, <4>1, <4>2
    <3>2. i \in 1 .. Len(T[a]) /\ V[a][i].n = T[a][i].n /\ j \in 1 .. Len(T[a]) /\ V[a][j].n = T[a][j].n
      BY <1>1, <1>3, <2>2, <3>1
    <3> QED BY <1>3, <3>2 DEF Once
  <2> QED BY <2>1, <2>2
<1>4. ASSUME NEW a \in Team, NEW i \in 1 .. Len(V[a]) PROVE V[a][i].n <= arr
  <2>1. PICK x : x = V[a][i].n
    OBVIOUS
  <2>2. x \in Nat /\ nt = arr
    BY <1>0, <2>1 DEF Once
  <2>3. x # 0 => x = nt \/ x < nt
    BY <1>1, <2>1
  <2> QED BY <2>1, <2>2, <2>3
<1> QED BY <1>2, <1>3, <1>4 DEF Once

\* What a step does to the surfaces, V for T: nobody is told anything more, or
\* one agent, and that one the notice that waits.
Holds(T, V) == \A a \in Team : \A i \in 1 .. Len(T[a]) : i \in 1 .. Len(V[a]) /\ V[a][i] = T[a][i]
Tucks(T, V, nt) ==
  \E c \in Team : \E k \in Nat :
    /\ k \in 1 .. Len(V[c]) /\ V[c][k].n = nt
    /\ \A i \in 1 .. Len(V[c]) : V[c][i].n # 0 /\ i # k => i < k /\ i \in 1 .. Len(T[c]) /\ V[c][i].n = T[c][i].n
    /\ \A a \in Team : a # c => V[a] = T[a]

\* The surfaces are sequences of messages.
LEMMA SurfacesAre == ASSUME AgentsKnown PROVE SurfacesKnown(Surfaces)
<1> SUFFICES ASSUME NEW a \in Team PROVE Surfaces[a] \in Seq(Messages)
  BY DEF SurfacesKnown
<1>1. log[a] \in Seq(Messages) /\ adds[a] \in Seq(Messages)
  BY DEF AgentsKnown, AgentFits
<1> QED BY <1>1, Joined DEF Surfaces

\* A message at the end that numbers nothing tells nothing.
LEMMA KeepsBehind ==
  ASSUME NEW L \in Seq(Messages), NEW e \in Messages, e.n = 0, NEW q, q = L \o <<>>, NEW w, w = L \o <<e>>
  PROVE  /\ \A i \in 1 .. Len(w) : w[i].n # 0 => i \in 1 .. Len(q) /\ w[i].n = q[i].n
         /\ \A i \in 1 .. Len(q) : i \in 1 .. Len(w) /\ w[i] = q[i]
<1>1. q = L /\ Len(L) \in Nat
  OBVIOUS
<1>2. Len(w) = Len(L) + 1 /\ w[Len(L) + 1] = e /\ \A i \in 1 .. Len(L) : w[i] = L[i]
  OBVIOUS
<1>3. \A i \in 1 .. Len(w) : i \in 1 .. Len(L) \/ i = Len(L) + 1
  BY <1>1, <1>2
<1> QED BY <1>1, <1>2, <1>3

\* Steps of the four kinds.
LEMMA SurfaceSteps ==
  ASSUME PromptKnown, [PromptNext]_promptVars
  PROVE  \/ Surfaces' = Surfaces /\ (notice' = notice \/ notice'.n = arrivals')
         \/ Keeps(Surfaces, Surfaces') /\ Holds(Surfaces, Surfaces') /\ UNCHANGED <<notice, arrivals>>
         \/ Keeps(Surfaces, Surfaces') /\ faults' = faults + 1 /\ UNCHANGED arrivals /\ notice'.n \in {0, notice.n}
         \/ Tucks(Surfaces, Surfaces', notice.n) /\ notice.n # 0 /\ UNCHANGED <<arrivals, faults>> /\ notice'.n = 0
<1>0. AgentsKnown /\ Shapes /\ SurfacesKnown(Surfaces) /\ \A a \in Team : AgentFits(phase[a], adds[a], log[a])
  BY SurfacesAre DEF PromptKnown, AgentsKnown
<1>a. \A a \in Team : log[a] \in Seq(Messages) /\ adds[a] \in Seq(Messages)
  BY <1>0 DEF AgentFits
<1>b. /\ \A a \in Team : Surfaces[a] = log[a] \o adds[a]
      /\ \A a \in Team : Surfaces'[a] = log'[a] \o adds'[a]
  BY DEF Surfaces
<1>1. CASE Outside
  <2>1. UNCHANGED <<adds, log>> /\ (notice' = notice \/ notice'.n = arrivals')
    BY <1>1, OutsideSays
  <2> QED BY <2>1 DEF Surfaces
<1>2. CASE HostRestarts
  <2>1. adds' = [a \in Team |-> <<>>] /\ log' = log /\ faults' = faults + 1 /\ UNCHANGED arrivals /\ notice' = [kind |-> "none", n |-> 0]
    BY <1>2 DEF HostRestarts
  <2>2. notice'.n = 0
    BY <2>1
  <2>3. ASSUME NEW a \in Team, NEW i \in 1 .. Len(Surfaces'[a]) PROVE i \in 1 .. Len(Surfaces[a]) /\ Surfaces'[a][i] = Surfaces[a][i]
    <3>1. PICK L \in Seq(Messages), A \in Seq(Messages) : L = log[a] /\ A = adds[a]
      BY <1>a
    <3>2. PICK q : q = L \o A
      OBVIOUS
    <3>3. Surfaces[a] = q /\ Surfaces'[a] = L \o <<>>
      BY <1>b, <2>1, <3>1, <3>2
    <3>4. L \o <<>> = L
      OBVIOUS
    <3>5. Len(L) \in Nat /\ Len(A) \in Nat /\ Len(q) = Len(L) + Len(A) /\ \A j \in 1 .. Len(L) : q[j] = L[j]
      BY <3>2, Joined
    <3>6. i \in 1 .. Len(L)
      BY <2>3, <3>3, <3>4
    <3> QED BY <3>3, <3>4, <3>5, <3>6
  <2>4. Keeps(Surfaces, Surfaces')
    BY <2>3 DEF Keeps
  <2> QED BY <2>1, <2>2, <2>4
<1>3. CASE \E a \in Team : Waits(a)
  <2>1. UNCHANGED <<adds, log>> /\ (notice' = notice \/ notice'.n = arrivals')
    BY <1>0, <1>3, WaitsSay
  <2> QED BY <2>1 DEF Surfaces
<1>4. ASSUME NEW a \in Team, Instructs(a)
      PROVE  Keeps(Surfaces, Surfaces') /\ Holds(Surfaces, Surfaces') /\ UNCHANGED <<notice, arrivals>>
  <2>1. PICK e \in Messages : Repeats(a) \/ Tells(a, e)
    BY <1>4, InstructsSays
  <2>2. UNCHANGED <<log, notice, arrivals>> /\ adds[a] = <<>>
    BY <1>4, InstructsSays
  <2>3. CASE Repeats(a)
    <3>1. Surfaces' = Surfaces
      BY <2>2, <2>3 DEF Repeats, Surfaces
    <3> QED BY <2>2, <3>1 DEF Keeps, Holds
  <2>4. CASE Tells(a, e)
    <3>1. e.n = 0 /\ adds'[a] = <<e>> /\ \A b \in Team : b # a => adds'[b] = adds[b]
      BY <1>0, <2>4, Put DEF Tells, Shapes
    <3>2. \A b \in Team : b # a => Surfaces'[b] = Surfaces[b]
      BY <1>b, <2>2, <3>1
    <3>3. Surfaces[a] = log[a] \o <<>> /\ Surfaces'[a] = log[a] \o <<e>>
      BY <1>b, <2>2, <3>1
    <3>4. /\ \A i \in 1 .. Len(Surfaces'[a]) : Surfaces'[a][i].n # 0 => i \in 1 .. Len(Surfaces[a]) /\ Surfaces'[a][i].n = Surfaces[a][i].n
          /\ \A i \in 1 .. Len(Surfaces[a]) : i \in 1 .. Len(Surfaces'[a]) /\ Surfaces'[a][i] = Surfaces[a][i]
      BY <1>a, <2>1, <3>1, <3>3, KeepsBehind
    <3> QED BY <2>2, <3>2, <3>4 DEF Keeps, Holds
  <2> QED BY <2>1, <2>3, <2>4
<1>5. ASSUME NEW a \in Team, Notices(a)
      PROVE  \/ Surfaces' = Surfaces /\ notice' = notice
             \/ Tucks(Surfaces, Surfaces', notice.n) /\ notice.n # 0 /\ UNCHANGED <<arrivals, faults>> /\ notice'.n = 0
  <2>1. PICK e \in Messages : UNCHANGED <<adds, notice>> \/ Takes(a, e)
    BY <1>5, NoticesSay
  <2>2. UNCHANGED <<log, arrivals, faults>> /\ phase[a] = "noticing"
    BY <1>5, NoticesSay
  <2>3. CASE UNCHANGED <<adds, notice>>
    BY <2>2, <2>3 DEF Surfaces
  <2>4. CASE Takes(a, e)
    <3>1. notice.n # 0 /\ e.n = notice.n /\ notice' = [kind |-> "none", n |-> 0] /\ adds' = [adds EXCEPT ![a] = <<e>> \o adds[a]]
      BY <2>4 DEF Takes
    <3>2. notice'.n = 0
      BY <3>1
    <3>3. adds'[a] = <<e>> \o adds[a] /\ \A b \in Team : b # a => adds'[b] = adds[b]
      BY <1>0, <3>1, Put DEF Shapes
    <3>4. \A b \in Team : b # a => Surfaces'[b] = Surfaces[b]
      BY <1>b, <2>2, <3>3
    <3>6. PICK L \in Seq(Messages), A \in Seq(Messages) : L = log[a] /\ A = adds[a]
      BY <1>a
    <3>5. PICK w, q : w = Surfaces'[a] /\ q = Surfaces[a] /\ w = L \o (<<e>> \o A) /\ q = L \o A
      BY <1>b, <2>2, <3>3, <3>6
    <3>7. /\ Len(L) \in Nat /\ Len(A) \in Nat /\ Len(q) = Len(L) + Len(A) /\ Len(w) = Len(L) + Len(A) + 1
          /\ \A i \in 1 .. Len(A) : q[Len(L) + i] = A[i]
          /\ \A i \in 1 .. Len(L) : w[i] = q[i]
          /\ w[Len(L) + 1] = e
          /\ \A i \in 1 .. Len(q) : i > Len(L) => w[i + 1] = q[i]
      BY <3>5, Between
    <3>8. \A i \in 1 .. Len(A) : A[i].n = 0
      BY <1>0, <2>2, <3>6 DEF AgentFits
    <3>9. ASSUME NEW i \in 1 .. Len(w), w[i].n # 0, i # Len(L) + 1 PROVE i < Len(L) + 1 /\ i \in 1 .. Len(q) /\ w[i].n = q[i].n
      <4>1. CASE i <= Len(L)
        BY <3>7, <4>1
      <4>2. CASE i > Len(L) + 1
        <5>1. PICK j : j = i - 1 /\ j \in 1 .. Len(q) /\ j > Len(L) /\ i = j + 1
          BY <3>7, <4>2
        <5>2. PICK h : h = j - Len(L) /\ h \in 1 .. Len(A) /\ j = Len(L) + h
          BY <3>7, <5>1
        <5>3. w[i] = A[h]
          BY <3>7, <5>1, <5>2
        <5> QED BY <3>8, <3>9, <5>2, <5>3
      <4> QED BY <3>7, <3>9, <4>1, <4>2
    <3>10. Len(L) + 1 \in 1 .. Len(w) /\ Len(L) + 1 \in Nat
      BY <3>7
    <3>11. PICK k : k = Len(L) + 1
      OBVIOUS
    <3>12. /\ k \in Nat /\ k \in 1 .. Len(w) /\ w[k].n = notice.n
           /\ \A i \in 1 .. Len(w) : w[i].n # 0 /\ i # k => i < k /\ i \in 1 .. Len(q) /\ w[i].n = q[i].n
      BY <3>1, <3>7, <3>9, <3>10, <3>11
    <3>13. Tucks(Surfaces, Surfaces', notice.n)
      BY <3>4, <3>5, <3>12 DEF Tucks
    <3> QED BY <2>2, <3>1, <3>2, <3>13
  <2> QED BY <2>1, <2>3, <2>4
<1>6. ASSUME NEW a \in Team, Enters(a) PROVE Surfaces' = Surfaces /\ notice' = notice
  <2>1. PICK q : q = log[a] \o adds[a] /\ q \in Seq(Messages)
    BY <1>a, Joined
  <2>2. log' = [log EXCEPT ![a] = q] /\ adds' = [adds EXCEPT ![a] = <<>>] /\ notice' = notice
    BY <1>6, <2>1 DEF Enters, boxVars
  <2>3. log'[a] = q /\ adds'[a] = <<>> /\ \A b \in Team : b # a => log'[b] = log[b] /\ adds'[b] = adds[b]
    BY <1>0, <2>2, Put DEF Shapes
  <2>4. q \o <<>> = q
    BY <2>1
  <2>5. \A b \in Team : log'[b] \o adds'[b] = log[b] \o adds[b]
    BY <2>1, <2>3, <2>4
  <2> QED BY <2>2, <2>5 DEF Surfaces
<1>7. ASSUME NEW a \in Team, Compacts(a)
      PROVE  Keeps(Surfaces, Surfaces') /\ faults' = faults + 1 /\ UNCHANGED <<arrivals, notice>>
  <2>1. log' = [log EXCEPT ![a] = <<>>] /\ UNCHANGED <<adds, notice, arrivals>> /\ phase[a] = "rest" /\ faults' = faults + 1
    BY <1>7 DEF Compacts, boxVars
  <2>2. log'[a] = <<>> /\ adds[a] = <<>> /\ \A b \in Team : b # a => log'[b] = log[b]
    BY <1>0, <2>1, Put DEF Shapes, AgentFits
  <2>3. Surfaces'[a] = <<>> /\ \A b \in Team : b # a => Surfaces'[b] = Surfaces[b]
    <3>1. Surfaces'[a] = <<>> \o <<>>
      BY <1>b, <2>1, <2>2
    <3>2. <<>> \o <<>> = <<>>
      OBVIOUS
    <3> QED BY <1>b, <2>1, <2>2, <3>1, <3>2
  <2>4. \A i \in 1 .. Len(Surfaces'[a]) : FALSE
    BY <2>3
  <2> QED BY <2>1, <2>3, <2>4 DEF Keeps
<1> QED BY <1>1, <1>2, <1>3, <1>4, <1>5, <1>6, <1>7, PromptSteps

\* TellOnce and TellLatest are kept by every step.
LEMMA TellStep == PromptKnown /\ TellOnce /\ TellLatest /\ [PromptNext]_promptVars => TellOnce' /\ TellLatest'
<1> SUFFICES ASSUME PromptKnown, TellOnce, TellLatest, [PromptNext]_promptVars PROVE TellOnce' /\ TellLatest'
  OBVIOUS
<1>1. PICK T, V : T = Surfaces /\ V = Surfaces'
  OBVIOUS
<1>2. PICK nt, nt2 : nt = notice.n /\ nt2 = notice'.n
  OBVIOUS
<1>3. /\ nt \in Nat /\ nt2 \in Nat /\ arrivals \in Nat /\ arrivals' \in Nat /\ faults \in Nat
      /\ \A a \in Team : T[a] \in Seq(Messages) /\ V[a] \in Seq(Messages)
  <2>1. BoxKnown /\ BoxKnown' /\ AgentsKnown /\ AgentsKnown'
    BY PromptKnownStep DEF PromptKnown
  <2>2. SurfacesKnown(T) /\ SurfacesKnown(V)
    <3>1. (AgentsKnown => SurfacesKnown(Surfaces))'
      BY SurfacesAre, PTL
    <3>2. SurfacesKnown(Surfaces')
      BY <2>1, <3>1 DEF SurfacesKnown
    <3> QED BY <1>1, <2>1, <3>2, SurfacesAre
  <2> QED BY <1>2, <2>1, <2>2 DEF BoxKnown, SurfacesKnown
<1>4. Once(T, arrivals, nt) /\ (faults = 0 => Told(T, arrivals, nt))
  BY <1>1, <1>2 DEF TellOnce, TellLatest
<1>5. \/ arrivals' = arrivals /\ nt2 \in {0, nt}
      \/ arrivals' = arrivals + 1 /\ nt2 = arrivals + 1
  <2>1. notice' = [kind |-> "none", n |-> 0] => notice'.n = 0
    OBVIOUS
  <2>2. notice' = [kind |-> box, n |-> arrivals + 1] => notice'.n = arrivals + 1
    OBVIOUS
  <2> QED BY <1>2, <2>1, <2>2, NoticesMove DEF NoticeMoves
<1>6. faults' = 0 => faults = 0 /\ faults' = faults
  BY <1>3, NoticesMove DEF BoxMoves
<1>7. \/ V = T /\ (nt2 = nt \/ nt2 = arrivals')
      \/ Keeps(T, V) /\ Holds(T, V) /\ nt2 = nt /\ arrivals' = arrivals
      \/ Keeps(T, V) /\ faults' = faults + 1
      \/ Tucks(T, V, nt) /\ nt # 0 /\ arrivals' = arrivals /\ nt2 = 0
  <2>1. \/ V = T /\ (notice' = notice \/ notice'.n = arrivals')
        \/ Keeps(T, V) /\ Holds(T, V) /\ UNCHANGED <<notice, arrivals>>
        \/ Keeps(T, V) /\ faults' = faults + 1
        \/ Tucks(T, V, nt) /\ nt # 0 /\ UNCHANGED <<arrivals, faults>> /\ nt2 = 0
    BY <1>1, <1>2, SurfaceSteps, Zenon
  <2>2. notice' = notice => nt2 = nt
    BY <1>2
  <2> QED BY <1>2, <2>1, <2>2
<1>8. ASSUME Keeps(T, V) PROVE Once(V, arrivals', nt2)
  <2>1. PICK m, m2 : m = arrivals /\ m2 = arrivals'
    OBVIOUS
  <2>2. SurfacesKnown(V)
    BY <1>3 DEF SurfacesKnown
  <2>3. m \in Nat /\ m2 \in Nat /\ nt \in Nat /\ nt2 \in Nat /\ Once(T, m, nt)
        /\ ((m2 = m /\ nt2 \in {0, nt}) \/ (m2 = m + 1 /\ nt2 = m + 1))
    BY <1>3, <1>4, <1>5, <2>1
  <2>4. Once(V, m2, nt2)
    BY <1>8, <2>2, <2>3, OnceKeeps
  <2> QED BY <2>1, <2>4
<1>9. CASE V = T /\ (nt2 = nt \/ nt2 = arrivals')
  <2>1. Keeps(T, V)
    BY <1>9 DEF Keeps
  <2>2. ASSUME faults' = 0 PROVE Told(V, arrivals', nt2)
    <3>1. Told(T, arrivals, nt)
      BY <1>4, <1>6, <2>2
    <3> QED BY <1>3, <1>5, <1>9, <3>1 DEF Told
  <2> QED BY <1>1, <1>2, <1>8, <2>1, <2>2 DEF TellOnce, TellLatest
<1>10. CASE Keeps(T, V) /\ Holds(T, V) /\ nt2 = nt /\ arrivals' = arrivals
  <2>1. ASSUME faults' = 0 PROVE Told(V, arrivals', nt2)
    <3>1. Told(T, arrivals, nt)
      BY <1>4, <1>6, <2>1
    <3>2. ASSUME NEW a \in Team, NEW i \in 1 .. Len(T[a]), T[a][i].n = arrivals PROVE \E j \in 1 .. Len(V[a]) : V[a][j].n = arrivals
      BY <1>10, <3>2 DEF Holds
    <3> QED BY <1>10, <3>1, <3>2 DEF Told
  <2> QED BY <1>1, <1>2, <1>8, <1>10, <2>1 DEF TellOnce, TellLatest
<1>11. CASE Keeps(T, V) /\ faults' = faults + 1
  <2>1. faults' # 0
    BY <1>3, <1>11
  <2> QED BY <1>1, <1>2, <1>8, <1>11, <2>1 DEF TellOnce, TellLatest
<1>12. CASE Tucks(T, V, nt) /\ nt # 0 /\ arrivals' = arrivals /\ nt2 = 0
  <2>1. PICK c \in Team : \E k \in Nat :
          /\ k \in 1 .. Len(V[c]) /\ V[c][k].n = nt
          /\ \A i \in 1 .. Len(V[c]) : V[c][i].n # 0 /\ i # k => i < k /\ i \in 1 .. Len(T[c]) /\ V[c][i].n = T[c][i].n
          /\ \A a \in Team : a # c => V[a] = T[a]
    BY <1>12 DEF Tucks
  <2>2. PICK k \in Nat :
          /\ k \in 1 .. Len(V[c]) /\ V[c][k].n = nt
          /\ \A i \in 1 .. Len(V[c]) : V[c][i].n # 0 /\ i # k => i < k /\ i \in 1 .. Len(T[c]) /\ V[c][i].n = T[c][i].n
          /\ \A a \in Team : a # c => V[a] = T[a]
    BY <2>1
  <2>3. Once(V, arrivals, 0)
    BY <1>3, <1>4, <1>12, <2>2, OnceTakes
  <2>4. nt = arrivals
    BY <1>4, <1>12 DEF Once
  <2>5. Told(V, arrivals, 0)
    BY <2>2, <2>4 DEF Told
  <2> QED BY <1>1, <1>2, <1>12, <2>3, <2>5 DEF TellOnce, TellLatest
<1> QED BY <1>7, <1>9, <1>10, <1>11, <1>12

\* "the notice rides exactly one step" (SandboxNotices.take): for any agents,
\* each arrival of the sandbox is told once, in order, and the latest is told
\* or still waits to be.
THEOREM NoticeOnceHolds == PromptSpec => []NoticeOnce
<1>1. PromptInit => PromptKnown /\ TellOnce /\ TellLatest
  <2> SUFFICES ASSUME PromptInit PROVE PromptKnown /\ TellOnce /\ TellLatest
    OBVIOUS
  <2>1. PromptKnown
    BY PromptStarts
  <2>2. notice.n = 0 /\ arrivals = 0
    BY DEF PromptInit
  <2>3. \A a \in Team : adds[a] = <<>> /\ log[a] = <<>>
    BY DEF PromptInit
  <2>4. <<>> \o <<>> = <<>>
    OBVIOUS
  <2>5. \A a \in Team : Surfaces[a] = <<>>
    BY <2>3, <2>4 DEF Surfaces
  <2>6. PICK T : T = Surfaces
    OBVIOUS
  <2>7. \A a \in Team : \A i \in 1 .. Len(T[a]) : FALSE
    BY <2>5, <2>6
  <2>8. Once(T, 0, 0) /\ Told(T, 0, 0)
    BY <2>7 DEF Once, Told
  <2> QED BY <2>1, <2>2, <2>6, <2>8 DEF TellOnce, TellLatest
<1>2. PromptKnown /\ TellOnce /\ TellLatest /\ [PromptNext]_promptVars => PromptKnown' /\ TellOnce' /\ TellLatest'
  BY PromptKnownStep, TellStep
<1>3. PromptKnown /\ TellOnce /\ TellLatest => NoticeOnce
  <2> SUFFICES ASSUME PromptKnown, TellOnce, TellLatest PROVE NoticeOnce
    OBVIOUS
  <2>1. PICK T : T = Surfaces
    OBVIOUS
  <2>2. Once(T, arrivals, notice.n) /\ (faults = 0 => Told(T, arrivals, notice.n))
    BY <2>1 DEF TellOnce, TellLatest
  <2>3. \A a \in Team : log[a] \o adds[a] = T[a] /\ T[a] \in Seq(Messages)
    BY <2>1, SurfacesAre DEF PromptKnown, SurfacesKnown, Surfaces
  <2>4. \A a \in Team : DOMAIN T[a] = 1 .. Len(T[a])
    BY <2>3
  <2>5. \A a, b \in Team : \A i \in DOMAIN T[a], j \in DOMAIN T[b] : T[a][i].n # 0 /\ T[b][j].n # 0 /\ T[a][i].n = T[b][j].n => a = b /\ i = j
    BY <2>2, <2>4 DEF Once
  <2>6. \A a \in Team : \A i, j \in DOMAIN T[a] : T[a][i].n # 0 /\ T[a][j].n # 0 /\ i < j => T[a][i].n < T[a][j].n
    BY <2>2, <2>4 DEF Once
  <2>7. faults = 0 /\ arrivals > 0 => notice.n = arrivals \/ \E a \in Team : \E i \in DOMAIN T[a] : T[a][i].n # 0 /\ T[a][i].n = arrivals
    BY <2>2, <2>4 DEF Told
  <2> DEFINE surface(a) == log[a] \o adds[a]
             told(a) == {i \in DOMAIN surface(a) : surface(a)[i].n # 0}
  <2>8. \A a \in Team : surface(a) = T[a] /\ told(a) = {i \in DOMAIN T[a] : T[a][i].n # 0}
    BY <2>3
  <2> HIDE DEF surface, told
  <2>9. \A a, b \in Team : \A i \in told(a), j \in told(b) : surface(a)[i].n = surface(b)[j].n => a = b /\ i = j
    BY <2>5, <2>8
  <2>10. \A a \in Team : \A i, j \in told(a) : i < j => surface(a)[i].n < surface(a)[j].n
    BY <2>6, <2>8
  <2>11. faults = 0 /\ arrivals > 0 => notice.n = arrivals \/ \E a \in Team : \E i \in told(a) : surface(a)[i].n = arrivals
    BY <2>7, <2>8
  <2> QED BY <2>9, <2>10, <2>11 DEF NoticeOnce, surface, told
<1> QED BY <1>1, <1>2, <1>3, PTL DEF PromptSpec
=============================================================================
