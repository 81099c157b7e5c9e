-------------------------- MODULE SandboxWorkProofs --------------------------
(***************************************************************************)
(* What is done inside a sandbox, proved for every value of the constants: *)
(* the files calls change (SandboxFiles), the setup of its workspace       *)
(* (RunnerSetup) and the index of its files that the host keeps            *)
(* (FileReference).                                                        *)
(***************************************************************************)
EXTENDS SandboxFiles, RunnerSetup, FileReference, TLAPS

-----------------------------------------------------------------------------
(***************************************************************************)
(* SandboxFiles, for any paths, agents, attachments and number of writes.   *)
(***************************************************************************)

IsOp(o) == o = [k |-> o.k, at |-> o.at, p |-> o.p, q |-> o.q, exp |-> o.exp, dst |-> o.dst, ver |-> o.ver,
                text |-> o.text, raced |-> o.raced]

\* A call past its check holds the lock of the path it is about to change.
Locked(o, d, L) ==
  /\ o.at # "rest" => o.p \in Paths /\ o.q \in Paths
  /\ o.at = "commit" => L[target(o)] = d
  /\ o.at = "remove" => L[o.p] = d

\* The text a patch or a move has read is that of the version its guard names,
\* if the path still has that version: versions never come back.
TextOfVersion(o, F, V) ==
  /\ o.exp \in Nat /\ (o.exp <= V \/ o.exp = Unguarded)
  /\ o.k = "patch" => o.exp # 0
  /\ o.k = "patch" /\ o.at = "check" /\ F[o.p].ver = o.exp => o.text = F[o.p].text
  /\ o.k = "move" /\ o.at \in {"read", "check", "commit", "unlink"} => o.ver \in 1 .. V /\ o.exp \in {Unguarded, o.ver}
  /\ o.k = "move" /\ o.at \in {"check", "commit", "unlink"} /\ F[o.p].ver = o.ver => o.text = F[o.p].text

Honoured(o, F) ==
  ~o.raced =>
    /\ o.at = "commit" /\ guardOf(o) # Unguarded =>
         F[target(o)].ver = guardOf(o) /\ (o.k = "patch" => o.text = F[target(o)].text)
    /\ o.at = "remove" /\ o.k = "move" => o.text = F[o.p].text

Stands(o, d, F, V, L) == IsOp(o) /\ Locked(o, d, L) /\ TextOfVersion(o, F, V) /\ Honoured(o, F)

Versioned(F, V) ==
  /\ F = [p \in Paths |-> F[p]] /\ V \in Nat /\ V <= MaxVersions
  /\ \A p \in Paths : F[p].ver \in Nat /\ F[p].ver <= V
FilesInv ==
  /\ Versioned(file, versions)
  /\ op = [c \in Callers |-> op[c]] /\ lockOf = [p \in Paths |-> lockOf[p]]
  /\ \A c \in Callers : Stands(op[c], c, file, versions, lockOf)

Rewritten(G, F, t, w) == G = [F EXCEPT ![t] = w]

\* A path's file changes under a call that does not hold its lock, or that is
\* marked as raced.
LEMMA FileMoves ==
  ASSUME NEW o, NEW d, NEW F, NEW V, NEW L, Stands(o, d, F, V, L), Versioned(F, V),
         NEW t \in Paths, NEW w, NEW G, Rewritten(G, F, t, w), NEW W, W \in {V, V + 1}, W <= MaxVersions,
         w.ver = 0 \/ (w.ver = V + 1 /\ W = V + 1), NEW M, \A p \in Paths : p # t => M[p] = L[p],
         L[t] # d \/ (o.raced /\ M[t] = d)
  PROVE  Stands(o, d, G, W, M)
<1> USE FilesAssumption
<1>1. /\ \A p \in Paths : p # t => G[p] = F[p]
      /\ G[t] = w
  BY DEF Versioned, Rewritten
<1>2. target(o) \in {o.p, o.q}
  BY DEF target
<1>3. Locked(o, d, M)
  BY <1>2 DEF Stands, Locked
<1>4. TextOfVersion(o, G, W)
  <2>1. o.exp \in Nat /\ (o.exp <= W \/ o.exp = Unguarded) /\ V \in Nat /\ W \in Nat /\ V <= W
    BY DEF Stands, TextOfVersion, Versioned
  <2>2. ASSUME o.k = "patch", o.at = "check", G[o.p].ver = o.exp PROVE o.text = G[o.p].text
    <3>1. o.p \in Paths /\ o.exp # 0
      BY <2>2 DEF Stands, TextOfVersion, Locked
    <3>2. CASE o.p = t
      <4>1. o.exp = V + 1
        BY <1>1, <2>2, <3>1, <3>2
      <4>2. o.exp = Unguarded
        BY <2>1, <4>1 DEF Stands, TextOfVersion, Unguarded
      <4>3. W = V + 1
        BY <1>1, <2>2, <3>1, <3>2
      <4> QED BY <2>1, <4>1, <4>2, <4>3 DEF Unguarded
    <3>3. CASE o.p # t
      BY <1>1, <2>2, <3>1, <3>3 DEF Stands, TextOfVersion
    <3> QED BY <3>2, <3>3
  <2>3. ASSUME o.k = "move", o.at \in {"read", "check", "commit", "unlink"}
        PROVE  o.ver \in 1 .. W /\ o.exp \in {Unguarded, o.ver} /\ o.ver \in 1 .. V
    BY <2>1, <2>3 DEF Stands, TextOfVersion
  <2>4. ASSUME o.k = "move", o.at \in {"check", "commit", "unlink"}, G[o.p].ver = o.ver PROVE o.text = G[o.p].text
    <3>1. o.p \in Paths /\ o.ver \in 1 .. V
      BY <2>3, <2>4 DEF Stands, Locked
    <3>2. CASE o.p = t
      BY <1>1, <2>1, <2>4, <3>1, <3>2
    <3>3. CASE o.p # t
      BY <1>1, <2>4, <3>1, <3>3 DEF Stands, TextOfVersion
    <3> QED BY <3>2, <3>3
  <2> QED BY <2>1, <2>2, <2>3, <2>4 DEF Stands, TextOfVersion
<1>5. Honoured(o, G)
  <2>1. CASE o.raced
    BY <2>1 DEF Honoured
  <2>2. CASE ~o.raced
    <3>1. o.at = "commit" => target(o) \in Paths /\ target(o) # t
      BY <1>2, <2>2 DEF Stands, Locked
    <3>2. o.at = "remove" => o.p \in Paths /\ o.p # t
      BY <2>2 DEF Stands, Locked
    <3> QED BY <1>1, <3>1, <3>2 DEF Stands, Honoured
  <2> QED BY <2>1, <2>2
<1> QED BY <1>3, <1>4, <1>5 DEF Stands

\* A lock nobody or someone else holds changes hands.
LEMMA LockMoves ==
  ASSUME NEW o, NEW d, NEW F, NEW V, NEW L, Stands(o, d, F, V, L), NEW t, NEW M,
         \A p \in Paths : p # t => M[p] = L[p], L[t] # d
  PROVE  Stands(o, d, F, V, M)
<1>1. target(o) \in {o.p, o.q}
  BY DEF target
<1>2. Locked(o, d, M)
  BY <1>1 DEF Stands, Locked
<1> QED BY <1>2 DEF Stands

\* A call at rest, wherever the files and locks are.
LEMMA IdleStands == \A d, F, L : \A V \in Nat : Stands(Idle, d, F, V, L)
<1>1. PICK p0 : p0 = CHOOSE p \in Paths : TRUE
  OBVIOUS
<1>2. Idle = [k |-> "idle", at |-> "rest", p |-> p0, q |-> p0, exp |-> 0, dst |-> 0, ver |-> 0, text |-> 0, raced |-> FALSE]
  BY <1>1 DEF Idle
<1>3. IsOp(Idle) /\ Idle.k = "idle" /\ Idle.at = "rest" /\ Idle.exp = 0
  BY <1>2 DEF IsOp
<1> QED BY <1>3 DEF Stands, Locked, TextOfVersion, Honoured

Began(e, k, a, p, q, exp, dst) == e = [Idle EXCEPT !.k = k, !.at = a, !.p = p, !.q = q, !.exp = exp, !.dst = dst]
Attached(e, p) == e = [Idle EXCEPT !.k = "attach", !.at = "check", !.p = p, !.q = p]
Statted(e, o, v) == e = [o EXCEPT !.at = "read", !.ver = v]
HasText(e, o, a, x) == e = [o EXCEPT !.at = a, !.text = x]
Left(e, o) == e = [o EXCEPT !.at = "unlink", !.raced = FALSE]
Raced(e, o) == e = [o EXCEPT !.raced = TRUE]

\* The record of a call, step by step.
LEMMA OpBegins ==
  ASSUME NEW e, NEW k, NEW a, NEW p, NEW q, NEW exp, NEW dst, Began(e, k, a, p, q, exp, dst)
  PROVE  IsOp(e) /\ e.k = k /\ e.at = a /\ e.p = p /\ e.q = q /\ e.exp = exp /\ e.dst = dst
<1>1. e = [k |-> k, at |-> a, p |-> p, q |-> q, exp |-> exp, dst |-> dst, ver |-> 0, text |-> 0, raced |-> FALSE]
  BY DEF Began, Idle
<1> QED BY <1>1 DEF IsOp

\* That of an attachment's copy.
LEMMA OpAttaches ==
  ASSUME NEW e, NEW p, Attached(e, p)
  PROVE  IsOp(e) /\ e.k = "attach" /\ e.at = "check" /\ e.p = p /\ e.q = p /\ e.exp = 0
<1>1. e = [k |-> "attach", at |-> "check", p |-> p, q |-> p, exp |-> 0, dst |-> 0, ver |-> 0, text |-> 0, raced |-> FALSE]
  BY DEF Attached, Idle
<1> QED BY <1>1 DEF IsOp

\* A move has looked at its source.
LEMMA OpStats ==
  ASSUME NEW e, NEW o, IsOp(o), NEW v, Statted(e, o, v)
  PROVE  IsOp(e) /\ e.k = o.k /\ e.at = "read" /\ e.p = o.p /\ e.q = o.q /\ e.exp = o.exp /\ e.ver = v
<1>1. e = [k |-> o.k, at |-> "read", p |-> o.p, q |-> o.q, exp |-> o.exp, dst |-> o.dst, ver |-> v,
           text |-> o.text, raced |-> o.raced]
  BY DEF IsOp, Statted
<1> QED BY <1>1 DEF IsOp

\* A call has its text.
LEMMA OpReads ==
  ASSUME NEW e, NEW o, IsOp(o), NEW a, NEW x, HasText(e, o, a, x)
  PROVE  IsOp(e) /\ e.k = o.k /\ e.at = a /\ e.p = o.p /\ e.q = o.q /\ e.exp = o.exp /\ e.dst = o.dst /\ e.ver = o.ver
         /\ e.text = x /\ e.raced = o.raced
<1>1. e = [k |-> o.k, at |-> a, p |-> o.p, q |-> o.q, exp |-> o.exp, dst |-> o.dst, ver |-> o.ver,
           text |-> x, raced |-> o.raced]
  BY DEF IsOp, HasText
<1> QED BY <1>1 DEF IsOp

\* A move goes on to remove its source.
LEMMA OpLeaves ==
  ASSUME NEW e, NEW o, IsOp(o), Left(e, o)
  PROVE  IsOp(e) /\ e.k = o.k /\ e.at = "unlink" /\ e.p = o.p /\ e.q = o.q /\ e.exp = o.exp /\ e.ver = o.ver /\ e.text = o.text
<1>1. e = [k |-> o.k, at |-> "unlink", p |-> o.p, q |-> o.q, exp |-> o.exp, dst |-> o.dst, ver |-> o.ver,
           text |-> o.text, raced |-> FALSE]
  BY DEF IsOp, Left
<1> QED BY <1>1 DEF IsOp

\* A process wrote the path a handler is about to change.
LEMMA RacedStands ==
  ASSUME NEW o, NEW d, NEW F, NEW V, NEW L, Stands(o, d, F, V, L), NEW e, Raced(e, o)
  PROVE  Stands(e, d, F, V, L) /\ e.raced
<1>1. e = [k |-> o.k, at |-> o.at, p |-> o.p, q |-> o.q, exp |-> o.exp, dst |-> o.dst, ver |-> o.ver,
           text |-> o.text, raced |-> TRUE]
  BY DEF Stands, IsOp, Raced
<1>2. IsOp(e) /\ e.k = o.k /\ e.at = o.at /\ e.p = o.p /\ e.q = o.q /\ e.exp = o.exp /\ e.ver = o.ver /\ e.text = o.text
      /\ e.raced
  BY <1>1 DEF IsOp
<1>3. target(e) = target(o)
  BY <1>2 DEF target
<1> QED BY <1>2, <1>3 DEF Stands, Locked, TextOfVersion, Honoured

\* One call moves, the files and locks stay.
LEMMA OneMoves ==
  ASSUME FilesInv, NEW c \in Callers, NEW e, op' = [op EXCEPT ![c] = e], UNCHANGED <<file, versions, lockOf>>,
         Stands(e, c, file, versions, lockOf)
  PROVE  FilesInv'
<1>1. op' = [d \in Callers |-> op'[d]] /\ op'[c] = e /\ \A d \in Callers : d # c => op'[d] = op[d]
  BY DEF FilesInv
<1>2. \A d \in Callers : Stands(op'[d], d, file', versions', lockOf')
  BY <1>1 DEF FilesInv
<1> QED BY <1>1, <1>2 DEF FilesInv

\* FilesInv is inductive.
LEMMA FilesInvStep == FilesInv /\ [FilesNext]_fileVars => FilesInv'
<1> USE FilesAssumption
<1> SUFFICES ASSUME FilesInv, [FilesNext]_fileVars PROVE FilesInv'
  OBVIOUS
<1>v. Versioned(file, versions) /\ op = [c \in Callers |-> op[c]] /\ lockOf = [p \in Paths |-> lockOf[p]] /\ versions \in Nat
  BY DEF FilesInv, Versioned
<1>s. \A c \in Callers : Stands(op[c], c, file, versions, lockOf) /\ IsOp(op[c])
  BY DEF FilesInv, Stands
<1>1. CASE \E c \in Callers, k \in {"write", "edit", "patch", "delete", "move"}, p, q \in Paths :
             \E exp \in Seen(p), dst \in Seen(q) : Begin(c, k, p, q, exp, dst)
  <2>0. PICK c \in Callers, k \in {"write", "edit", "patch", "delete", "move"}, p \in Paths, q \in Paths :
             \E exp \in Seen(p), dst \in Seen(q) : Begin(c, k, p, q, exp, dst)
    BY <1>1
  <2>1. PICK exp \in Seen(p), dst \in Seen(q) : Begin(c, k, p, q, exp, dst)
    BY <2>0
  <2>2. PICK e, a : Began(e, k, a, p, q, exp, dst) /\ a = FirstStep(k) /\ op' = [op EXCEPT ![c] = e]
    BY <2>1 DEF Begin, Began
  <2>3. IsOp(e) /\ e.k = k /\ e.at = a /\ e.p = p /\ e.q = q /\ e.exp = exp
    BY <2>2, OpBegins
  <2>4. a \in {"check", "read", "stat"} /\ (k = "patch" => a = "read") /\ (k = "move" => a = "stat")
    BY <2>1, <2>2 DEF FirstStep
  <2>5. exp \in Nat /\ (exp <= versions \/ exp = Unguarded) /\ (k = "patch" => exp # 0)
    BY <1>v, <2>1 DEF Seen, Begin, Versioned, Unguarded
  <2>6. Stands(e, c, file, versions, lockOf)
    BY <2>3, <2>4, <2>5 DEF Stands, Locked, TextOfVersion, Honoured
  <2> QED BY <2>1, <2>2, <2>6, OneMoves DEF Begin
<1>2. CASE \E c \in Callers, a \in Attachments : Ensure(c, a)
  <2>1. PICK c \in Callers, a \in Attachments : Ensure(c, a)
    BY <1>2
  <2>2. PICK e : Attached(e, a) /\ op' = [op EXCEPT ![c] = e]
    BY <2>1 DEF Ensure, Attached
  <2>3. IsOp(e) /\ e.k = "attach" /\ e.at = "check" /\ e.p = a /\ e.q = a /\ e.exp = 0
    BY <2>2, OpAttaches
  <2>6. Stands(e, c, file, versions, lockOf)
    BY <1>v, <2>3 DEF Stands, Locked, TextOfVersion, Honoured
  <2> QED BY <2>1, <2>2, <2>6, OneMoves DEF Ensure
<1>3. CASE \E c \in Callers : Stat(c)
  <2>1. PICK c \in Callers : Stat(c)
    BY <1>3
  <2>2. CASE Stop(c)
    BY <1>v, <2>1, <2>2, IdleStands, OneMoves DEF Stat, Stop
  <2>3. CASE ~Stop(c)
    <3>1. PICK o : o = op[c]
      OBVIOUS
    <3>2. PICK e, v : Statted(e, o, v) /\ v = file[o.p].ver /\ op' = [op EXCEPT ![c] = e] /\ v # 0 /\ o.exp \in {Unguarded, v}
      BY <1>v, <2>1, <2>3, <3>1 DEF Stat, Statted
    <3>3. IsOp(e) /\ e.k = o.k /\ e.at = "read" /\ e.p = o.p /\ e.q = o.q /\ e.exp = o.exp /\ e.ver = v
      BY <1>s, <3>1, <3>2, OpStats
    <3>4. Stands(o, c, file, versions, lockOf) /\ o.at = "stat"
      BY <1>s, <2>1, <3>1 DEF Stat
    <3>5. o.p \in Paths /\ o.q \in Paths
      BY <3>4 DEF Stands, Locked
    <3>6. v \in 1 .. versions
      BY <1>v, <3>2, <3>5 DEF Versioned
    <3>7. Stands(e, c, file, versions, lockOf)
      BY <3>2, <3>3, <3>4, <3>5, <3>6 DEF Stands, Locked, TextOfVersion, Honoured
    <3> QED BY <2>1, <3>2, <3>7, OneMoves DEF Stat
  <2> QED BY <2>2, <2>3
<1>4. CASE \E c \in Callers : ReadText(c)
  <2>1. PICK c \in Callers : ReadText(c)
    BY <1>4
  <2>2. CASE Stop(c)
    BY <1>v, <2>1, <2>2, IdleStands, OneMoves DEF ReadText, Stop
  <2>3. CASE ~Stop(c)
    <3>1. PICK o : o = op[c]
      OBVIOUS
    <3>2. PICK e, a, x : HasText(e, o, a, x) /\ x = file[o.p].text /\ op' = [op EXCEPT ![c] = e]
                         /\ a = IF o.k = "delete" THEN "unlink" ELSE "check"
      BY <1>v, <2>1, <2>3, <3>1 DEF ReadText, HasText
    <3>3. IsOp(e) /\ e.k = o.k /\ e.at = a /\ e.p = o.p /\ e.q = o.q /\ e.exp = o.exp /\ e.ver = o.ver /\ e.text = x
      BY <1>s, <3>1, <3>2, OpReads
    <3>4. Stands(o, c, file, versions, lockOf) /\ o.at = "read"
      BY <1>s, <2>1, <3>1 DEF ReadText
    <3>7. Stands(e, c, file, versions, lockOf)
      BY <3>2, <3>3, <3>4 DEF Stands, Locked, TextOfVersion, Honoured
    <3> QED BY <2>1, <3>2, <3>7, OneMoves DEF ReadText
  <2> QED BY <2>2, <2>3
<1>5. CASE \E c \in Callers : Check(c)
  <2>1. PICK c \in Callers : Check(c)
    BY <1>5
  <2>2. PICK o, t : o = op[c] /\ t = target(o)
    OBVIOUS
  <2>3. Stands(o, c, file, versions, lockOf) /\ o.at \in {"check", "unlink"} /\ lockOf[t] = "none" /\ t \in Paths
        /\ UNCHANGED <<file, versions>>
    BY <1>s, <2>1, <2>2 DEF Check, None, target, Stands, Locked
  <2>4. CASE ~allows(o, file[t])
    BY <1>v, <2>1, <2>2, <2>4, IdleStands, OneMoves DEF Check, Stop
  <2>5. CASE allows(o, file[t])
    <3>1. lockOf' = [lockOf EXCEPT ![t] = c]
      BY <2>1, <2>2, <2>5 DEF Check
    <3>2. PICK e, a, x : HasText(e, o, a, x) /\ op' = [op EXCEPT ![c] = e] /\ (o.k # "edit" => x = o.text)
                         /\ a = IF o.at = "check" THEN "commit" ELSE "remove"
      BY <1>v, <2>1, <2>2, <2>5 DEF Check, HasText
    <3>3. IsOp(e) /\ e.k = o.k /\ e.at = a /\ e.p = o.p /\ e.q = o.q /\ e.exp = o.exp /\ e.dst = o.dst
          /\ e.ver = o.ver /\ e.text = x /\ e.raced = o.raced
      BY <1>s, <2>2, <3>2, OpReads
    <3>4. /\ lockOf' = [p \in Paths |-> lockOf'[p]] /\ lockOf'[t] = c /\ \A p \in Paths : p # t => lockOf'[p] = lockOf[p]
          /\ op' = [d \in Callers |-> op'[d]] /\ op'[c] = e /\ \A d \in Callers : d # c => op'[d] = op[d]
      BY <1>v, <2>3, <3>1, <3>2
    <3>5. ASSUME NEW d \in Callers, d # c PROVE Stands(op[d], d, file, versions, lockOf')
      <4>1. lockOf[t] # d
        BY <2>3
      <4> QED BY <1>s, <3>4, <4>1, LockMoves
    <3>6. Stands(e, c, file, versions, lockOf')
      <4>1. CASE o.at = "check"
        <5>1. target(e) = t /\ guardOf(e) = guardOf(o) /\ e.at = "commit"
          BY <2>2, <3>2, <3>3, <4>1 DEF target, guardOf
        <5>2. guardOf(o) \in {Unguarded, file[t].ver}
          BY <2>5 DEF allows
        <5>3. o.k = "patch" => t = o.p /\ guardOf(o) = o.exp
          BY <2>2 DEF target, guardOf
        <5>4. Honoured(e, file)
          BY <2>3, <3>2, <3>3, <4>1, <5>1, <5>2, <5>3 DEF Honoured, Stands, TextOfVersion
        <5>5. o.k = "move" => x = o.text
          BY <3>2
        <5> QED BY <2>3, <3>3, <3>4, <4>1, <5>1, <5>4, <5>5 DEF Stands, Locked, TextOfVersion
      <4>2. CASE o.at = "unlink"
        <5>1. t = o.p /\ e.at = "remove"
          BY <2>2, <3>2, <3>3, <4>2 DEF target
        <5>2. guardOf(o) \in {Unguarded, file[t].ver}
          BY <2>5 DEF allows
        <5>3. o.k = "move" => o.ver \in 1 .. versions /\ o.exp \in {Unguarded, o.ver} /\ guardOf(o) = o.ver
          <6>1. o.k = "move" => guardOf(o) = IF o.exp = Unguarded THEN o.ver ELSE o.exp
            BY <4>2 DEF guardOf
          <6> QED BY <2>3, <4>2, <6>1 DEF Stands, TextOfVersion
        <5>4. o.k = "move" => o.ver = file[t].ver
          BY <1>v, <5>2, <5>3 DEF Versioned, Unguarded
        <5>5. Honoured(e, file)
          BY <2>3, <3>2, <3>3, <4>2, <5>1, <5>4 DEF Honoured, Stands, TextOfVersion
        <5> QED BY <2>3, <3>3, <3>4, <4>2, <5>1, <5>5 DEF Stands, Locked, TextOfVersion
      <4> QED BY <2>3, <4>1, <4>2
    <3>7. \A d \in Callers : Stands(op'[d], d, file', versions', lockOf')
      BY <2>3, <3>4, <3>5, <3>6
    <3> QED BY <1>v, <2>3, <3>4, <3>7 DEF FilesInv
  <2> QED BY <2>4, <2>5
<1>6. CASE \E c \in Callers : Commit(c)
  <2>1. PICK c \in Callers : Commit(c)
    BY <1>6
  <2>2. PICK o, t : o = op[c] /\ t = target(o)
    OBVIOUS
  <2>3. /\ Stands(o, c, file, versions, lockOf) /\ o.at = "commit" /\ lockOf[t] = c /\ t \in Paths
        /\ versions < MaxVersions /\ versions' = versions + 1
    BY <1>s, <2>1, <2>2 DEF Commit, target, Stands, Locked
  <2>4. PICK w, x : w = [ver |-> versions + 1, text |-> x] /\ file' = [file EXCEPT ![t] = w]
    BY <2>1, <2>2 DEF Commit, Fresh
  <2>r. Rewritten(file', file, t, w)
    BY <2>4 DEF Rewritten
  <2>5. w.ver = versions + 1
    BY <2>4
  <2>6. lockOf' = [lockOf EXCEPT ![t] = "none"]
    BY <2>1, <2>2 DEF Commit, released, None
  <2>7. /\ lockOf' = [p \in Paths |-> lockOf'[p]] /\ \A p \in Paths : p # t => lockOf'[p] = lockOf[p]
        /\ file' = [p \in Paths |-> file'[p]] /\ file'[t] = w /\ \A p \in Paths : p # t => file'[p] = file[p]
    BY <1>v, <2>3, <2>4, <2>6 DEF Versioned
  <2>8. Versioned(file', versions')
    BY <1>v, <2>3, <2>5, <2>7 DEF Versioned
  <2>9. PICK e : op' = [op EXCEPT ![c] = e] /\ (e = Idle \/ (Left(e, o) /\ o.k = "move"))
    BY <1>v, <2>1, <2>2 DEF Commit, Stop, Left
  <2>10. ASSUME NEW d \in Callers, d # c PROVE Stands(op[d], d, file', versions', lockOf')
    <3>1. lockOf[t] # d /\ versions' \in {versions, versions + 1} /\ versions' <= MaxVersions
      BY <1>v, <2>3, <2>10
    <3> QED BY <1>s, <1>v, <2>3, <2>r, <2>5, <2>7, <3>1, FileMoves
  <2>11. Stands(e, c, file', versions', lockOf')
    <3>1. CASE e = Idle
      BY <2>8, <3>1, IdleStands DEF Versioned
    <3>2. CASE Left(e, o) /\ o.k = "move"
      <4>1. IsOp(e) /\ e.k = o.k /\ e.at = "unlink" /\ e.p = o.p /\ e.q = o.q /\ e.exp = o.exp /\ e.ver = o.ver /\ e.text = o.text
        BY <2>3, <3>2, OpLeaves DEF Stands
      <4>2. o.p \in Paths /\ o.q \in Paths /\ o.ver \in 1 .. versions /\ o.exp \in {Unguarded, o.ver} /\ o.exp \in Nat
            /\ (o.exp <= versions \/ o.exp = Unguarded)
        BY <2>3, <3>2 DEF Stands, Locked, TextOfVersion
      <4>3. file'[o.p].ver = o.ver => o.text = file'[o.p].text
        <5>1. CASE o.p = t
          BY <1>v, <2>5, <2>7, <4>2, <5>1
        <5>2. CASE o.p # t
          BY <2>3, <2>7, <3>2, <4>2, <5>2 DEF Stands, TextOfVersion
        <5> QED BY <5>1, <5>2
      <4> QED BY <1>v, <2>3, <3>2, <4>1, <4>2, <4>3 DEF Stands, Locked, TextOfVersion, Honoured
    <3> QED BY <2>9, <3>1, <3>2
  <2>12. op' = [d \in Callers |-> op'[d]] /\ op'[c] = e /\ \A d \in Callers : d # c => op'[d] = op[d]
    BY <1>v, <2>9
  <2>13. \A d \in Callers : Stands(op'[d], d, file', versions', lockOf')
    BY <2>10, <2>11, <2>12
  <2> QED BY <2>7, <2>8, <2>12, <2>13 DEF FilesInv
<1>7. CASE \E c \in Callers : Unlink(c)
  <2>1. PICK c \in Callers : Unlink(c)
    BY <1>7
  <2>2. PICK t : t = op[c].p
    OBVIOUS
  <2>3. lockOf[t] = c /\ t \in Paths /\ versions' = versions
    BY <1>s, <2>1, <2>2 DEF Unlink, Stands, Locked
  <2>4. PICK w : w = [ver |-> 0, text |-> 0] /\ file' = [file EXCEPT ![t] = w]
    BY <2>1, <2>2 DEF Unlink, Absent
  <2>r. Rewritten(file', file, t, w)
    BY <2>4 DEF Rewritten
  <2>5. w.ver = 0
    BY <2>4
  <2>6. lockOf' = [lockOf EXCEPT ![t] = "none"]
    BY <2>1, <2>2 DEF Unlink, released, None
  <2>7. /\ lockOf' = [p \in Paths |-> lockOf'[p]] /\ \A p \in Paths : p # t => lockOf'[p] = lockOf[p]
        /\ file' = [p \in Paths |-> file'[p]] /\ file'[t] = w /\ \A p \in Paths : p # t => file'[p] = file[p]
    BY <1>v, <2>3, <2>4, <2>6 DEF Versioned
  <2>8. Versioned(file', versions')
    BY <1>v, <2>3, <2>5, <2>7 DEF Versioned
  <2>10. ASSUME NEW d \in Callers, d # c PROVE Stands(op[d], d, file', versions', lockOf')
    <3>1. lockOf[t] # d /\ versions' \in {versions, versions + 1} /\ versions' <= MaxVersions
      BY <1>v, <2>3, <2>10 DEF Versioned
    <3> QED BY <1>s, <1>v, <2>3, <2>r, <2>5, <2>7, <3>1, FileMoves
  <2>12. op' = [d \in Callers |-> op'[d]] /\ op'[c] = Idle /\ \A d \in Callers : d # c => op'[d] = op[d]
    BY <1>v, <2>1 DEF Unlink, Stop
  <2>13. \A d \in Callers : Stands(op'[d], d, file', versions', lockOf')
    BY <2>8, <2>10, <2>12, IdleStands DEF Versioned
  <2> QED BY <2>7, <2>8, <2>12, <2>13 DEF FilesInv
<1>8. CASE \E p \in Paths : ProcessWrites(p)
  <2>1. PICK t \in Paths : ProcessWrites(t)
    BY <1>8
  <2>4. PICK w, x : /\ w = [ver |-> versions + 1, text |-> x] \/ w = [ver |-> 0, text |-> x]
                    /\ w = [ver |-> versions + 1, text |-> x] => versions < MaxVersions /\ versions' = versions + 1
                    /\ w # [ver |-> versions + 1, text |-> x] => versions' = versions
                    /\ file' = [file EXCEPT ![t] = w]
    <3>1. CASE versions < MaxVersions /\ file' = [file EXCEPT ![t] = Fresh(versions + 1)] /\ versions' = versions + 1
      BY <3>1 DEF Fresh
    <3>2. CASE file' = [file EXCEPT ![t] = Absent] /\ UNCHANGED versions
      <4>1. [ver |-> 0, text |-> 0] # [ver |-> versions + 1, text |-> 0]
        <5>1. [ver |-> 0, text |-> 0].ver # [ver |-> versions + 1, text |-> 0].ver
          BY <1>v
        <5> QED BY <5>1
      <4> QED BY <3>2, <4>1 DEF Absent
    <3> QED BY <2>1, <3>1, <3>2 DEF ProcessWrites
  <2>r. Rewritten(file', file, t, w)
    BY <2>4 DEF Rewritten
  <2>5. w.ver = 0 \/ (w.ver = versions + 1 /\ versions' = versions + 1)
    BY <2>4
  <2>6. versions' \in {versions, versions + 1} /\ versions' <= MaxVersions /\ UNCHANGED lockOf
    BY <1>v, <2>1, <2>4 DEF Versioned, ProcessWrites
  <2>7. file' = [p \in Paths |-> file'[p]] /\ file'[t] = w /\ \A p \in Paths : p # t => file'[p] = file[p]
    BY <1>v, <2>4 DEF Versioned
  <2>8. Versioned(file', versions')
    BY <1>v, <2>5, <2>6, <2>7 DEF Versioned
  <2>9. op' = [d \in Callers |-> op'[d]] /\ \A d \in Callers : op'[d] = IF lockOf[t] = d THEN [op[d] EXCEPT !.raced = TRUE] ELSE op[d]
    BY <2>1 DEF ProcessWrites
  <2>10. ASSUME NEW d \in Callers PROVE Stands(op'[d], d, file', versions', lockOf')
    <3>1. CASE lockOf[t] = d
      <4>1. PICK e : e = op'[d]
        OBVIOUS
      <4>2. Raced(e, op[d])
        BY <2>9, <3>1, <4>1 DEF Raced
      <4>3. Stands(e, d, file, versions, lockOf) /\ e.raced
        BY <1>s, <4>2, RacedStands
      <4>4. Stands(e, d, file', versions', lockOf)
        BY <1>v, <2>r, <2>5, <2>6, <3>1, <4>3, FileMoves
      <4> QED BY <2>6, <4>1, <4>4
    <3>2. CASE lockOf[t] # d
      <4>1. Stands(op[d], d, file', versions', lockOf)
        BY <1>s, <1>v, <2>r, <2>5, <2>6, <3>2, FileMoves
      <4> QED BY <2>6, <2>9, <3>2, <4>1
    <3> QED BY <3>1, <3>2
  <2> QED BY <1>v, <2>6, <2>8, <2>9, <2>10 DEF FilesInv
<1>9. CASE SandboxReplaced
  <2>1. /\ file' = [p \in Paths |-> Absent] /\ op' = [c \in Callers |-> Idle] /\ lockOf' = [p \in Paths |-> None]
        /\ versions' = versions /\ Absent.ver = 0
    BY <1>9 DEF SandboxReplaced, Absent
  <2>2. Versioned(file', versions')
    BY <1>v, <2>1 DEF Versioned
  <2> QED BY <1>v, <2>1, <2>2, IdleStands DEF FilesInv
<1>10. CASE UNCHANGED fileVars
  BY <1>10 DEF fileVars, FilesInv
<1> QED BY <1>1, <1>2, <1>3, <1>4, <1>5, <1>6, <1>7, <1>8, <1>9, <1>10 DEF FilesNext

\* A guarded write replaces what its agent saw, a patch the text it was made
\* for and a move takes away what it put elsewhere, for any number of agents.
THEOREM GuardHonouredHolds == FilesSpec => []GuardHonoured
<1>1. FilesInit => FilesInv
  <2> SUFFICES ASSUME FilesInit PROVE FilesInv
    OBVIOUS
  <2>1. Absent.ver = 0
    BY DEF Absent
  <2>2. Versioned(file, versions)
    BY <2>1, FilesAssumption DEF FilesInit, Versioned
  <2> QED BY <2>2, IdleStands DEF FilesInit, FilesInv
<1>2. FilesInv => GuardHonoured
  BY DEF FilesInv, Stands, Honoured, GuardHonoured
<1> QED BY <1>1, <1>2, FilesInvStep, PTL DEF FilesSpec

-----------------------------------------------------------------------------
(***************************************************************************)
(* SetupOnce for every set of handlers and any number of calls, lost       *)
(* machines and abandoned requests.  It is not inductive: that two         *)
(* handlers are never past the lock follows from who holds it, and that a  *)
(* marker stands for a hook from what a handler about to write it has done.*)
(***************************************************************************)

Outcomes == {"idle", "done", "failed"}
Past == {"git", "clone", "checkout", "hook", "mark"}

SetupTypeOK ==
  /\ step \in [Handlers -> Steps \cup Outcomes]
  /\ locked \in Handlers \cup {Nobody}
  /\ marker \in BOOLEAN
  /\ hookOk \in Nat

\* A handler past its lock holds it; one that is about to write the marker has
\* run the hook; nobody looks past a marker that is there.
SetupInv ==
  /\ SetupTypeOK
  /\ \A h \in Handlers : step[h] \in Steps \ {"lock"} => locked = h
  /\ \A h \in Handlers : step[h] = "mark" => hookOk > 0
  /\ marker => hookOk > 0
  /\ marker => \A h \in Handlers : step[h] \notin Past

\* SetupInv holds at the start.
LEMMA SetupInvInit == SetupInit => SetupInv
<1> SUFFICES ASSUME SetupInit PROVE SetupInv
    OBVIOUS
<1>1. SetupTypeOK
    BY DEF SetupInit, SetupTypeOK, Outcomes
<1>2. \A h \in Handlers : step[h] \notin Steps
    BY DEF SetupInit, Steps
<1>3. ~marker
    BY Zenon DEF SetupInit
<1> QED
    BY <1>1, <1>2, <1>3 DEF SetupInv, Steps

\* SetupInv is kept by every step.
LEMMA SetupInvNext == SetupInv /\ [SetupNext]_setupVars => SetupInv'
<1> SUFFICES ASSUME SetupInv, [SetupNext]_setupVars PROVE SetupInv'
    OBVIOUS
<1> USE HandlersAssumption DEF SetupInv, SetupTypeOK, Steps, Outcomes, Past, To, Leave, InSetup
<1>1. ASSUME NEW h \in Handlers, CallSetup(h) PROVE SetupInv'
    BY <1>1 DEF CallSetup
<1>2. ASSUME NEW h \in Handlers, GiveUpSetup(h) PROVE SetupInv'
    BY <1>2 DEF GiveUpSetup
<1>3. ASSUME NEW h \in Handlers, LockMarker(h) PROVE SetupInv'
    BY <1>3 DEF LockMarker
<1>4. ASSUME NEW h \in Handlers, Look(h) PROVE SetupInv'
    BY <1>4 DEF Look
<1>5. ASSUME NEW h \in Handlers, Clone(h) PROVE SetupInv'
    BY <1>5 DEF Clone
<1>6. ASSUME NEW h \in Handlers, Checkout(h) PROVE SetupInv'
    BY <1>6 DEF Checkout
<1>7. ASSUME NEW h \in Handlers, Hook(h) PROVE SetupInv'
    BY <1>7 DEF Hook
<1>8. ASSUME NEW h \in Handlers, Mark(h) PROVE SetupInv'
    BY <1>8 DEF Mark
<1>9. ASSUME NEW rebuilt \in BOOLEAN, MachineLost(rebuilt) PROVE SetupInv'
    BY <1>9 DEF MachineLost
<1>10. CASE UNCHANGED setupVars
    BY <1>10 DEF setupVars
<1> QED
    BY <1>1, <1>2, <1>3, <1>4, <1>5, <1>6, <1>7, <1>8, <1>9, <1>10 DEF SetupNext

\* SetupInv is stronger than SetupOnce.
LEMMA SetupInvImplies == SetupInv => SetupOnce
BY DEF SetupInv, SetupTypeOK, SetupOnce, Past, Steps

\* SetupInv holds throughout.
LEMMA SetupInvariant == SetupSpec => []SetupInv
BY SetupInvInit, SetupInvNext, PTL DEF SetupSpec

\* However many Setup calls overlap, are given up or die with their machine
\* (setup.go), one runs at a time, none runs past the marker, and a marker
\* stands for a hook that ended well.
THEOREM SetupHappensOnce == SetupSpec => []SetupOnce
BY SetupInvariant, SetupInvImplies, PTL

-----------------------------------------------------------------------------
(***************************************************************************)
(* SnapshotCurrent for any set of agents and any bounds.                   *)
(*                                                                         *)
(* What a refresh brings is as new as the tool results counted before it   *)
(* started.  Until a result of the agent is logged the refresh has the     *)
(* current count, and what it is about to take (the tree, or the index of  *)
(* the latest suspension) shows every logged result; once one is logged    *)
(* its count is old, and so is the snapshot it leaves.                     *)
(***************************************************************************)

ReferenceTypeOK ==
  /\ tree \in Nat
  /\ nap \in {"none", "running", "away"}
  /\ naps \in Nat
  /\ setbacks \in Nat
  /\ index \in [has : BOOLEAN, tree : Nat, nap : Nat]
  /\ capture \in [at : {"no", "walk", "save", "stop"}, tree : Nat]
  /\ tool \in [Askers -> Nat]
  /\ invalid \in [Askers -> Nat]
  /\ snaps \in [Askers -> [has : BOOLEAN, tree : Nat, startedAt : Nat, leftover : BOOLEAN]]
  /\ fetchOf \in [Askers -> [at : {"no", "state", "load", "has", "ensure", "walk", "land"},
                             startedAt : Nat, tree : Nat, leftover : BOOLEAN]]
  /\ wrote \in [Askers -> Nat]

\* The index of the latest suspension shows what agent a's tools wrote.
Shows(a) == index.nap = naps => index.tree >= wrote[a]

\* No tool is under way while a suspension holds the lock or the sandbox is
\* away, nothing claims more than the tree holds, and the index is of a
\* suspension that has begun.
SleepInv ==
  /\ index.nap <= naps
  /\ \A a \in Askers :
       /\ wrote[a] <= tree /\ tool[a] <= tree
       /\ capture.at # "no" \/ nap = "away" => tool[a] = 0
       /\ capture.at = "save" => capture.tree >= wrote[a]
       /\ (capture.at # "no" \/ nap = "away") /\ index.has => Shows(a)

\* A refresh that no result has overtaken takes a tree that shows them all.
FetchInv ==
  \A a \in Askers :
    /\ fetchOf[a].startedAt <= invalid[a]
    /\ fetchOf[a].startedAt = invalid[a] =>
         /\ fetchOf[a].at = "load" /\ index.has => Shows(a)
         /\ fetchOf[a].at = "land" => fetchOf[a].tree >= wrote[a] \/ fetchOf[a].leftover
    /\ snaps[a].startedAt <= invalid[a]

ReferenceInv == ReferenceTypeOK /\ SleepInv /\ FetchInv /\ SnapshotCurrent

-----------------------------------------------------------------------------

\* Init satisfies the invariant.
LEMMA ReferenceStarts == ReferenceInit => ReferenceInv
  BY DEF ReferenceInit, ReferenceInv, ReferenceTypeOK, SleepInv, FetchInv, SnapshotCurrent,
         Shows, stale, NoIndex, NoCapture, NoSnapshot, NoFetch

\* Types are kept by every step.
LEMMA ReferenceTypes ==
  ASSUME ReferenceTypeOK, [ReferenceNext]_referenceVars
  PROVE  ReferenceTypeOK'
<1> USE DEF ReferenceTypeOK, NoIndex, NoCapture, NoSnapshot, NoFetch, Setback
<1>1. CASE UNCHANGED referenceVars
  BY <1>1 DEF referenceVars
<1>2. CASE HostReboots
  BY <1>2 DEF HostReboots
<1>3. ASSUME NEW a \in Askers,
             \/ ToolWrites(a) \/ ToolResult(a) \/ AgentGone(a) \/ Refresh(a)
             \/ hibernatedFileIndex(a) \/ Load(a) \/ hasSandbox(a)
             \/ EnsureForWalk(a) \/ Walk(a) \/ FetchFails(a) \/ Land(a)
      PROVE  ReferenceTypeOK'
  <2>1. CASE ToolWrites(a)
    BY <2>1 DEF ToolWrites
  <2>2. CASE ToolResult(a)
    BY <2>2 DEF ToolResult, invalidate
  <2>3. CASE AgentGone(a)
    BY <2>3 DEF AgentGone
  <2>4. CASE Refresh(a)
    BY <2>4 DEF Refresh
  <2>5. CASE hibernatedFileIndex(a)
    BY <2>5 DEF hibernatedFileIndex
  <2>6. CASE Load(a)
    <3>1. (index.nap # naps) \in BOOLEAN
      OBVIOUS
    <3>2. CASE index.has
      <4>1. fetchOf' = [fetchOf EXCEPT ![a] = [@ EXCEPT !.at = "land", !.tree = index.tree,
                                                        !.leftover = index.nap # naps]]
        BY <2>6, <3>2 DEF Load
      <4>2. [fetchOf[a] EXCEPT !.at = "land", !.tree = index.tree, !.leftover = index.nap # naps]
              \in [at : {"no", "state", "load", "has", "ensure", "walk", "land"},
                   startedAt : Nat, tree : Nat, leftover : BOOLEAN]
        BY ZenonT(60), <3>1
      <4> QED
        BY SMTT(30), <2>6, <4>1, <4>2 DEF Load
    <3>3. CASE ~index.has
      BY <2>6, <3>3 DEF Load
    <3> QED
      BY <3>2, <3>3
  <2>7. CASE hasSandbox(a)
    BY <2>7 DEF hasSandbox
  <2>8. CASE EnsureForWalk(a)
    BY <2>8 DEF EnsureForWalk
  <2>9. CASE Walk(a)
    BY ZenonT(60), <2>9 DEF Walk
  <2>10. CASE FetchFails(a)
    BY <2>10 DEF FetchFails
  <2>11. CASE Land(a)
    BY <2>11 DEF Land
  <2> QED
    BY <1>3, <2>1, <2>2, <2>3, <2>4, <2>5, <2>6, <2>7, <2>8, <2>9, <2>10, <2>11
<1>4. CASE ProcessTouches \/ SuspendBegins \/ CaptureWalks
  BY <1>4 DEF ProcessTouches, SuspendBegins, CaptureWalks
<1>5. CASE CaptureSaves
  BY <1>5 DEF CaptureSaves
<1>6. CASE CaptureFails
  <2>1. NoIndex \in [has : BOOLEAN, tree : Nat, nap : Nat]
    OBVIOUS
  <2>2. index' = NoIndex \/ index' = index
    BY <1>6 DEF CaptureFails
  <2>3. index' \in [has : BOOLEAN, tree : Nat, nap : Nat]
    <3> HIDE DEF NoIndex
    <3> QED
      BY <2>1, <2>2
  <2> QED
    BY <1>6, <2>3 DEF CaptureFails
<1>7. CASE Stopped \/ StopFails \/ Unlinked
  BY <1>7 DEF Stopped, StopFails, Unlinked
<1>8. CASE Forgotten
  BY <1>8 DEF Forgotten
<1> QED
  BY <1>1, <1>2, <1>3, <1>4, <1>5, <1>6, <1>7, <1>8 DEF ReferenceNext

\* What is known of the sandbox and its index is kept by every step.
LEMMA SleepKept ==
  ASSUME ReferenceTypeOK, ReferenceTypeOK', SleepInv, [ReferenceNext]_referenceVars
  PROVE  SleepInv'
<1> USE DEF ReferenceTypeOK, SleepInv, Shows, Unlocked
<1>1. CASE UNCHANGED referenceVars
  BY <1>1 DEF referenceVars
<1>2. CASE HostReboots
  BY <1>2 DEF HostReboots, NoCapture
<1>3. ASSUME NEW a \in Askers, ToolWrites(a)
      PROVE  SleepInv'
  BY <1>3 DEF ToolWrites
<1>4. ASSUME NEW a \in Askers, ToolResult(a)
      PROVE  SleepInv'
  BY <1>4 DEF ToolResult
<1>5. ASSUME NEW a \in Askers,
             \/ AgentGone(a) \/ Refresh(a) \/ hibernatedFileIndex(a) \/ Load(a) \/ hasSandbox(a)
             \/ Walk(a) \/ FetchFails(a) \/ Land(a)
      PROVE  SleepInv'
  BY <1>5 DEF AgentGone, Refresh, hibernatedFileIndex, Load, hasSandbox, Walk, FetchFails, Land
<1>6. ASSUME NEW a \in Askers, EnsureForWalk(a)
      PROVE  SleepInv'
  BY <1>6 DEF EnsureForWalk
<1>7. CASE ProcessTouches
  BY <1>7 DEF ProcessTouches
<1>8. CASE SuspendBegins
  BY <1>8 DEF SuspendBegins, NoCapture
<1>9. CASE CaptureWalks
  BY <1>9 DEF CaptureWalks
<1>10. CASE CaptureSaves
  BY <1>10 DEF CaptureSaves
<1>11. CASE CaptureFails
  BY <1>11 DEF CaptureFails, NoCapture, NoIndex
<1>12. CASE Stopped
  BY <1>12 DEF Stopped, NoCapture
<1>13. CASE StopFails \/ Unlinked
  BY <1>13 DEF StopFails, Unlinked, NoCapture
<1>14. CASE Forgotten
  BY <1>14 DEF Forgotten, NoIndex
<1> QED
  BY <1>1, <1>2, <1>3, <1>4, <1>5, <1>6, <1>7, <1>8, <1>9, <1>10, <1>11, <1>12, <1>13, <1>14
  DEF ReferenceNext

\* A number that is not below a bound it respects is the bound.
LEMMA NotBelow == \A m, n \in Nat : m <= n /\ ~(m < n) => m = n
  OBVIOUS

\* A result counted while a refresh is under way makes its snapshot stale.
LEMMA FetchKept ==
  ASSUME ReferenceTypeOK, ReferenceTypeOK', SleepInv, FetchInv, SnapshotCurrent,
         [ReferenceNext]_referenceVars
  PROVE  FetchInv' /\ SnapshotCurrent'
<1> USE DEF ReferenceTypeOK, FetchInv, SnapshotCurrent, stale, Shows
<1>1. CASE UNCHANGED referenceVars
  BY <1>1 DEF referenceVars
<1>2. CASE HostReboots
  BY <1>2 DEF HostReboots, NoFetch, NoSnapshot
<1>3. ASSUME NEW a \in Askers, ToolWrites(a) \/ EnsureForWalk(a)
      PROVE  FetchInv' /\ SnapshotCurrent'
  <2>1. CASE ToolWrites(a)
    BY <2>1 DEF ToolWrites
  <2>2. CASE EnsureForWalk(a)
    BY <2>2 DEF EnsureForWalk
  <2> QED
    BY <1>3, <2>1, <2>2
<1>4. ASSUME NEW a \in Askers, ToolResult(a)
      PROVE  FetchInv' /\ SnapshotCurrent'
  BY <1>4 DEF ToolResult, invalidate
<1>5. ASSUME NEW a \in Askers, AgentGone(a)
      PROVE  FetchInv' /\ SnapshotCurrent'
  BY <1>5 DEF AgentGone, NoFetch, NoSnapshot
<1>6. ASSUME NEW a \in Askers, Refresh(a) \/ FetchFails(a)
      PROVE  FetchInv' /\ SnapshotCurrent'
  <2>1. CASE Refresh(a)
    BY <2>1 DEF Refresh, NoFetch
  <2>2. CASE FetchFails(a)
    BY <2>2 DEF FetchFails, NoFetch
  <2> QED
    BY <1>6, <2>1, <2>2
<1>7. ASSUME NEW a \in Askers, hibernatedFileIndex(a)
      PROVE  FetchInv' /\ SnapshotCurrent'
  BY <1>7 DEF hibernatedFileIndex, SleepInv
<1>8. ASSUME NEW a \in Askers, Load(a)
      PROVE  FetchInv' /\ SnapshotCurrent'
  BY <1>8 DEF Load
<1>9. ASSUME NEW a \in Askers, hasSandbox(a)
      PROVE  FetchInv' /\ SnapshotCurrent'
  BY <1>9 DEF hasSandbox, NoFetch
<1>10. ASSUME NEW a \in Askers, Walk(a)
       PROVE  FetchInv' /\ SnapshotCurrent'
  BY <1>10 DEF Walk, SleepInv
<1>11. ASSUME NEW a \in Askers, Land(a)
       PROVE  FetchInv' /\ SnapshotCurrent'
  <2> SUFFICES ASSUME NEW b \in Askers
               PROVE  /\ FetchInv'
                      /\ ~stale(b)' => snaps[b].tree' >= wrote[b]' \/ snaps[b].leftover'
    OBVIOUS
  <2>1. FetchInv'
    BY <1>11 DEF Land, NoFetch
  <2>2. CASE b = a
    <3>1. /\ snaps'[a].startedAt = fetchOf[a].startedAt
          /\ snaps'[a].tree = fetchOf[a].tree
          /\ snaps'[a].leftover = fetchOf[a].leftover
      BY <1>11 DEF Land
    <3>2. wrote' = wrote /\ invalid' = invalid /\ fetchOf[a].at = "land"
      BY <1>11 DEF Land
    <3>3. fetchOf[a].startedAt \in Nat /\ invalid[a] \in Nat /\ fetchOf[a].startedAt <= invalid[a]
      OBVIOUS
    <3>4. ~(fetchOf[a].startedAt < invalid[a]) => fetchOf[a].startedAt = invalid[a]
      BY <3>3, NotBelow
    <3>5. fetchOf[a].startedAt = invalid[a] => fetchOf[a].tree >= wrote[a] \/ fetchOf[a].leftover
      BY <3>2
    <3> QED
      BY <2>1, <2>2, <3>1, <3>2, <3>4, <3>5, Zenon DEF stale
  <2>3. CASE b # a
    BY <1>11, <2>1, <2>3 DEF Land
  <2> QED
    BY <2>1, <2>2, <2>3
<1>12. CASE ProcessTouches \/ CaptureWalks \/ Stopped \/ StopFails \/ Unlinked
  BY <1>12 DEF ProcessTouches, CaptureWalks, Stopped, StopFails, Unlinked
<1>13. CASE SuspendBegins
  BY <1>13 DEF SuspendBegins, SleepInv
<1>14. CASE CaptureSaves
  BY <1>14 DEF CaptureSaves, SleepInv
<1>15. CASE CaptureFails
  BY <1>15 DEF CaptureFails, NoIndex
<1>16. CASE Forgotten
  BY <1>16 DEF Forgotten, NoIndex
<1> QED
  BY <1>1, <1>2, <1>3, <1>4, <1>5, <1>6, <1>7, <1>8, <1>9, <1>10, <1>11, <1>12, <1>13, <1>14,
     <1>15, <1>16 DEF ReferenceNext

\* A snapshot the picker takes for current shows every logged write of the
\* agent's tools, unless it came from an index left by an earlier suspension.
THEOREM CurrentMeansCurrent == ReferenceSpec => []SnapshotCurrent
<1>1. ReferenceInit => ReferenceInv
  BY ReferenceStarts
<1>2. ReferenceInv /\ [ReferenceNext]_referenceVars => ReferenceInv'
  <2> SUFFICES ASSUME ReferenceInv, [ReferenceNext]_referenceVars
               PROVE  ReferenceInv'
    OBVIOUS
  <2>1. ReferenceTypeOK'
    BY ReferenceTypes DEF ReferenceInv
  <2>2. SleepInv'
    BY <2>1, SleepKept DEF ReferenceInv
  <2>3. FetchInv' /\ SnapshotCurrent'
    BY <2>1, FetchKept DEF ReferenceInv
  <2> QED
    BY <2>1, <2>2, <2>3 DEF ReferenceInv
<1>3. ReferenceInv => SnapshotCurrent
  BY DEF ReferenceInv
<1> QED
  BY <1>1, <1>2, <1>3, PTL DEF ReferenceSpec
=============================================================================
