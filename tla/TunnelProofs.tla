----------------------------- MODULE TunnelProofs -----------------------------
(***************************************************************************)
(* Proofs about Tunnel, for any number of connections and callers.         *)
(***************************************************************************)
EXTENDS Tunnel, TLAPS

\* The registration map and the waiters map agree with the streams and timers.
AttachWaits == at = "waiting" => waits["attach"] # 0
TunnelInv   == TypeOK /\ LiveIsRegistered /\ WaitersHeard /\ SetsForgotten
                 /\ AttachWaits

\* A host without a live registration has no live stream at all, so the handshake
\* that found none registers the only one.
LEMMA NoneLive ==
  ASSUME TunnelInv, ~Registered PROVE \A c \in Conns : host[c] # "live"
  BY ConnsAssumption DEF TunnelInv, LiveIsRegistered, Registered

\* Nobody waits without a set of waiters.
LEMMA NobodyWaits ==
  ASSUME TunnelInv, entry = 0 PROVE \A w \in Callers : waits[w] = 0
  BY DEF TunnelInv, WaitersHeard

\* TunnelInv is inductive.
LEMMA TunnelInvStep == TunnelInv /\ [Next]_vars => TunnelInv'
<1> SUFFICES ASSUME TunnelInv, [Next]_vars PROVE TunnelInv'
  OBVIOUS
<1> USE ConnsAssumption, SetsAssumption, PreviewsAssumption
    DEF TunnelInv, TypeOK, LiveIsRegistered, WaitersHeard, SetsForgotten,
        AttachWaits, Registered, callers, dialer
<1>1. CASE Dial
  BY <1>1 DEF Dial
<1>2. CASE Established
  BY <1>2 DEF Established
<1>3. CASE GiveUp
  BY <1>3 DEF GiveUp
<1>4. ASSUME NEW c \in Conns, HandleUpgrade(c) PROVE TunnelInv'
  <2>1. CASE ~Registered /\ register(c)
    <3>1. waits' = [w \in Callers |-> 0]
      BY <2>1 DEF register, answered
    <3>2. at' # "waiting" /\ entry' = 0
      BY <1>4, <2>1 DEF register, Callers
    <3>3. TypeOK' /\ LiveIsRegistered'
      BY <1>4, <2>1, <3>1, NoneLive DEF HandleUpgrade, register
    <3> QED BY <3>1, <3>2, <3>3
  <2>2. CASE Registered
    BY <1>4, <2>2 DEF HandleUpgrade
  <2> QED BY <1>4, <2>1, <2>2 DEF HandleUpgrade
<1>5. ASSUME NEW c \in Conns, HostNotices(c) \/ ProbeTimesOut(c) PROVE TunnelInv'
  <2>1. host' = [host EXCEPT ![c] = "destroyed"] /\ UNCHANGED <<path, requests, reg>>
    BY <1>5 DEF HostNotices, ProbeTimesOut
  <2>2. UNCHANGED <<entry, waits, at, client, cached, runner, wire>>
    BY <1>5 DEF HostNotices, ProbeTimesOut
  <2>3. TypeOK' /\ LiveIsRegistered'
    BY <2>1, <2>2
  <2>4. Registered' => Registered
    BY <2>1
  <2> QED BY <2>2, <2>3, <2>4
<1>6. ASSUME NEW c \in Conns, Closed(c) PROVE TunnelInv'
  <2>1. TypeOK' /\ LiveIsRegistered'
    BY <1>6 DEF Closed
  <2>2. Registered' => Registered
    BY <1>6 DEF Closed
  <2> QED BY <1>6, <2>1, <2>2 DEF Closed
<1>7. ASSUME NEW w \in Previews, PreviewWaits(w) PROVE TunnelInv'
  BY <1>7, NobodyWaits DEF PreviewWaits, setOfWaiters, Callers
<1>8. ASSUME NEW w \in Previews, PreviewTimesOut(w) PROVE TunnelInv'
  BY <1>8 DEF PreviewTimesOut, timeOut, Callers
<1>9. CASE Attach
  BY <1>9, NobodyWaits DEF Attach, setOfWaiters, Callers
<1>10. CASE Attached
  BY <1>10 DEF Attached
<1>11. CASE ProbeFails
  BY <1>11 DEF ProbeFails, drop
<1>12. CASE Expired
  <2>1. TypeOK' /\ LiveIsRegistered'
    BY <1>12 DEF Expired, timeOut, drop
  <2>2. CASE at = "waiting" /\ timeOut("attach") /\ drop
    BY <1>12, <2>1, <2>2 DEF Expired, timeOut, drop, Callers
  <2>3. CASE UNCHANGED <<entry, waits, reg, host>>
    BY <1>12, <2>1, <2>3 DEF Expired
  <2> QED BY <1>12, <2>2, <2>3 DEF Expired
<1>13. CASE Evict \/ Detach
  BY <1>13 DEF Evict, Detach, drop
<1>14. CASE Restart
  BY <1>14 DEF Restart
<1>15. ASSUME NEW c \in Conns, Cut(c) PROVE TunnelInv'
  BY <1>15 DEF Cut
<1>16. CASE UNCHANGED vars
  BY <1>16 DEF vars
<1> QED
  BY <1>1, <1>2, <1>3, <1>4, <1>5, <1>6, <1>7, <1>8, <1>9, <1>10, <1>11, <1>12,
     <1>13, <1>14, <1>15, <1>16
  DEF Next, Runner, Server, Asking

\* The inductive invariant of drops, registrations, timers and close events
\* holds throughout.
LEMMA TunnelInvariant == Spec => []TunnelInv
<1>1. Init => TunnelInv
  BY SetsAssumption DEF Init, TunnelInv, TypeOK, LiveIsRegistered, WaitersHeard,
                        SetsForgotten, AttachWaits, Callers
<1> QED
  BY <1>1, TunnelInvStep, PTL DEF Spec

\* For any number of connections: a stream the host keeps open is the registered
\* one, although drops, refused duplicates and late close events of earlier
\* connections interleave with new handshakes.
THEOREM LiveStreamRegistered == Spec => []LiveIsRegistered
<1>1. TunnelInv => LiveIsRegistered
  BY DEF TunnelInv
<1> QED
  BY <1>1, TunnelInvariant, PTL

\* For any number of callers: nobody waits past a registration, or in a set that
\* the next registration does not answer.
THEOREM WaiterHeard == Spec => []WaitersHeard
<1>1. TunnelInv => WaitersHeard
  BY DEF TunnelInv
<1> QED
  BY <1>1, TunnelInvariant, PTL

\* For any number of callers: the host keeps a set of waiters for a sandbox only
\* while somebody waits in it, however timers and registrations race.
THEOREM EverySetForgotten == Spec => []SetsForgotten
<1>1. TunnelInv => SetsForgotten
  BY DEF TunnelInv
<1> QED
  BY <1>1, TunnelInvariant, PTL

=============================================================================
