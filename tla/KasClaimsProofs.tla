--------------------------- MODULE KasClaimsProofs ---------------------------
(***************************************************************************)
(* ServedForGood for any number of sandboxes, failed requests and crashes. *)
(* A deletion time on a claim that lives means a record that is hibernated, *)
(* or a sandbox that has stopped and that only wake starts again; keeping   *)
(* that takes what each call knows between two of its requests.            *)
(***************************************************************************)
EXTENDS KasClaims, TLAPS

Ops == {"none", "provision", "hibernate", "wake", "reclaim", "release", "replace", "boot"}
Places == {"rest", "ended", "token", "create", "waitForClaim", "ready", "patch", "suspended",
           "expireAt", "save", "getClaim", "remove", "delete"}
Writing == {"patch", "create", "patchAgain"}

BoxStates == [there : BOOLEAN, mode : {"unused", "Running", "Suspended"},
              cond : {"none", "Ready", "Suspended"}]
ClaimStates == [there : BOOLEAN, deleting : BOOLEAN, deadline : BOOLEAN, box : BoxIds \cup {0}]
JobStates == [op : Ops, at : Places, box : BoxIds \cup {0}]

KasTypeOK ==
  /\ claim \in ClaimStates
  /\ boxes \in [BoxIds -> BoxStates]
  /\ storing \in [{"call", "prepare"} -> {"rest", "unasked"} \cup Writing]
  /\ job \in JobStates
  /\ record \in [state : {"none", "running", "hibernated"}, box : BoxIds \cup {0}]

\* A claim that is gone has nothing; one that lives has its sandbox.
ClaimInv ==
  /\ ~claim.there => claim = NoClaim
  /\ claim.there /\ ~claim.deleting /\ claim.box # 0 => boxes[claim.box].there

\* The record is of the sandbox of the claim, if there is one.
RecordInv ==
  /\ record.state = "none" <=> record = NoRecord
  /\ record.state # "none" => record.box # 0 /\ (claim.there => claim.box = record.box)
  /\ record.state # "running" => ~serving

\* What a call knows between two requests.
JobInv ==
  /\ storing["call"] \in Writing => job.op \in {"provision", "wake"} /\ job.at = "token"
  /\ job.op = "provision" => record = NoRecord
  /\ job.op = "provision" /\ job.at = "ready" =>
       job.box # 0 /\ (claim.there => claim.box = job.box)
  /\ job.op \in {"hibernate", "wake"} => record.state # "none" /\ job.box = record.box
  /\ job.at \in {"suspended", "expireAt", "save"} =>
       ~serving /\ job.op \in {"hibernate", "boot"}
  /\ job.op = "boot" => record.state = "hibernated" /\ ~serving
  /\ job.op = "hibernate" => record.state = "running"

\* What hibernate has brought about before it asks for a deletion time.
StoppedInv ==
  /\ job.op = "hibernate" /\ job.at = "suspended" => boxes[record.box].mode = "Suspended"
  /\ job.op = "hibernate" /\ job.at \in {"expireAt", "save"} =>
       boxes[record.box].mode = "Suspended" /\ boxes[record.box].cond = "Suspended"

\* Who may find a deletion time on a claim that is not being deleted.
TimedInv ==
  claim.deadline /\ ~claim.deleting =>
    /\ ~serving
    /\ record.state # "none"
    /\ job.op # "replace"
    /\ ~(job.op = "wake" /\ job.at \in {"patch", "ready"})
    /\ record.state = "running" =>
         boxes[record.box].mode = "Suspended" /\ boxes[record.box].cond = "Suspended"

KasInv == KasTypeOK /\ ClaimInv /\ RecordInv /\ JobInv /\ StoppedInv /\ TimedInv

LEMMA KasInvInit == KasInit => KasInv
BY DEF KasInit, KasInv, KasTypeOK, ClaimInv, RecordInv, JobInv, StoppedInv, TimedInv,
   NoClaim, NoJob, NoRecord,
       BoxIds, BoxStates, ClaimStates, JobStates, Ops, Places, Writing

LEMMA ZeroNoBox == 0 \notin BoxIds
BY KasAssumption DEF BoxIds

LEMMA KasTypeNext == KasTypeOK /\ [KasNext]_kasVars => KasTypeOK'
<1> SUFFICES ASSUME KasTypeOK, [KasNext]_kasVars PROVE KasTypeOK'
    OBVIOUS
<1> USE ZeroNoBox DEF KasTypeOK, cluster, At, Ask
<1>1. CASE Provision
    BY <1>1 DEF Provision, ClaimStates, BoxStates, JobStates, Ops, Places, Writing,
       NoClaim, NoJob, NoRecord
<1>2. CASE Hibernate
    BY <1>2 DEF Hibernate, ClaimStates, BoxStates, JobStates, Ops, Places, Writing,
       NoClaim, NoJob, NoRecord
<1>3. CASE Wake
    BY <1>3 DEF Wake, toWake, ClaimStates, BoxStates, JobStates, Ops, Places, Writing,
       NoClaim, NoJob, NoRecord
<1>4. CASE Health
    BY <1>4 DEF Health, toWake, conditionIsTrue, ClaimStates, BoxStates, JobStates, Ops,
       Places, Writing, NoClaim, NoJob, NoRecord
<1>5. CASE Reclaim
    BY <1>5 DEF Reclaim, ClaimStates, BoxStates, JobStates, Ops, Places, Writing,
       NoClaim, NoJob, NoRecord
<1>6. CASE Release
    BY <1>6 DEF Release, ClaimStates, BoxStates, JobStates, Ops, Places, Writing,
       NoClaim, NoJob, NoRecord
<1>7. CASE Prepare
    BY <1>7 DEF Prepare, ClaimStates, BoxStates, JobStates, Ops, Places, Writing,
       NoClaim, NoJob, NoRecord
<1>8. ASSUME NEW w \in {"call", "prepare"}, writeRegistrationToken(w) PROVE KasTypeOK'
    BY <1>8 DEF writeRegistrationToken, stored, ClaimStates, BoxStates, JobStates, Ops,
       Places, Writing, NoClaim, NoJob, NoRecord
<1>9. CASE CreateClaim
    BY <1>9 DEF CreateClaim, ClaimStates, BoxStates, JobStates, Ops, Places, Writing,
       NoClaim, NoJob, NoRecord
<1>10. CASE WaitForClaim
  <2>1. claim' \in ClaimStates
      BY <1>10 DEF WaitForClaim, At, ClaimStates, NoClaim
  <2>2. boxes' \in [BoxIds -> BoxStates]
      BY <1>10 DEF WaitForClaim, At, BoxStates
  <2>3. job' \in JobStates
    <3>1. CASE job' = NoJob
        BY <3>1 DEF JobStates, NoJob, Ops, Places
    <3>2. CASE job' # NoJob
        BY <1>10, <3>2 DEF WaitForClaim, At, ClaimStates, JobStates, Ops, Places
    <3> QED
        BY <3>1, <3>2
  <2> QED
      BY <2>1, <2>2, <2>3, <1>10 DEF WaitForClaim, At, NoRecord, Writing
<1>11. CASE Provisioned
    BY <1>11 DEF Provisioned, conditionIsTrue, ClaimStates, BoxStates, JobStates, Ops,
       Places, Writing, NoClaim, NoJob, NoRecord
<1>12. CASE PatchSuspended
  <2>1. claim' \in ClaimStates
      BY <1>12 DEF PatchSuspended, operatingMode, forget, ClaimStates, NoClaim
  <2>2. boxes' \in [BoxIds -> BoxStates]
      BY <1>12 DEF PatchSuspended, operatingMode, forget, BoxStates
  <2>3. job' \in JobStates
    <3>1. CASE job' = NoJob
        BY <3>1 DEF JobStates, NoJob, Ops, Places
    <3>2. CASE job' # NoJob
        BY <1>12, <3>2 DEF PatchSuspended, operatingMode, forget, ClaimStates, JobStates,
           Ops, Places
    <3> QED
        BY <3>1, <3>2
  <2> QED
      BY <2>1, <2>2, <2>3, <1>12 DEF PatchSuspended, operatingMode, forget, NoRecord,
         Writing
<1>13. CASE WaitSuspended
  <2>1. claim' \in ClaimStates
      BY <1>13 DEF WaitSuspended, conditionIsTrue, forget, ClaimStates, NoClaim
  <2>2. boxes' \in [BoxIds -> BoxStates]
      BY <1>13 DEF WaitSuspended, conditionIsTrue, forget, BoxStates
  <2>3. job' \in JobStates
    <3>1. CASE job' = NoJob
        BY <3>1 DEF JobStates, NoJob, Ops, Places
    <3>2. CASE job' # NoJob
        BY <1>13, <3>2 DEF WaitSuspended, conditionIsTrue, forget, ClaimStates,
           JobStates, Ops, Places
    <3> QED
        BY <3>1, <3>2
  <2> QED
      BY <2>1, <2>2, <2>3, <1>13 DEF WaitSuspended, conditionIsTrue, forget, NoRecord,
         Writing
<1>14. CASE ExpireAt
  <2>1. claim' \in ClaimStates
      BY <1>14 DEF ExpireAt, forget, ClaimStates, NoClaim
  <2>2. boxes' \in [BoxIds -> BoxStates]
      BY <1>14 DEF ExpireAt, forget, BoxStates
  <2>3. job' \in JobStates
    <3>1. CASE job' = NoJob
        BY <3>1 DEF JobStates, NoJob, Ops, Places
    <3>2. CASE job' # NoJob
        BY ZenonT(60), <1>14, <3>2 DEF ExpireAt, forget, ClaimStates, JobStates, Ops, Places
    <3> QED
        BY <3>1, <3>2
  <2> QED
      BY <2>1, <2>2, <2>3, <1>14 DEF ExpireAt, forget, NoRecord, Writing
<1>15. CASE SaveHibernated
    BY <1>15 DEF SaveHibernated, ClaimStates, BoxStates, JobStates, Ops, Places, Writing,
       NoClaim, NoJob, NoRecord
<1>16. CASE ClearExpiry
  <2>1. claim' \in ClaimStates
      BY <1>16 DEF ClearExpiry, replaceLost, ClaimStates, NoClaim
  <2>2. boxes' \in [BoxIds -> BoxStates]
      BY <1>16 DEF ClearExpiry, replaceLost, BoxStates
  <2>3. job' \in JobStates
      BY <1>16 DEF ClearExpiry, replaceLost, JobStates, Ops, Places, NoJob
  <2> QED
      BY <2>1, <2>2, <2>3, <1>16 DEF ClearExpiry, replaceLost, NoRecord, Writing
<1>17. CASE PatchRunning
  <2>1. claim' \in ClaimStates
      BY <1>17 DEF PatchRunning, operatingMode, replaceLost, ClaimStates, NoClaim
  <2>2. boxes' \in [BoxIds -> BoxStates]
      BY <1>17 DEF PatchRunning, operatingMode, replaceLost, BoxStates
  <2>3. job' \in JobStates
      BY <1>17 DEF PatchRunning, operatingMode, replaceLost, JobStates, Ops, Places, NoJob
  <2> QED
      BY <2>1, <2>2, <2>3, <1>17 DEF PatchRunning, operatingMode, replaceLost, NoRecord,
         Writing
<1>18. CASE Woken
  <2>1. NoJob \in JobStates
      BY DEF JobStates, NoJob, Ops, Places
  <2>2. [job EXCEPT !.op = "replace", !.at = "delete"] \in JobStates
      BY DEF JobStates, Ops, Places
  <2>3. [record EXCEPT !.state = "running"]
          \in [state : {"none", "running", "hibernated"}, box : BoxIds \cup {0}]
      OBVIOUS
  <2> QED
      BY <1>18, <2>1, <2>2, <2>3 DEF Woken, replaceLost
<1>19. CASE DeleteClaim
  <2>1. claim' \in ClaimStates
      BY <1>19 DEF DeleteClaim, deleted, Ended, Trouble, ClaimStates, NoClaim
  <2>2. boxes' \in [BoxIds -> BoxStates]
      BY <1>19 DEF DeleteClaim, deleted, Ended, Trouble, BoxStates
  <2>3. job' \in JobStates
    <3>1. NoJob \in JobStates /\ Ended \in JobStates
        BY DEF JobStates, NoJob, Ended, Ops, Places
    <3>2. [NoJob EXCEPT !.op = "provision", !.at = "token"] \in JobStates
        BY DEF JobStates, NoJob, Ops, Places
    <3> QED
        BY <1>19, <3>1, <3>2 DEF DeleteClaim
  <2> QED
      BY <2>1, <2>2, <2>3, <1>19 DEF DeleteClaim, deleted, Ended, Trouble, NoRecord, Writing
<1>20. CASE Throws
    BY <1>20 DEF Throws, Trouble, Ended, ClaimStates, BoxStates, JobStates, Ops, Places,
       Writing, NoClaim, NoJob, NoRecord
<1>21. CASE PrepareFails
    BY <1>21 DEF PrepareFails, Trouble, ClaimStates, BoxStates, JobStates, Ops, Places,
       Writing, NoClaim, NoJob, NoRecord
<1>22. CASE Crash
  <2>1. claim' \in ClaimStates
      BY <1>22 DEF Crash, Trouble, ClaimStates, NoClaim
  <2>2. boxes' \in [BoxIds -> BoxStates]
      BY <1>22 DEF Crash, Trouble, BoxStates
  <2>3. job' \in JobStates
      BY <1>22 DEF Crash, Trouble, JobStates, Ops, Places, NoJob
  <2> QED
      BY <2>1, <2>2, <2>3, <1>22 DEF Crash, Trouble, NoRecord, Writing
<1>23. CASE Assign
  <2>1. claim' \in ClaimStates
      BY <1>23 DEF Assign, ClaimStates, NoClaim
  <2>2. boxes' \in [BoxIds -> BoxStates]
      BY <1>23 DEF Assign, BoxStates
  <2>3. job' \in JobStates
      BY <1>23 DEF Assign, JobStates, Ops, Places, NoJob
  <2> QED
      BY <2>1, <2>2, <2>3, <1>23 DEF Assign, NoRecord, Writing
<1>24. ASSUME NEW b \in BoxIds, Converge(b) PROVE KasTypeOK'
    BY <1>24 DEF Converge, ClaimStates, BoxStates, JobStates, Ops, Places, Writing,
       NoClaim, NoJob, NoRecord
<1>25. CASE ShutdownTime
    BY ZenonT(60), <1>25 DEF ShutdownTime, deleted, ClaimStates, BoxStates, JobStates, Ops, Places,
       Writing, NoClaim, NoJob, NoRecord
<1>26. CASE Collect
  <2>1. claim' \in ClaimStates
    <3>1. CASE claim' = NoClaim
        BY <3>1 DEF ClaimStates, NoClaim
    <3>2. CASE claim' # NoClaim
        BY <1>26, <3>2 DEF Collect
    <3> QED
        BY <3>1, <3>2
  <2>2. boxes' \in [BoxIds -> BoxStates]
    <3>1. [boxes EXCEPT ![claim.box].there = FALSE] \in [BoxIds -> BoxStates]
        BY ZenonT(60) DEF BoxStates
    <3> QED
        BY <1>26, <3>1 DEF Collect
  <2>3. job' \in JobStates
      BY <1>26 DEF Collect, JobStates, Ops, Places, NoJob
  <2> QED
      BY <2>1, <2>2, <2>3, <1>26 DEF Collect, NoRecord, Writing
<1>27. CASE SecretTouched
    BY <1>27 DEF SecretTouched, Trouble, ClaimStates, BoxStates, JobStates, Ops, Places,
       Writing, NoClaim, NoJob, NoRecord
<1>28. CASE UNCHANGED kasVars
    BY <1>28 DEF kasVars
<1> QED
    BY <1>1, <1>2, <1>3, <1>4, <1>5, <1>6, <1>7, <1>8, <1>9, <1>10, <1>11, <1>12, <1>13,
       <1>14, <1>15, <1>16, <1>17, <1>18, <1>19, <1>20, <1>21, <1>22, <1>23, <1>24,
       <1>25, <1>26, <1>27, <1>28 DEF KasNext

LEMMA KasInvNext == KasInv /\ [KasNext]_kasVars => KasInv'
<1> SUFFICES ASSUME KasInv, [KasNext]_kasVars
             PROVE (ClaimInv /\ RecordInv /\ JobInv /\ StoppedInv /\ TimedInv)'
    BY KasTypeNext DEF KasInv
<1>0. KasTypeOK'
    BY KasTypeNext DEF KasInv
<1> USE <1>0, ZeroNoBox DEF KasInv, KasTypeOK, ClaimInv, RecordInv, JobInv, StoppedInv, TimedInv,
        BoxStates, ClaimStates, JobStates, Ops, Places, Writing, NoClaim, NoJob, NoRecord,
        cluster, At, Ask
<1>1. CASE Provision
    BY <1>1 DEF Provision
<1>2. CASE Hibernate
    BY <1>2 DEF Hibernate
<1>3. CASE Wake
    BY <1>3 DEF Wake, toWake
<1>4. CASE Health
    BY <1>4 DEF Health, toWake, conditionIsTrue
<1>5. CASE Reclaim
    BY <1>5 DEF Reclaim
<1>6. CASE Release
    BY <1>6 DEF Release
<1>7. CASE Prepare
    BY <1>7 DEF Prepare
<1>8. ASSUME NEW w \in {"call", "prepare"}, writeRegistrationToken(w)
             PROVE (ClaimInv /\ RecordInv /\ JobInv /\ StoppedInv /\ TimedInv)'
    BY <1>8 DEF writeRegistrationToken, stored
<1>9. CASE CreateClaim
    BY <1>9 DEF CreateClaim
<1>10. CASE WaitForClaim
    BY <1>10 DEF WaitForClaim, At
<1>11. CASE Provisioned
    BY <1>11 DEF Provisioned, conditionIsTrue
<1>12. CASE PatchSuspended
  <2>1. CASE boxes[job.box].there
    <3>1. ClaimInv'
        BY <1>12, <2>1 DEF PatchSuspended, operatingMode, forget
    <3>2. RecordInv'
        BY <1>12, <2>1 DEF PatchSuspended, operatingMode, forget
    <3>3. JobInv'
        BY ZenonT(60), <1>12, <2>1 DEF PatchSuspended, operatingMode, forget
    <3>4. StoppedInv'
      <4>1. record.box \in BoxIds /\ job.box = record.box
          BY <1>12 DEF PatchSuspended
      <4>2. /\ boxes'[record.box].mode = "Suspended"
            /\ boxes'[record.box].cond = boxes[record.box].cond
          BY <1>12, <2>1, <4>1 DEF PatchSuspended, operatingMode
      <4>3. /\ job'.op = "hibernate" /\ job'.at = "suspended"
            /\ record' = record /\ claim' = claim
          BY ZenonT(60), <1>12, <2>1 DEF PatchSuspended
      <4> QED
          BY <4>2, <4>3
    <3>5. TimedInv'
      <4>1. record.box \in BoxIds /\ job.box = record.box
          BY <1>12 DEF PatchSuspended
      <4>2. /\ boxes'[record.box].mode = "Suspended"
            /\ boxes'[record.box].cond = boxes[record.box].cond
          BY <1>12, <2>1, <4>1 DEF PatchSuspended, operatingMode
      <4>3. /\ job'.op = "hibernate" /\ job'.at = "suspended"
            /\ record' = record /\ claim' = claim /\ ~serving'
          BY ZenonT(60), <1>12, <2>1 DEF PatchSuspended
      <4> QED
          BY <4>1, <4>2, <4>3
    <3> QED
        BY <3>1, <3>2, <3>3, <3>4, <3>5
  <2>2. CASE ~boxes[job.box].there
      BY <1>12, <2>2 DEF PatchSuspended, operatingMode, forget
  <2> QED
      BY <2>1, <2>2
<1>13. CASE WaitSuspended
  <2>1. CASE boxes[job.box].there
    <3>1. ClaimInv'
        BY <1>13, <2>1 DEF WaitSuspended, conditionIsTrue, forget
    <3>2. RecordInv'
        BY <1>13, <2>1 DEF WaitSuspended, conditionIsTrue, forget
    <3>3. JobInv'
      <4>1. /\ job'.op = "hibernate" /\ job'.at = "expireAt" /\ job'.box = job.box
            /\ UNCHANGED <<claim, record, serving, storing>>
          BY ZenonT(60), <1>13, <2>1 DEF WaitSuspended
      <4>2. /\ record.state = "running" /\ job.box = record.box /\ ~serving
            /\ storing["call"] \notin Writing
          BY <1>13 DEF WaitSuspended
      <4> QED
          BY <4>1, <4>2
    <3>4. StoppedInv'
        BY <1>13, <2>1 DEF WaitSuspended, conditionIsTrue, forget
    <3>5. TimedInv'
        BY ZenonT(60), <1>13, <2>1 DEF WaitSuspended, conditionIsTrue, forget
    <3> QED
        BY <3>1, <3>2, <3>3, <3>4, <3>5
  <2>2. CASE ~boxes[job.box].there
      BY <1>13, <2>2 DEF WaitSuspended, conditionIsTrue, forget
  <2> QED
      BY <2>1, <2>2
<1>14. CASE ExpireAt
  <2>1. CASE claim.there /\ job.op = "boot"
      BY <1>14, <2>1 DEF ExpireAt, forget
  <2>2. CASE claim.there /\ job.op # "boot"
    <3>1. ClaimInv'
        BY <1>14, <2>2 DEF ExpireAt, forget
    <3>2. RecordInv'
        BY <1>14, <2>2 DEF ExpireAt, forget
    <3>3. JobInv'
      <4>1. /\ job' = [job EXCEPT !.op = "hibernate", !.at = "save"]
            /\ UNCHANGED <<record, serving, storing>>
          BY ONLY <1>14, <2>2 DEF ExpireAt, Ask
      <4>2. job'.op = "hibernate" /\ job'.at = "save" /\ job'.box = job.box
          BY <4>1
      <4>3. /\ record.state = "running" /\ job.box = record.box /\ ~serving
            /\ storing["call"] \notin Writing
          BY <1>14, <2>2 DEF ExpireAt
      <4> QED
          BY <4>1, <4>2, <4>3
    <3>4. StoppedInv'
        BY <1>14, <2>2 DEF ExpireAt, forget
    <3>5. TimedInv'
        BY ZenonT(60), <1>14, <2>2 DEF ExpireAt, forget
    <3> QED
        BY <3>1, <3>2, <3>3, <3>4, <3>5
  <2>3. CASE ~claim.there
      BY <1>14, <2>3 DEF ExpireAt, forget
  <2> QED
      BY <2>1, <2>2, <2>3
<1>15. CASE SaveHibernated
    BY <1>15 DEF SaveHibernated
<1>16. CASE ClearExpiry
  <2>1. CASE ~claim.there
    <3>1. ClaimInv'
        BY <1>16, <2>1 DEF ClearExpiry, replaceLost
    <3>2. RecordInv'
        BY <1>16, <2>1 DEF ClearExpiry, replaceLost
    <3>3. JobInv'
        BY ZenonT(60), <1>16, <2>1 DEF ClearExpiry, replaceLost
    <3>4. StoppedInv'
        BY <1>16, <2>1 DEF ClearExpiry, replaceLost
    <3>5. TimedInv'
        BY <1>16, <2>1 DEF ClearExpiry, replaceLost
    <3> QED
        BY <3>1, <3>2, <3>3, <3>4, <3>5
  <2>2. CASE claim.there /\ job.at = "getClaim"
    <3>1. ClaimInv'
        BY <1>16, <2>2 DEF ClearExpiry, replaceLost
    <3>2. RecordInv'
        BY <1>16, <2>2 DEF ClearExpiry, replaceLost
    <3>3. JobInv'
        BY ZenonT(60), <1>16, <2>2 DEF ClearExpiry, replaceLost
    <3>4. StoppedInv'
        BY ZenonT(60), <1>16, <2>2 DEF ClearExpiry, replaceLost
    <3>5. TimedInv'
        BY ZenonT(60), <1>16, <2>2 DEF ClearExpiry, replaceLost
    <3> QED
        BY <3>1, <3>2, <3>3, <3>4, <3>5
  <2>3. CASE claim.there /\ job.at # "getClaim"
    <3>1. ClaimInv'
        BY <1>16, <2>3 DEF ClearExpiry, replaceLost
    <3>2. RecordInv'
        BY <1>16, <2>3 DEF ClearExpiry, replaceLost
    <3>3. JobInv'
        BY ZenonT(60), <1>16, <2>3 DEF ClearExpiry, replaceLost
    <3>4. StoppedInv'
        BY ZenonT(60), <1>16, <2>3 DEF ClearExpiry, replaceLost
    <3>5. TimedInv'
        BY <1>16, <2>3 DEF ClearExpiry, replaceLost
    <3> QED
        BY <3>1, <3>2, <3>3, <3>4, <3>5
  <2> QED
      BY <2>1, <2>2, <2>3
<1>17. CASE PatchRunning
  <2>1. CASE boxes[job.box].there
    <3>1. ClaimInv'
        BY <1>17, <2>1 DEF PatchRunning, operatingMode, replaceLost
    <3>2. RecordInv'
        BY <1>17, <2>1 DEF PatchRunning, operatingMode, replaceLost
    <3>3. JobInv'
        BY ZenonT(60), <1>17, <2>1 DEF PatchRunning, operatingMode, replaceLost
    <3>4. StoppedInv'
        BY ZenonT(60), <1>17, <2>1 DEF PatchRunning, operatingMode, replaceLost
    <3>5. TimedInv'
        BY <1>17, <2>1 DEF PatchRunning, operatingMode, replaceLost
    <3> QED
        BY <3>1, <3>2, <3>3, <3>4, <3>5
  <2>2. CASE ~boxes[job.box].there
      BY ZenonT(60), <1>17, <2>2 DEF PatchRunning, operatingMode, replaceLost
  <2> QED
      BY <2>1, <2>2
<1>18. CASE Woken
  <2>1. CASE boxes[job.box].there
      BY <1>18, <2>1 DEF Woken, conditionIsTrue, replaceLost
  <2>2. CASE ~boxes[job.box].there
    <3>1. ClaimInv'
        BY <1>18, <2>2 DEF Woken, conditionIsTrue, replaceLost
    <3>2. RecordInv'
        BY <1>18, <2>2 DEF Woken, conditionIsTrue, replaceLost
    <3>3. JobInv'
        BY ZenonT(60), <1>18, <2>2 DEF Woken, conditionIsTrue, replaceLost
    <3>4. StoppedInv'
        BY <1>18, <2>2 DEF Woken, conditionIsTrue, replaceLost
    <3>5. TimedInv'
        BY <1>18, <2>2 DEF Woken, conditionIsTrue, replaceLost
    <3> QED
        BY <3>1, <3>2, <3>3, <3>4, <3>5
  <2> QED
      BY <2>1, <2>2
<1>19. CASE DeleteClaim
  <2>1. CASE job.op \in {"replace", "reclaim"}
    <3>1. ClaimInv'
        BY <1>19, <2>1 DEF DeleteClaim, deleted, Ended, Trouble
    <3>2. RecordInv'
        BY <1>19, <2>1 DEF DeleteClaim, deleted, Ended, Trouble
    <3>3. JobInv'
        BY ZenonT(60), <1>19, <2>1 DEF DeleteClaim, deleted, Ended, Trouble
    <3>4. StoppedInv'
        BY ZenonT(60), <1>19, <2>1 DEF DeleteClaim, deleted, Ended, Trouble
    <3>5. TimedInv'
        BY <1>19, <2>1 DEF DeleteClaim, deleted, Ended, Trouble
    <3> QED
        BY <3>1, <3>2, <3>3, <3>4, <3>5
  <2>2. CASE job.op = "release"
      BY <1>19, <2>2 DEF DeleteClaim, deleted, Ended, Trouble
  <2>3. CASE job.op \notin {"replace", "reclaim", "release"}
      BY <1>19, <2>3 DEF DeleteClaim, deleted, Ended, Trouble
  <2> QED
      BY <2>1, <2>2, <2>3
<1>20. CASE Throws
    BY <1>20 DEF Throws, Trouble, Ended
<1>21. CASE PrepareFails
    BY <1>21 DEF PrepareFails, Trouble
<1>22. CASE Crash
  <2>1. CASE record.state = "hibernated"
      BY <1>22, <2>1 DEF Crash, Trouble
  <2>2. CASE record.state # "hibernated"
      BY <1>22, <2>2 DEF Crash, Trouble
  <2> QED
      BY <2>1, <2>2
<1>23. CASE Assign
    BY <1>23 DEF Assign
<1>24. ASSUME NEW b \in BoxIds, Converge(b)
             PROVE (ClaimInv /\ RecordInv /\ JobInv /\ StoppedInv /\ TimedInv)'
    BY <1>24 DEF Converge
<1>25. CASE ShutdownTime
    BY <1>25 DEF ShutdownTime, deleted
<1>26. CASE Collect
  <2>1. CASE claim.box # 0 /\ boxes[claim.box].there
      BY <1>26, <2>1 DEF Collect
  <2>2. CASE ~(claim.box # 0 /\ boxes[claim.box].there)
      BY <1>26, <2>2 DEF Collect
  <2> QED
      BY <2>1, <2>2
<1>27. CASE SecretTouched
    BY <1>27 DEF SecretTouched, Trouble
<1>28. CASE UNCHANGED kasVars
    BY <1>28 DEF kasVars
<1> QED
    BY <1>1, <1>2, <1>3, <1>4, <1>5, <1>6, <1>7, <1>8, <1>9, <1>10, <1>11, <1>12, <1>13,
       <1>14, <1>15, <1>16, <1>17, <1>18, <1>19, <1>20, <1>21, <1>22, <1>23, <1>24,
       <1>25, <1>26, <1>27, <1>28 DEF KasNext

LEMMA KasInvariant == KasSpec => []KasInv
BY KasInvInit, KasInvNext, PTL DEF KasSpec

\* Whatever request fails, whatever answer is lost and wherever the host
\* crashes, no sandbox in use carries a deletion time (kas.ts, expireAt and
\* clearExpiry).
THEOREM NoTimedSandboxServes == KasSpec => []ServedForGood
<1>1. KasInv => ServedForGood
    BY DEF KasInv, KasTypeOK, TimedInv, ServedForGood
<1> QED
    BY <1>1, KasInvariant, PTL
=============================================================================
