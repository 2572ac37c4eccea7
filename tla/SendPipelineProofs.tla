------------------------- MODULE SendPipelineProofs -------------------------
(***************************************************************************)
(* Proofs about SendPipeline for every number of rows, processes, requests *)
(* and attempts.  The inductive invariant IInv is proved part by part, one *)
(* lemma XxxStep for each of its conjuncts and one case per action in each; *)
(* the theorems at the end follow from it.                                 *)
(***************************************************************************)
EXTENDS SendPipeline, FiniteSetTheorems, TLAPS

-----------------------------------------------------------------------------
(* Types *)

\* Reserving, refunding and spending keep the slot counters within the budget.
LEMMA SlotType ==
  ASSUME TypeOK
  PROVE  /\ SlotFree /\ Reserve => used' \in 0..Budget
         /\ Refund => used' \in 0..Budget
         /\ Spend => spent' \in 0..Budget
  BY ParametersAssumption DEF TypeOK, SlotFree, Reserve, Refund, Spend

\* Slots are lost up to the budget.
LEMMA LoseType ==
  ASSUME TypeOK, NEW n, Lose(n)
  PROVE  lost' \in 0..Budget
  BY ParametersAssumption DEF TypeOK, Lose

\* A claim that matches writes values of the right types and adds a well-formed job.
LEMMA ClaimType ==
  ASSUME TypeOK, NEW e \in Emails, NEW p \in Procs, Claim(e, p)
  PROVE  /\ status' \in [Emails -> Statuses]
         /\ attempts' \in [Emails -> Nat]
         /\ backoff' \in [Emails -> {"null", "fresh", "aged", "due"}]
         /\ jobs' \subseteq JobRecord
         /\ UNCHANGED <<isDraft, schedule>>
<1>1. [email |-> e, n |-> attempts[e] + 1, proc |-> p, stage |-> "claimed", seen |-> 0] \in JobRecord
  BY DEF TypeOK, JobRecord, Stages
<1> QED
  BY <1>1 DEF TypeOK, Claim, MarkSending, Statuses

\* A job that moves to another stage, or reads its row, stays well formed.
LEMMA MoveType ==
  ASSUME TypeOK, NEW j \in jobs, NEW stage \in Stages
  PROVE  /\ j \in JobRecord
         /\ j.email \in Emails
         /\ [j EXCEPT !.stage = stage] \in JobRecord
         /\ [j EXCEPT !.stage = "calling", !.seen = attempts[j.email]] \in JobRecord
         /\ MoveJob(j, stage) => jobs' \subseteq JobRecord
  BY DEF TypeOK, JobRecord, Stages, MoveJob

\* What a claim that throws leaves of the row: nothing new, or a claim without a job.
LEMMA ThrowFacts ==
  ASSUME TypeOK, NEW e \in Emails, ClaimThrows(e)
  PROVE  /\ UNCHANGED <<jobs, isDraft, schedule>>
         /\ \A f \in Emails : f # e => /\ status'[f] = status[f]
                                       /\ attempts'[f] = attempts[f]
         /\ \/ UNCHANGED row
            \/ Claimable(e) /\ status'[e] = "sending"
         /\ status' \in [Emails -> Statuses] /\ attempts' \in [Emails -> Nat]
         /\ backoff' \in [Emails -> {"null", "fresh", "aged", "due"}]
<1>1. CASE UNCHANGED row
  BY <1>1 DEF TypeOK, ClaimThrows, row
<1>2. CASE Claimable(e) /\ MarkSending(e)
  BY <1>2 DEF TypeOK, ClaimThrows, MarkSending, Statuses
<1> QED BY <1>1, <1>2 DEF ClaimThrows

\* Moving a request along keeps the record of every request in its type.
LEMMA AtType ==
  ASSUME TypeOK, NEW e \in Emails, NEW pc \in ComposePcs, At(e, pc)
  PROVE  compose' \in [Emails -> [pc : ComposePcs, proc : Procs]]
<1>1. compose' = [compose EXCEPT ![e].pc = pc]
  BY DEF At
<1>2. compose[e] \in [pc : ComposePcs, proc : Procs]
  BY DEF TypeOK
<1> QED
  BY <1>1, <1>2 DEF TypeOK

\* Every step keeps every variable in its type.
LEMMA TypeStep ==
  ASSUME TypeOK, [Next]_vars
  PROVE  TypeOK'
<1> USE ParametersAssumption DEF TypeOK, Statuses, Stages, ComposePcs, TickPcs, row, tick, history
<1>1. ASSUME NEW e \in Emails, ComposeDraft(e) PROVE TypeOK'
  BY <1>1 DEF ComposeDraft, NewRow, At
<1>2. ASSUME NEW e \in Emails, ComposeScheduled(e) PROVE TypeOK'
  BY <1>2 DEF ComposeScheduled, NewRow, At
<1>3. ASSUME NEW e \in Emails, ComposeReserve(e) PROVE TypeOK'
  <2>1. used' \in 0..Budget
    BY <1>3, SlotType DEF ComposeReserve
  <2>2. UNCHANGED <<row, dispatch, tick, jobs, crashes, history>>
    BY <1>3 DEF ComposeReserve
  <2>3. CASE At(e, "allowed")
    BY <2>1, <2>2, <2>3 DEF At
  <2>4. CASE At(e, "blocked")
    BY <2>1, <2>2, <2>4 DEF At
  <2> QED
    BY <1>3, <2>3, <2>4 DEF ComposeReserve
<1>4. ASSUME NEW e \in Emails, ComposeMarkScheduled(e) PROVE TypeOK'
  BY <1>4 DEF ComposeMarkScheduled, At
<1>5. ASSUME NEW e \in Emails, ComposeInsert(e) PROVE TypeOK'
  <2>1. At(e, "claiming") \/ At(e, "limiting")
    BY <1>5 DEF ComposeInsert
  <2>2. compose' \in [Emails -> [pc : ComposePcs, proc : Procs]]
    BY <2>1, AtType
  <2> QED
    BY <1>5, <2>2 DEF ComposeInsert, NewRow
<1>6. ASSUME NEW e \in Emails, ComposeThrows(e) PROVE TypeOK'
  BY <1>6, LoseType DEF ComposeThrows, At
<1>7. ASSUME NEW e \in Emails, ComposeMarkLimited(e) PROVE TypeOK'
  BY <1>7 DEF ComposeMarkLimited, At
<1>8. ASSUME NEW e \in Emails, ComposeClaim(e) PROVE TypeOK'
  <2>1. CASE Claimable(e)
    BY <1>8, <2>1, ClaimType, LoseType DEF ComposeClaim, ClaimOrLose, At
  <2>2. CASE ~Claimable(e)
    BY <1>8, <2>2, LoseType DEF ComposeClaim, ClaimOrLose, At
  <2> QED BY <2>1, <2>2
<1>9. ASSUME NEW e \in Emails, Purge(e) PROVE TypeOK'
  BY <1>9 DEF Purge
<1>10. ASSUME NEW e \in Emails, Ages(e) PROVE TypeOK'
  BY <1>10 DEF Ages
<1>11. ASSUME NEW e \in Emails, ScheduleElapses(e) PROVE TypeOK'
  BY <1>11 DEF ScheduleElapses
<1>12. ASSUME NEW r \in Requests, NEW e \in Emails, NEW p \in Procs, DispatchReserve(r, e, p) PROVE TypeOK'
  BY <1>12, SlotType DEF DispatchReserve
<1>13. ASSUME NEW d \in dispatch, DispatchClaim(d) PROVE TypeOK'
  <2> d.email \in Emails /\ d.proc \in Procs OBVIOUS
  <2>1. CASE Claimable(d.email)
    BY <1>13, <2>1, ClaimType, LoseType DEF DispatchClaim, ClaimOrLose
  <2>2. CASE ~Claimable(d.email)
    BY <1>13, <2>2, LoseType DEF DispatchClaim, ClaimOrLose
  <2> QED BY <2>1, <2>2
<1>14. ASSUME NEW p \in Procs, TickSelectRetries(p) PROVE TypeOK'
  <2>1. PICK c \in FullBatch(RetryCandidates) :
          retryList' = [retryList EXCEPT ![p] = {e \in c : PassesBackoff(e)}]
    BY <1>14 DEF TickSelectRetries
  <2>2. {e \in c : PassesBackoff(e)} \subseteq Emails
    BY <2>1 DEF FullBatch, RetryCandidates
  <2> QED
    BY <1>14, <2>1, <2>2 DEF TickSelectRetries
<1>15. ASSUME NEW p \in Procs, TickSelectScheduled(p) PROVE TypeOK'
  <2>1. PICK c \in FullBatch(ScheduledCandidates) : schedList' = [schedList EXCEPT ![p] = c]
    BY <1>15 DEF TickSelectScheduled
  <2>2. c \subseteq Emails
    BY <2>1 DEF FullBatch, ScheduledCandidates
  <2> QED
    BY <1>15, <2>1, <2>2 DEF TickSelectScheduled
<1>16. ASSUME NEW p \in Procs, TickReserve(p) PROVE TypeOK'
  <2>1. PICK e \in Emails : TakesNext(p, e) /\ ReservesFor(p, e)
    BY <1>16 DEF TickReserve
  <2>2. used' \in 0..Budget
    BY <2>1, SlotType DEF ReservesFor
  <2>3. retryList' \in [Procs -> SUBSET Emails] /\ schedList' \in [Procs -> SUBSET Emails]
    <3>1. retryList[p] \ {e} \in SUBSET Emails /\ schedList[p] \ {e} \in SUBSET Emails
      OBVIOUS
    <3>2. CASE e \in retryList[p]
      BY <2>1, <3>1, <3>2 DEF TakesNext
    <3>3. CASE retryList[p] = {}
      BY <2>1, <3>1, <3>3 DEF TakesNext
    <3> QED BY <2>1, <3>2, <3>3 DEF TakesNext
  <2>4. tickRow' \in [Procs -> SUBSET Emails] /\ tickPc' \in [Procs -> TickPcs]
    <3>1. CASE tickRow' = [tickRow EXCEPT ![p] = {e}] /\ tickPc' = [tickPc EXCEPT ![p] = "reserved"]
      BY <3>1
    <3>2. CASE UNCHANGED <<tickRow, tickPc>>
      BY <3>2
    <3> QED BY <2>1, <3>1, <3>2 DEF ReservesFor
  <2>5. UNCHANGED <<row, compose, dispatch, jobs, crashes, history>>
    BY <1>16 DEF TickReserve
  <2> QED
    BY <2>2, <2>3, <2>4, <2>5
<1>17. ASSUME NEW p \in Procs, TickClaim(p) PROVE TypeOK'
  <2> PICK e \in tickRow[p] :
        \/ Claimable(e) /\ Claim(e, p) /\ tickPc' = [tickPc EXCEPT ![p] = "loop"]
        \/ ~Claimable(e) /\ tickPc' = [tickPc EXCEPT ![p] = "refunding"] /\ UNCHANGED <<row, jobs>>
    BY <1>17 DEF TickClaim
  <2> e \in Emails OBVIOUS
  <2>1. CASE Claimable(e)
    BY <1>17, <2>1, ClaimType DEF TickClaim
  <2>2. CASE ~Claimable(e)
    BY <1>17, <2>2 DEF TickClaim
  <2> QED BY <2>1, <2>2
<1>18. ASSUME NEW p \in Procs, TickRefund(p) PROVE TypeOK'
  BY <1>18, SlotType DEF TickRefund
<1>19. ASSUME NEW p \in Procs, TickEnd(p) PROVE TypeOK'
  BY <1>19 DEF TickEnd
<1>20. ASSUME NEW p \in Procs, Crash(p) PROVE TypeOK'
  BY <1>20, LoseType DEF Crash
<1>21. ASSUME NEW j \in jobs, JobRead(j) PROVE TypeOK'
  BY <1>21, MoveType, LoseType DEF JobRead
<1>22. ASSUME NEW j \in jobs, EngineTakes(j) PROVE TypeOK'
  <2>1. jobs' \subseteq JobRecord /\ j.email \in Emails
    BY <1>22, MoveType DEF EngineTakes
  <2> QED
    BY <1>22, <2>1 DEF EngineTakes
<1>23. ASSUME NEW j \in jobs, EngineConfirms(j) PROVE TypeOK'
  BY <1>23, MoveType DEF EngineConfirms
<1>24. ASSUME NEW j \in jobs, NEW kind \in {"hard", "soft"}, EngineFails(j, kind) PROVE TypeOK'
  <2>1. jobs' \subseteq JobRecord /\ j.email \in Emails
    BY <1>24, MoveType DEF EngineFails
  <2> QED
    BY <1>24, <2>1 DEF EngineFails
<1>25. ASSUME NEW j \in jobs, JobSucceeds(j) PROVE TypeOK'
  BY <1>25, MoveType, SlotType DEF JobSucceeds
<1>26. ASSUME NEW j \in jobs, JobFails(j) PROVE TypeOK'
  <2>1. jobs' \subseteq JobRecord /\ spent' \in 0..Budget /\ lost' \in 0..Budget
    <3>1. UNCHANGED lost => lost' \in 0..Budget
      BY DEF TypeOK
    <3>2. UNCHANGED spent => spent' \in 0..Budget
      BY DEF TypeOK
    <3> QED
      BY <1>26, <3>1, <3>2, MoveType, SlotType, LoseType DEF JobFails, FailureEnds
  <2>2. status' \in [Emails -> Statuses]
    BY <1>26, MoveType DEF JobFails, FinalState
  <2> QED
    BY <1>26, <2>1, <2>2 DEF JobFails
<1>27. ASSUME NEW j \in jobs, JobRefunds(j) PROVE TypeOK'
  BY <1>27, SlotType DEF JobRefunds
<1>28. ASSUME NEW j \in jobs, JobThrows(j) PROVE TypeOK'
  BY <1>28, MoveType DEF JobThrows
<1>29. ASSUME WindowRolls PROVE TypeOK'
  BY <1>29 DEF WindowRolls
<1>30. ASSUME UNCHANGED vars PROVE TypeOK'
  BY <1>30 DEF vars
<1>31. ASSUME NEW e \in Emails, ComposeClaimThrows(e) PROVE TypeOK'
  <2>1. /\ At(e, "done") /\ lost' \in 0..Budget
        /\ UNCHANGED <<dispatch, tick, used, crashes, accepted, unheard, spent>>
    BY <1>31, LoseType DEF ComposeClaimThrows
  <2>2. compose' \in [Emails -> [pc : ComposePcs, proc : Procs]]
    BY <2>1, AtType
  <2>3. /\ status' \in [Emails -> Statuses] /\ attempts' \in [Emails -> Nat]
        /\ backoff' \in [Emails -> {"null", "fresh", "aged", "due"}]
        /\ UNCHANGED <<jobs, isDraft, schedule>>
    BY <1>31, ThrowFacts DEF ComposeClaimThrows
  <2> QED
    BY <2>1, <2>2, <2>3
<1>32. ASSUME NEW d \in dispatch, DispatchClaimThrows(d) PROVE TypeOK'
  <2> d.email \in Emails OBVIOUS
  <2> QED
    BY <1>32, ThrowFacts, LoseType DEF DispatchClaimThrows
<1>33. ASSUME NEW p \in Procs, TickThrows(p) PROVE TypeOK'
  <2>1. /\ status' \in [Emails -> Statuses] /\ attempts' \in [Emails -> Nat]
        /\ backoff' \in [Emails -> {"null", "fresh", "aged", "due"}]
        /\ UNCHANGED <<jobs, isDraft, schedule>>
    <3>1. CASE UNCHANGED <<row, jobs>>
      BY <3>1
    <3>2. CASE \E e \in tickRow[p] : ClaimThrows(e)
      <4>1. PICK e \in tickRow[p] : ClaimThrows(e)
        BY <3>2
      <4>2. e \in Emails
        OBVIOUS
      <4> QED
        BY <4>1, <4>2, ThrowFacts
    <3> QED
      BY <1>33, <3>1, <3>2 DEF TickThrows
  <2> QED
    BY <1>33, <2>1, LoseType DEF TickThrows
<1> QED
  BY <1>1, <1>2, <1>3, <1>4, <1>5, <1>6, <1>7, <1>8, <1>9, <1>10, <1>11, <1>12, <1>13, <1>14, <1>15, <1>16, <1>17, <1>18, <1>19, <1>20, <1>21, <1>22, <1>23, <1>24, <1>25, <1>26, <1>27, <1>28, <1>29, <1>30,
     <1>31, <1>32, <1>33 DEF Next, ComposeStart, ComposeStep, TickStep, JobStep

-----------------------------------------------------------------------------
(* The lock *)

\* What a moved job and a new job look like.
LEMMA MoveFacts ==
  ASSUME TypeOK, NEW j \in jobs, NEW stage \in Stages, MoveJob(j, stage)
  PROVE  \E m : /\ jobs' = (jobs \ {j}) \cup {m}
                /\ m.email = j.email /\ m.stage = stage /\ m.seen = j.seen
<1> DEFINE m == [j EXCEPT !.stage = stage]
<1>1. m.email = j.email /\ m.stage = stage /\ m.seen = j.seen
  BY DEF TypeOK, JobRecord
<1> QED
  BY <1>1 DEF MoveJob

\* What the first SELECT of sendEmail leaves of its job: nothing, or a job that
\* knows the row's attempt count.
LEMMA ReadFacts ==
  ASSUME TypeOK, NEW j \in jobs, JobRead(j)
  PROVE  /\ j.stage = "claimed"
         /\ \/ jobs' = jobs \ {j}
            \/ \E m : /\ jobs' = (jobs \ {j}) \cup {m}
                      /\ m.email = j.email /\ m.stage = "calling" /\ m.seen = attempts[j.email]
<1> DEFINE m == [j EXCEPT !.stage = "calling", !.seen = attempts[j.email]]
<1>1. m.email = j.email /\ m.stage = "calling" /\ m.seen = attempts[j.email]
  BY DEF TypeOK, JobRecord
<1> QED
  BY <1>1 DEF JobRead

\* A claim adds exactly one job, for the claimed row, at its first stage.
LEMMA ClaimFacts ==
  ASSUME TypeOK, NEW e \in Emails, NEW p \in Procs, Claim(e, p)
  PROVE  \E m : /\ jobs' = jobs \cup {m}
                /\ m.email = e /\ m.stage = "claimed"
<1> DEFINE m == [email |-> e, n |-> attempts[e] + 1, proc |-> p, stage |-> "claimed", seen |-> 0]
<1>1. m.email = e /\ m.stage = "claimed"
  OBVIOUS
<1> QED
  BY <1>1 DEF Claim

\* Winning the conditional UPDATE starts the only sender of the row.
LEMMA ClaimLock ==
  ASSUME TypeOK, SendLock, NEW e \in Emails, NEW p \in Procs, Claimable(e), Claim(e, p)
  PROVE  SendLock'
<1>1. PICK m : jobs' = jobs \cup {m} /\ m.email = e /\ m.stage = "claimed"
  BY ClaimFacts
<1>2. \A k \in jobs : Working(k) => k.email # e
  BY DEF Claimable, SendLock
<1>3. \A k \in jobs' : Working(k) => k = m \/ (k \in jobs /\ k.email # e)
  BY <1>1, <1>2
<1>4. status'[e] = "sending" /\ \A f \in Emails : f # e => status'[f] = status[f]
  BY DEF Claim, MarkSending, TypeOK
<1>5. \A k \in jobs : k.email \in Emails
  BY DEF TypeOK, JobRecord
<1> QED
  BY <1>1, <1>3, <1>4, <1>5 DEF SendLock, Working

\* A job that moves on without touching the row is still its only sender.
LEMMA MoveLock ==
  ASSUME TypeOK, SendLock, NEW j \in jobs, NEW stage \in Stages, Working(j),
         MoveJob(j, stage), UNCHANGED status
  PROVE  SendLock'
<1>1. PICK m : jobs' = (jobs \ {j}) \cup {m} /\ m.email = j.email
  BY MoveFacts
<1> QED
  BY <1>1 DEF SendLock, Working

\* Writing the outcome of j's row is safe: j is the only sender there.
LEMMA OutcomeLock ==
  ASSUME TypeOK, SendLock, NEW j \in jobs, Working(j), NEW s,
         status' = [status EXCEPT ![j.email] = s],
         \A k \in jobs' : Working(k) => k \in jobs /\ k # j
  PROVE  SendLock'
<1>1. \A k \in jobs : k.email \in Emails
  BY DEF TypeOK, JobRecord
<1>2. \A k \in jobs' : Working(k) => k.email # j.email
  BY DEF SendLock
<1>3. \A k \in jobs' : Working(k) => status'[k.email] = status[k.email]
  BY <1>1, <1>2 DEF TypeOK
<1> QED
  BY <1>3 DEF SendLock, Working

\* A row compose still owns has no sender.
LEMMA RowLock ==
  ASSUME TypeOK, SendLock, NEW e \in Emails, status[e] \in {"none", "idle"}, UNCHANGED jobs,
         \A f \in Emails : f # e => status'[f] = status[f]
  PROVE  SendLock'
<1>1. \A k \in jobs : k.email \in Emails
  BY DEF TypeOK, JobRecord
<1>2. \A k \in jobs : Working(k) => k.email # e
  BY DEF SendLock
<1> QED
  BY <1>1, <1>2 DEF SendLock, Working

\* A claim that throws frees no row and starts no second sender.
LEMMA ThrowLock ==
  ASSUME TypeOK, SendLock, NEW e \in Emails, ClaimThrows(e)
  PROVE  SendLock'
<1>1. \A k \in jobs : k.email \in Emails
  BY DEF TypeOK, JobRecord
<1>2. UNCHANGED jobs /\ \A f \in Emails : f # e => status'[f] = status[f]
  BY ThrowFacts
<1>3. CASE UNCHANGED row
  BY <1>2, <1>3 DEF SendLock, row
<1>4. CASE status'[e] = "sending"
  BY <1>1, <1>2, <1>4 DEF SendLock
<1> QED BY <1>3, <1>4, ThrowFacts

\* Every step keeps the lock: one sender per row, and only while the row says so.
LEMMA LockStep ==
  ASSUME TypeOK, ComposeOwnsRow, SendLock, [Next]_vars
  PROVE  SendLock'
<1>1. ASSUME NEW e \in Emails, ComposeDraft(e) PROVE SendLock'
  <2>1. status[e] \in {"none", "idle"} /\ UNCHANGED jobs
    BY <1>1 DEF ComposeDraft, ComposeOwnsRow
  <2>2. \A f \in Emails : f # e => status'[f] = status[f]
    BY <1>1 DEF ComposeDraft, NewRow, TypeOK
  <2> QED
    BY <2>1, <2>2, RowLock
<1>2. ASSUME NEW e \in Emails, ComposeScheduled(e) PROVE SendLock'
  <2>1. status[e] \in {"none", "idle"} /\ UNCHANGED jobs
    BY <1>2 DEF ComposeScheduled, ComposeOwnsRow
  <2>2. \A f \in Emails : f # e => status'[f] = status[f]
    BY <1>2 DEF ComposeScheduled, NewRow, TypeOK
  <2> QED
    BY <2>1, <2>2, RowLock
<1>3. ASSUME NEW e \in Emails, ComposeReserve(e) PROVE SendLock'
  BY <1>3 DEF ComposeReserve, row, tick, SendLock, Working
<1>4. ASSUME NEW e \in Emails, ComposeMarkScheduled(e) PROVE SendLock'
  <2>1. status[e] \in {"none", "idle"} /\ UNCHANGED jobs
    BY <1>4 DEF ComposeMarkScheduled, ComposeOwnsRow
  <2>2. \A f \in Emails : f # e => status'[f] = status[f]
    BY <1>4 DEF ComposeMarkScheduled, NewRow, TypeOK
  <2> QED
    BY <2>1, <2>2, RowLock
<1>5. ASSUME NEW e \in Emails, ComposeInsert(e) PROVE SendLock'
  <2>1. status[e] \in {"none", "idle"} /\ UNCHANGED jobs
    BY <1>5 DEF ComposeInsert, ComposeOwnsRow
  <2>2. \A f \in Emails : f # e => status'[f] = status[f]
    BY <1>5 DEF ComposeInsert, NewRow, TypeOK
  <2> QED
    BY <2>1, <2>2, RowLock
<1>6. ASSUME NEW e \in Emails, ComposeThrows(e) PROVE SendLock'
  BY <1>6 DEF ComposeThrows, row, tick, SendLock, Working
<1>7. ASSUME NEW e \in Emails, ComposeMarkLimited(e) PROVE SendLock'
  <2>1. status[e] \in {"none", "idle"} /\ UNCHANGED jobs
    BY <1>7 DEF ComposeMarkLimited, ComposeOwnsRow
  <2>2. \A f \in Emails : f # e => status'[f] = status[f]
    BY <1>7 DEF ComposeMarkLimited, NewRow, TypeOK
  <2> QED
    BY <2>1, <2>2, RowLock
<1>8. ASSUME NEW e \in Emails, ComposeClaim(e) PROVE SendLock'
  <2> compose[e].proc \in Procs BY DEF TypeOK
  <2>1. CASE Claimable(e)
    BY <1>8, <2>1, ClaimLock DEF ComposeClaim, ClaimOrLose
  <2>2. CASE ~Claimable(e)
    BY <1>8, <2>2 DEF ComposeClaim, ClaimOrLose, SendLock, row
  <2> QED BY <2>1, <2>2
<1>9. ASSUME NEW e \in Emails, Purge(e) PROVE SendLock'
  <2>1. UNCHANGED jobs /\ status' = [status EXCEPT ![e] = "purged"]
    BY <1>9 DEF Purge
  <2> QED
    BY <2>1 DEF SendLock, Working, TypeOK
<1>10. ASSUME NEW e \in Emails, Ages(e) PROVE SendLock'
  BY <1>10 DEF Ages, row, tick, SendLock, Working
<1>11. ASSUME NEW e \in Emails, ScheduleElapses(e) PROVE SendLock'
  BY <1>11 DEF ScheduleElapses, row, tick, SendLock, Working
<1>12. ASSUME NEW r \in Requests, NEW e \in Emails, NEW p \in Procs, DispatchReserve(r, e, p) PROVE SendLock'
  BY <1>12 DEF DispatchReserve, row, tick, SendLock, Working
<1>13. ASSUME NEW d \in dispatch, DispatchClaim(d) PROVE SendLock'
  <2> d.email \in Emails /\ d.proc \in Procs BY DEF TypeOK
  <2>1. CASE Claimable(d.email)
    BY <1>13, <2>1, ClaimLock DEF DispatchClaim, ClaimOrLose
  <2>2. CASE ~Claimable(d.email)
    BY <1>13, <2>2 DEF DispatchClaim, ClaimOrLose, SendLock, row
  <2> QED BY <2>1, <2>2
<1>14. ASSUME NEW p \in Procs, TickSelectRetries(p) PROVE SendLock'
  BY <1>14 DEF TickSelectRetries, row, tick, SendLock, Working
<1>15. ASSUME NEW p \in Procs, TickSelectScheduled(p) PROVE SendLock'
  BY <1>15 DEF TickSelectScheduled, row, tick, SendLock, Working
<1>16. ASSUME NEW p \in Procs, TickReserve(p) PROVE SendLock'
  BY <1>16 DEF TickReserve, row, tick, SendLock, Working
<1>17. ASSUME NEW p \in Procs, TickClaim(p) PROVE SendLock'
  <2>1. PICK e \in tickRow[p] :
          \/ Claimable(e) /\ Claim(e, p)
          \/ ~Claimable(e) /\ UNCHANGED <<row, jobs>>
    BY <1>17 DEF TickClaim
  <2>2. e \in Emails
    BY DEF TypeOK
  <2> QED
    BY <2>1, <2>2, ClaimLock DEF SendLock, row, Working
<1>18. ASSUME NEW p \in Procs, TickRefund(p) PROVE SendLock'
  BY <1>18 DEF TickRefund, row, tick, SendLock, Working
<1>19. ASSUME NEW p \in Procs, TickEnd(p) PROVE SendLock'
  BY <1>19 DEF TickEnd, row, tick, SendLock, Working
<1>20. ASSUME NEW p \in Procs, Crash(p) PROVE SendLock'
  BY <1>20 DEF Crash, row, tick, SendLock, Working
<1>21. ASSUME NEW j \in jobs, JobRead(j) PROVE SendLock'
  <2>1. PICK m : jobs' \subseteq (jobs \ {j}) \cup {m} /\ m.email = j.email
    BY <1>21, ReadFacts
  <2>2. Working(j)
    BY <1>21 DEF JobRead, Working
  <2> QED
    BY <1>21, <2>1, <2>2 DEF JobRead, row, SendLock, Working
<1>22. ASSUME NEW j \in jobs, EngineTakes(j) PROVE SendLock'
  BY <1>22, MoveLock DEF EngineTakes, SendLock, Working, Stages, row
<1>23. ASSUME NEW j \in jobs, EngineConfirms(j) PROVE SendLock'
  BY <1>23, MoveLock DEF EngineConfirms, SendLock, Working, Stages, row
<1>24. ASSUME NEW j \in jobs, NEW kind \in {"hard", "soft"}, EngineFails(j, kind) PROVE SendLock'
  BY <1>24, MoveLock DEF EngineFails, SendLock, Working, Stages, row
<1>25. ASSUME NEW j \in jobs, JobSucceeds(j) PROVE SendLock'
  <2>1. CASE Exists(j.email)
    BY <1>25, <2>1, OutcomeLock DEF JobSucceeds, Working
  <2>2. CASE ~Exists(j.email)
    BY <1>25, <2>2 DEF JobSucceeds, SendLock, Working
  <2> QED BY <2>1, <2>2
<1>26. ASSUME NEW j \in jobs, JobFails(j) PROVE SendLock'
  <2>1. \A k \in jobs' : Working(k) => k \in jobs /\ k # j
    <3>1. CASE jobs' = jobs \ {j}
      BY <3>1
    <3>2. CASE MoveJob(j, "refund")
      <4>1. PICK m : jobs' = (jobs \ {j}) \cup {m} /\ m.stage = "refund"
        BY <3>2, MoveFacts DEF Stages
      <4> QED
        BY <4>1 DEF Working
    <3> QED BY <1>26, <3>1, <3>2 DEF JobFails, FailureEnds
  <2>2. Working(j)
    BY <1>26 DEF JobFails, Working
  <2>3. CASE Exists(j.email)
    BY <1>26, <2>1, <2>2, <2>3, OutcomeLock DEF JobFails
  <2>4. CASE ~Exists(j.email)
    BY <1>26, <2>1, <2>4 DEF JobFails, SendLock
  <2> QED BY <2>3, <2>4
<1>27. ASSUME NEW j \in jobs, JobRefunds(j) PROVE SendLock'
  BY <1>27 DEF JobRefunds, row, tick, SendLock, Working
<1>28. ASSUME NEW j \in jobs, JobThrows(j) PROVE SendLock'
  BY <1>28, MoveLock DEF JobThrows, SendLock, Working, Stages, row
<1>29. ASSUME WindowRolls PROVE SendLock'
  BY <1>29 DEF WindowRolls, row, tick, SendLock, Working
<1>30. ASSUME UNCHANGED vars PROVE SendLock'
  BY <1>30 DEF vars, row, SendLock, Working
<1>31. ASSUME NEW e \in Emails, ComposeClaimThrows(e) PROVE SendLock'
  BY <1>31, ThrowLock DEF ComposeClaimThrows
<1>32. ASSUME NEW d \in dispatch, DispatchClaimThrows(d) PROVE SendLock'
  <2>1. d.email \in Emails
    BY DEF TypeOK
  <2> QED
    BY <1>32, <2>1, ThrowLock DEF DispatchClaimThrows
<1>33. ASSUME NEW p \in Procs, TickThrows(p) PROVE SendLock'
  <2>1. CASE UNCHANGED <<row, jobs>>
    BY <1>33, <2>1 DEF SendLock, Working, row
  <2>2. CASE \E e \in tickRow[p] : ClaimThrows(e)
    <3>1. PICK e \in tickRow[p] : ClaimThrows(e)
      BY <2>2
    <3>2. e \in Emails
      BY DEF TypeOK
    <3> QED
      BY <1>33, <3>1, <3>2, ThrowLock DEF TickThrows
  <2> QED
    BY <1>33, <2>1, <2>2 DEF TickThrows
<1> QED
  BY <1>1, <1>2, <1>3, <1>4, <1>5, <1>6, <1>7, <1>8, <1>9, <1>10, <1>11, <1>12, <1>13, <1>14, <1>15, <1>16, <1>17, <1>18, <1>19, <1>20, <1>21, <1>22, <1>23, <1>24, <1>25, <1>26, <1>27, <1>28, <1>29, <1>30,
     <1>31, <1>32, <1>33 DEF Next, ComposeStart, ComposeStep, TickStep, JobStep

-----------------------------------------------------------------------------
(* The rows compose requests own *)

\* A step that leaves compose alone and touches only a row whose compose request
\* is done keeps ComposeOwnsRow.
LEMMA DoneRow ==
  ASSUME TypeOK, ComposeOwnsRow, UNCHANGED compose, NEW e \in Emails, compose[e].pc = "done",
         \A f \in Emails : f # e => /\ status'[f] = status[f]
                                    /\ attempts'[f] = attempts[f]
                                    /\ isDraft'[f] = isDraft[f]
  PROVE  ComposeOwnsRow'
  BY DEF ComposeOwnsRow

\* The same for a step of the compose request of e.
LEMMA ComposeRow ==
  ASSUME TypeOK, ComposeOwnsRow, NEW e \in Emails, NEW pc \in ComposePcs, At(e, pc),
         \A f \in Emails : f # e => /\ status'[f] = status[f]
                                    /\ attempts'[f] = attempts[f]
                                    /\ isDraft'[f] = isDraft[f],
         pc \in {"new", "allowed", "blocked"} => status'[e] = "none",
         pc \in {"scheduling", "claiming", "limiting"} => status'[e] = "idle",
         pc # "done" => isDraft'[e] /\ attempts'[e] = 0
  PROVE  ComposeOwnsRow'
<1>1. compose'[e].pc = pc /\ \A f \in Emails : f # e => compose'[f] = compose[f]
  BY DEF At, TypeOK
<1> QED
  BY <1>1 DEF ComposeOwnsRow

\* A claim changes no row but its own.
LEMMA ClaimRow ==
  ASSUME TypeOK, NEW e \in Emails, NEW p \in Procs, Claim(e, p)
  PROVE  \A f \in Emails : f # e => /\ status'[f] = status[f]
                                    /\ attempts'[f] = attempts[f]
                                    /\ isDraft'[f] = isDraft[f]
  BY DEF TypeOK, Claim, MarkSending

\* Every step keeps what a compose request knows of the row it is creating.
LEMMA ComposeStepHolds ==
  ASSUME ~EarlyAccess, TypeOK, ComposeOwnsRow, OthersWait, [Next]_vars
  PROVE  ComposeOwnsRow'
<1>1. ASSUME NEW e \in Emails, ComposeDraft(e) PROVE ComposeOwnsRow'
  <2>1. At(e, "done")
    BY <1>1 DEF ComposeDraft
  <2>2. \A f \in Emails : f # e => /\ status'[f] = status[f]
                                    /\ attempts'[f] = attempts[f]
                                    /\ isDraft'[f] = isDraft[f]
    BY <1>1 DEF ComposeDraft, NewRow, TypeOK, row
  <2> QED
    BY <2>1, <2>2, ComposeRow DEF ComposePcs
<1>2. ASSUME NEW e \in Emails, ComposeScheduled(e) PROVE ComposeOwnsRow'
  <2>1. At(e, "scheduling")
    BY <1>2 DEF ComposeScheduled
  <2>2. \A f \in Emails : f # e => /\ status'[f] = status[f]
                                    /\ attempts'[f] = attempts[f]
                                    /\ isDraft'[f] = isDraft[f]
    BY <1>2 DEF ComposeScheduled, NewRow, TypeOK, row
  <2>3. status'[e] = "idle" /\ attempts'[e] = 0 /\ isDraft'[e]
    BY <1>2 DEF ComposeScheduled, NewRow, TypeOK, ComposeOwnsRow
  <2> QED
    BY <2>1, <2>2, <2>3, ComposeRow DEF ComposePcs
<1>3. ASSUME NEW e \in Emails, ComposeReserve(e) PROVE ComposeOwnsRow'
  <2>1. PICK pc \in {"allowed", "blocked"} : At(e, pc)
    BY <1>3 DEF ComposeReserve
  <2>2. status[e] = "none" /\ isDraft[e] /\ attempts[e] = 0
    BY <1>3 DEF ComposeReserve, ComposeOwnsRow
  <2>3. UNCHANGED row
    BY <1>3 DEF ComposeReserve
  <2> QED
    BY <2>1, <2>2, <2>3, ComposeRow DEF ComposePcs, row
<1>4. ASSUME NEW e \in Emails, ComposeMarkScheduled(e) PROVE ComposeOwnsRow'
  <2>1. At(e, "done")
    BY <1>4 DEF ComposeMarkScheduled
  <2>2. \A f \in Emails : f # e => /\ status'[f] = status[f]
                                    /\ attempts'[f] = attempts[f]
                                    /\ isDraft'[f] = isDraft[f]
    BY <1>4 DEF ComposeMarkScheduled, NewRow, TypeOK, row
  <2> QED
    BY <2>1, <2>2, ComposeRow DEF ComposePcs
<1>5. ASSUME NEW e \in Emails, ComposeInsert(e) PROVE ComposeOwnsRow'
  <2>1. PICK pc \in {"claiming", "limiting"} : At(e, pc)
    BY <1>5 DEF ComposeInsert
  <2>2. \A f \in Emails : f # e => /\ status'[f] = status[f]
                                    /\ attempts'[f] = attempts[f]
                                    /\ isDraft'[f] = isDraft[f]
    BY <1>5 DEF ComposeInsert, NewRow, TypeOK
  <2>3. status'[e] = "idle" /\ attempts'[e] = 0 /\ isDraft'[e]
    BY <1>5 DEF ComposeInsert, NewRow, TypeOK, ComposeOwnsRow
  <2> QED
    BY <2>1, <2>2, <2>3, ComposeRow DEF ComposePcs
<1>6. ASSUME NEW e \in Emails, ComposeThrows(e) PROVE ComposeOwnsRow'
  <2>1. At(e, "done")
    BY <1>6 DEF ComposeThrows
  <2>2. \A f \in Emails : f # e => /\ status'[f] = status[f]
                                    /\ attempts'[f] = attempts[f]
                                    /\ isDraft'[f] = isDraft[f]
    BY <1>6 DEF ComposeThrows, NewRow, TypeOK, row
  <2> QED
    BY <2>1, <2>2, ComposeRow DEF ComposePcs
<1>7. ASSUME NEW e \in Emails, ComposeMarkLimited(e) PROVE ComposeOwnsRow'
  <2>1. At(e, "done")
    BY <1>7 DEF ComposeMarkLimited
  <2>2. \A f \in Emails : f # e => /\ status'[f] = status[f]
                                    /\ attempts'[f] = attempts[f]
                                    /\ isDraft'[f] = isDraft[f]
    BY <1>7 DEF ComposeMarkLimited, NewRow, TypeOK, row
  <2> QED
    BY <2>1, <2>2, ComposeRow DEF ComposePcs
<1>8. ASSUME NEW e \in Emails, ComposeClaim(e) PROVE ComposeOwnsRow'
  <2>1. At(e, "done") /\ compose[e].proc \in Procs
    BY <1>8 DEF ComposeClaim, ClaimOrLose, TypeOK
  <2>2. \A f \in Emails : f # e => /\ status'[f] = status[f]
                                    /\ attempts'[f] = attempts[f]
                                    /\ isDraft'[f] = isDraft[f]
    BY <1>8, <2>1, ClaimRow DEF ComposeClaim, ClaimOrLose, row
  <2> QED
    BY <2>1, <2>2, ComposeRow DEF ComposePcs
<1>9. ASSUME NEW e \in Emails, Purge(e) PROVE ComposeOwnsRow'
  <2>1. compose[e].pc = "done" /\ UNCHANGED compose
    BY <1>9 DEF Purge, Reachable
  <2>2. \A f \in Emails : f # e => /\ status'[f] = status[f]
                                    /\ attempts'[f] = attempts[f]
                                    /\ isDraft'[f] = isDraft[f]
    BY <1>9 DEF Purge, TypeOK
  <2> QED
    BY <2>1, <2>2, DoneRow
<1>10. ASSUME NEW e \in Emails, Ages(e) PROVE ComposeOwnsRow'
  BY <1>10 DEF Ages, row, tick, ComposeOwnsRow
<1>11. ASSUME NEW e \in Emails, ScheduleElapses(e) PROVE ComposeOwnsRow'
  BY <1>11 DEF ScheduleElapses, row, tick, ComposeOwnsRow
<1>12. ASSUME NEW r \in Requests, NEW e \in Emails, NEW p \in Procs, DispatchReserve(r, e, p) PROVE ComposeOwnsRow'
  BY <1>12 DEF DispatchReserve, row, tick, ComposeOwnsRow
<1>13. ASSUME NEW d \in dispatch, DispatchClaim(d) PROVE ComposeOwnsRow'
  <2> d.email \in Emails /\ d.proc \in Procs /\ compose[d.email].pc = "done"
    BY DEF TypeOK, OthersWait
  <2>1. CASE Claimable(d.email)
    BY <1>13, <2>1, ClaimRow, DoneRow DEF DispatchClaim, ClaimOrLose
  <2>2. CASE ~Claimable(d.email)
    BY <1>13, <2>2 DEF DispatchClaim, ClaimOrLose, ComposeOwnsRow, row
  <2> QED BY <2>1, <2>2
<1>14. ASSUME NEW p \in Procs, TickSelectRetries(p) PROVE ComposeOwnsRow'
  BY <1>14 DEF TickSelectRetries, row, tick, ComposeOwnsRow
<1>15. ASSUME NEW p \in Procs, TickSelectScheduled(p) PROVE ComposeOwnsRow'
  BY <1>15 DEF TickSelectScheduled, row, tick, ComposeOwnsRow
<1>16. ASSUME NEW p \in Procs, TickReserve(p) PROVE ComposeOwnsRow'
  BY <1>16 DEF TickReserve, row, tick, ComposeOwnsRow
<1>17. ASSUME NEW p \in Procs, TickClaim(p) PROVE ComposeOwnsRow'
  <2>1. PICK e \in tickRow[p] :
          \/ Claimable(e) /\ Claim(e, p)
          \/ ~Claimable(e) /\ UNCHANGED <<row, jobs>>
    BY <1>17 DEF TickClaim
  <2>2. e \in Emails /\ compose[e].pc = "done" /\ UNCHANGED compose
    BY <1>17 DEF TypeOK, OthersWait, TickClaim
  <2>3. CASE Claim(e, p)
    BY <2>2, <2>3, ClaimRow, DoneRow
  <2> QED
    BY <2>1, <2>2, <2>3 DEF ComposeOwnsRow, row
<1>18. ASSUME NEW p \in Procs, TickRefund(p) PROVE ComposeOwnsRow'
  BY <1>18 DEF TickRefund, row, tick, ComposeOwnsRow
<1>19. ASSUME NEW p \in Procs, TickEnd(p) PROVE ComposeOwnsRow'
  BY <1>19 DEF TickEnd, row, tick, ComposeOwnsRow
<1>20. ASSUME NEW p \in Procs, Crash(p) PROVE ComposeOwnsRow'
  <2>1. \A f \in Emails : compose'[f].pc = "done" \/ compose'[f] = compose[f]
    BY <1>20 DEF Crash, TypeOK
  <2> QED
    BY <1>20, <2>1 DEF Crash, row, ComposeOwnsRow
<1>21. ASSUME NEW j \in jobs, JobRead(j) PROVE ComposeOwnsRow'
  BY <1>21 DEF JobRead, row, tick, ComposeOwnsRow
<1>22. ASSUME NEW j \in jobs, EngineTakes(j) PROVE ComposeOwnsRow'
  BY <1>22 DEF EngineTakes, row, tick, ComposeOwnsRow
<1>23. ASSUME NEW j \in jobs, EngineConfirms(j) PROVE ComposeOwnsRow'
  BY <1>23 DEF EngineConfirms, row, tick, ComposeOwnsRow
<1>24. ASSUME NEW j \in jobs, NEW kind \in {"hard", "soft"}, EngineFails(j, kind) PROVE ComposeOwnsRow'
  BY <1>24 DEF EngineFails, row, tick, ComposeOwnsRow
<1>25. ASSUME NEW j \in jobs, JobSucceeds(j) PROVE ComposeOwnsRow'
  <2>1. j.email \in Emails /\ compose[j.email].pc = "done"
    BY DEF OthersWait, TypeOK, JobRecord
  <2>2. UNCHANGED compose /\ \A f \in Emails : f # j.email => /\ status'[f] = status[f]
                                    /\ attempts'[f] = attempts[f]
                                    /\ isDraft'[f] = isDraft[f]
    BY <1>25, <2>1 DEF JobSucceeds, TypeOK
  <2> QED
    BY <2>1, <2>2, DoneRow
<1>26. ASSUME NEW j \in jobs, JobFails(j) PROVE ComposeOwnsRow'
  <2>1. j.email \in Emails /\ compose[j.email].pc = "done"
    BY DEF OthersWait, TypeOK, JobRecord
  <2>2. UNCHANGED compose /\ \A f \in Emails : f # j.email => /\ status'[f] = status[f]
                                    /\ attempts'[f] = attempts[f]
                                    /\ isDraft'[f] = isDraft[f]
    BY <1>26, <2>1 DEF JobFails, TypeOK
  <2> QED
    BY <2>1, <2>2, DoneRow
<1>27. ASSUME NEW j \in jobs, JobRefunds(j) PROVE ComposeOwnsRow'
  BY <1>27 DEF JobRefunds, row, tick, ComposeOwnsRow
<1>28. ASSUME NEW j \in jobs, JobThrows(j) PROVE ComposeOwnsRow'
  BY <1>28 DEF JobThrows, row, tick, ComposeOwnsRow
<1>29. ASSUME WindowRolls PROVE ComposeOwnsRow'
  BY <1>29 DEF WindowRolls, row, tick, ComposeOwnsRow
<1>30. ASSUME UNCHANGED vars PROVE ComposeOwnsRow'
  BY <1>30 DEF vars, row, ComposeOwnsRow
<1>31. ASSUME NEW e \in Emails, ComposeClaimThrows(e) PROVE ComposeOwnsRow'
  <2>1. At(e, "done")
    BY <1>31 DEF ComposeClaimThrows
  <2>2. \A f \in Emails : f # e => /\ status'[f] = status[f]
                                    /\ attempts'[f] = attempts[f]
                                    /\ isDraft'[f] = isDraft[f]
    BY <1>31, ThrowFacts DEF ComposeClaimThrows
  <2> QED
    BY <2>1, <2>2, ComposeRow DEF ComposePcs
<1>32. ASSUME NEW d \in dispatch, DispatchClaimThrows(d) PROVE ComposeOwnsRow'
  <2>1. d.email \in Emails /\ compose[d.email].pc = "done"
    BY DEF TypeOK, OthersWait
  <2> QED
    BY <1>32, <2>1, ThrowFacts, DoneRow DEF DispatchClaimThrows
<1>33. ASSUME NEW p \in Procs, TickThrows(p) PROVE ComposeOwnsRow'
  <2>1. CASE UNCHANGED <<row, jobs>>
    BY <1>33, <2>1 DEF TickThrows, ComposeOwnsRow, row
  <2>2. CASE \E e \in tickRow[p] : ClaimThrows(e)
    <3>1. PICK e \in tickRow[p] : ClaimThrows(e)
      BY <2>2
    <3>2. e \in Emails /\ compose[e].pc = "done" /\ UNCHANGED compose
      BY <1>33 DEF TypeOK, OthersWait, TickThrows
    <3> QED
      BY <3>1, <3>2, ThrowFacts, DoneRow
  <2> QED
    BY <1>33, <2>1, <2>2 DEF TickThrows
<1> QED
  BY <1>1, <1>2, <1>3, <1>4, <1>5, <1>6, <1>7, <1>8, <1>9, <1>10, <1>11, <1>12, <1>13, <1>14, <1>15, <1>16, <1>17, <1>18, <1>19, <1>20, <1>21, <1>22, <1>23, <1>24, <1>25, <1>26, <1>27, <1>28, <1>29, <1>30,
     <1>31, <1>32, <1>33 DEF Next, ComposeStart, ComposeStep, TickStep, JobStep

-----------------------------------------------------------------------------
(* Who may work on a row *)

\* Work that only shrinks, for rows that stay done, keeps OthersWait.
LEMMA WorkShrinks ==
  ASSUME TypeOK, OthersWait,
         \A e \in Emails : compose[e].pc = "done" => compose'[e].pc = "done",
         \A p \in Procs : retryList'[p] \cup schedList'[p] \cup tickRow'[p]
                            \subseteq retryList[p] \cup schedList[p] \cup tickRow[p],
         dispatch' \subseteq dispatch,
         \A j \in jobs' : \E k \in jobs : k.email = j.email
  PROVE  OthersWait'
<1>1. /\ \A p \in Procs : retryList[p] \cup schedList[p] \cup tickRow[p] \subseteq Emails
      /\ \A d \in dispatch : d.email \in Emails
      /\ \A k \in jobs : k.email \in Emails
  BY DEF TypeOK, JobRecord
<1> QED
  BY <1>1 DEF OthersWait

\* The same when a job for a row that is done joins.
LEMMA JobJoins ==
  ASSUME TypeOK, OthersWait, NEW e \in Emails, NEW p \in Procs, Claim(e, p),
         \A f \in Emails : compose[f].pc = "done" => compose'[f].pc = "done",
         compose'[e].pc = "done",
         \A q \in Procs : retryList'[q] \cup schedList'[q] \cup tickRow'[q]
                            \subseteq retryList[q] \cup schedList[q] \cup tickRow[q],
         dispatch' \subseteq dispatch
  PROVE  OthersWait'
<1>1. PICK m : jobs' = jobs \cup {m} /\ m.email = e
  BY ClaimFacts
<1>2. /\ \A q \in Procs : retryList[q] \cup schedList[q] \cup tickRow[q] \subseteq Emails
      /\ \A d \in dispatch : d.email \in Emails
      /\ \A k \in jobs : k.email \in Emails
  BY DEF TypeOK, JobRecord
<1> QED
  BY <1>1, <1>2 DEF OthersWait

\* A compose request only ever moves forward.
LEMMA AtDone ==
  ASSUME TypeOK, NEW e \in Emails, NEW pc, At(e, pc), compose[e].pc # "done"
  PROVE  /\ \A f \in Emails : compose[f].pc = "done" => compose'[f].pc = "done"
         /\ compose'[e].pc = pc
  BY DEF At, TypeOK

\* Every step keeps the other actors away from a row until its compose request is done.
LEMMA OthersStep ==
  ASSUME ~EarlyAccess, TypeOK, ComposeOwnsRow, OthersWait, [Next]_vars
  PROVE  OthersWait'
<1>1. ASSUME NEW e \in Emails, ComposeDraft(e) PROVE OthersWait'
  <2>1. PICK pc : At(e, pc)
    BY <1>1 DEF ComposeDraft
  <2>2. compose[e].pc # "done" /\ UNCHANGED <<dispatch, tick, jobs>>
    BY <1>1 DEF ComposeDraft
  <2> QED
    BY <2>1, <2>2, AtDone, WorkShrinks DEF tick
<1>2. ASSUME NEW e \in Emails, ComposeScheduled(e) PROVE OthersWait'
  <2>1. PICK pc : At(e, pc)
    BY <1>2 DEF ComposeScheduled
  <2>2. compose[e].pc # "done" /\ UNCHANGED <<dispatch, tick, jobs>>
    BY <1>2 DEF ComposeScheduled
  <2> QED
    BY <2>1, <2>2, AtDone, WorkShrinks DEF tick
<1>3. ASSUME NEW e \in Emails, ComposeReserve(e) PROVE OthersWait'
  <2>1. PICK pc : At(e, pc)
    BY <1>3 DEF ComposeReserve
  <2>2. compose[e].pc # "done" /\ UNCHANGED <<dispatch, tick, jobs>>
    BY <1>3 DEF ComposeReserve
  <2> QED
    BY <2>1, <2>2, AtDone, WorkShrinks DEF tick
<1>4. ASSUME NEW e \in Emails, ComposeMarkScheduled(e) PROVE OthersWait'
  <2>1. PICK pc : At(e, pc)
    BY <1>4 DEF ComposeMarkScheduled
  <2>2. compose[e].pc # "done" /\ UNCHANGED <<dispatch, tick, jobs>>
    BY <1>4 DEF ComposeMarkScheduled
  <2> QED
    BY <2>1, <2>2, AtDone, WorkShrinks DEF tick
<1>5. ASSUME NEW e \in Emails, ComposeInsert(e) PROVE OthersWait'
  <2>1. PICK pc : At(e, pc)
    BY <1>5 DEF ComposeInsert
  <2>2. compose[e].pc # "done" /\ UNCHANGED <<dispatch, tick, jobs>>
    BY <1>5 DEF ComposeInsert
  <2> QED
    BY <2>1, <2>2, AtDone, WorkShrinks DEF tick
<1>6. ASSUME NEW e \in Emails, ComposeThrows(e) PROVE OthersWait'
  <2>1. PICK pc : At(e, pc)
    BY <1>6 DEF ComposeThrows
  <2>2. compose[e].pc # "done" /\ UNCHANGED <<dispatch, tick, jobs>>
    BY <1>6 DEF ComposeThrows
  <2> QED
    BY <2>1, <2>2, AtDone, WorkShrinks DEF tick
<1>7. ASSUME NEW e \in Emails, ComposeMarkLimited(e) PROVE OthersWait'
  <2>1. PICK pc : At(e, pc)
    BY <1>7 DEF ComposeMarkLimited
  <2>2. compose[e].pc # "done" /\ UNCHANGED <<dispatch, tick, jobs>>
    BY <1>7 DEF ComposeMarkLimited
  <2> QED
    BY <2>1, <2>2, AtDone, WorkShrinks DEF tick
<1>8. ASSUME NEW e \in Emails, ComposeClaim(e) PROVE OthersWait'
  <2>1. At(e, "done") /\ compose[e].pc # "done" /\ UNCHANGED <<dispatch, tick>>
    BY <1>8 DEF ComposeClaim, ClaimOrLose
  <2>2. compose[e].proc \in Procs
    BY DEF TypeOK
  <2>3. CASE Claim(e, compose[e].proc)
    BY <2>1, <2>2, <2>3, AtDone, JobJoins DEF tick
  <2>4. CASE UNCHANGED jobs
    BY <2>1, <2>4, AtDone, WorkShrinks DEF tick
  <2> QED
    BY <1>8, <2>3, <2>4 DEF ComposeClaim, ClaimOrLose
<1>9. ASSUME NEW e \in Emails, Purge(e) PROVE OthersWait'
  BY <1>9 DEF Purge, tick, OthersWait
<1>10. ASSUME NEW e \in Emails, Ages(e) PROVE OthersWait'
  BY <1>10 DEF Ages, tick, OthersWait
<1>11. ASSUME NEW e \in Emails, ScheduleElapses(e) PROVE OthersWait'
  BY <1>11 DEF ScheduleElapses, tick, OthersWait
<1>12. ASSUME NEW r \in Requests, NEW e \in Emails, NEW p \in Procs, DispatchReserve(r, e, p) PROVE OthersWait'
  <2>1. compose[e].pc = "done"
    BY <1>12 DEF DispatchReserve, Reachable
  <2>2. \A d \in dispatch' : d \in dispatch \/ d.email = e
    BY <1>12 DEF DispatchReserve
  <2>3. UNCHANGED <<compose, tick, jobs>>
    BY <1>12 DEF DispatchReserve
  <2> QED
    BY <2>1, <2>2, <2>3 DEF OthersWait, tick
<1>13. ASSUME NEW d \in dispatch, DispatchClaim(d) PROVE OthersWait'
  <2>1. d.email \in Emails /\ d.proc \in Procs /\ compose[d.email].pc = "done"
    BY DEF TypeOK, OthersWait
  <2>2. UNCHANGED <<compose, tick>> /\ dispatch' \subseteq dispatch
    BY <1>13 DEF DispatchClaim, ClaimOrLose
  <2>3. CASE Claim(d.email, d.proc)
    BY <2>1, <2>2, <2>3, JobJoins DEF tick
  <2>4. CASE UNCHANGED jobs
    BY <2>2, <2>4, WorkShrinks DEF tick
  <2> QED
    BY <1>13, <2>3, <2>4 DEF DispatchClaim, ClaimOrLose
<1>14. ASSUME NEW p \in Procs, TickSelectRetries(p) PROVE OthersWait'
  <2>1. PICK c : c \subseteq RetryCandidates /\ retryList' = [retryList EXCEPT ![p] = {e \in c : PassesBackoff(e)}]
    BY <1>14 DEF TickSelectRetries, FullBatch
  <2>2. \A e \in RetryCandidates : compose[e].pc = "done"
    BY DEF RetryCandidates, ComposeOwnsRow, TypeOK, ComposePcs
  <2>3. \A q \in Procs : \A e \in retryList'[q] : e \in retryList[q] \/ e \in RetryCandidates
    BY <2>1 DEF TypeOK
  <2>4. UNCHANGED <<compose, dispatch, schedList, tickRow, jobs>>
    BY <1>14 DEF TickSelectRetries
  <2> QED
    BY <2>2, <2>3, <2>4 DEF OthersWait
<1>15. ASSUME NEW p \in Procs, TickSelectScheduled(p) PROVE OthersWait'
  <2>1. PICK c : c \subseteq ScheduledCandidates /\ schedList' = [schedList EXCEPT ![p] = c]
    BY <1>15 DEF TickSelectScheduled, FullBatch
  <2>2. \A e \in ScheduledCandidates : compose[e].pc = "done"
    BY DEF ScheduledCandidates, ComposeOwnsRow
  <2>3. \A q \in Procs : \A e \in schedList'[q] : e \in schedList[q] \/ e \in ScheduledCandidates
    BY <2>1 DEF TypeOK
  <2>4. UNCHANGED <<compose, dispatch, retryList, tickRow, jobs>>
    BY <1>15 DEF TickSelectScheduled
  <2> QED
    BY <2>2, <2>3, <2>4 DEF OthersWait
<1>16. ASSUME NEW p \in Procs, TickReserve(p) PROVE OthersWait'
  <2>1. PICK e \in Emails : TakesNext(p, e) /\ ReservesFor(p, e)
    BY <1>16 DEF TickReserve
  <2>2. e \in retryList[p] \cup schedList[p]
    BY <2>1 DEF TakesNext
  <2>3. \A q \in Procs : retryList'[q] \subseteq retryList[q]
    BY <2>1 DEF TakesNext, TypeOK
  <2>4. \A q \in Procs : schedList'[q] \subseteq schedList[q]
    BY <2>1 DEF TakesNext, TypeOK
  <2>5. \A q \in Procs : tickRow'[q] \subseteq tickRow[q] \/ (q = p /\ tickRow'[q] = {e})
    BY <2>1 DEF ReservesFor, TypeOK
  <2>6. \A q \in Procs : retryList'[q] \cup schedList'[q] \cup tickRow'[q]
                            \subseteq retryList[q] \cup schedList[q] \cup tickRow[q]
    BY <2>2, <2>3, <2>4, <2>5
  <2>7. UNCHANGED <<compose, dispatch, jobs>>
    BY <1>16 DEF TickReserve
  <2> QED
    BY <2>6, <2>7, WorkShrinks
<1>17. ASSUME NEW p \in Procs, TickClaim(p) PROVE OthersWait'
  <2>1. PICK e \in tickRow[p] : Claim(e, p) \/ UNCHANGED jobs
    BY <1>17 DEF TickClaim
  <2>2. e \in Emails /\ compose[e].pc = "done"
    BY DEF TypeOK, OthersWait
  <2>3. UNCHANGED <<compose, dispatch, retryList, schedList>> /\ \A q \in Procs : tickRow'[q] \subseteq tickRow[q]
    BY <1>17 DEF TickClaim, TypeOK
  <2>4. CASE Claim(e, p)
    BY <2>2, <2>3, <2>4, JobJoins
  <2>5. CASE UNCHANGED jobs
    BY <2>3, <2>5, WorkShrinks
  <2> QED
    BY <2>1, <2>4, <2>5
<1>18. ASSUME NEW p \in Procs, TickRefund(p) PROVE OthersWait'
  BY <1>18 DEF TickRefund, tick, OthersWait
<1>19. ASSUME NEW p \in Procs, TickEnd(p) PROVE OthersWait'
  BY <1>19 DEF TickEnd, tick, OthersWait
<1>20. ASSUME NEW p \in Procs, Crash(p) PROVE OthersWait'
  <2>1. \A f \in Emails : compose[f].pc = "done" => compose'[f].pc = "done"
    BY <1>20 DEF Crash, TypeOK
  <2>2. \A q \in Procs : /\ retryList'[q] \subseteq retryList[q]
                         /\ schedList'[q] \subseteq schedList[q]
                         /\ tickRow'[q] \subseteq tickRow[q]
    BY <1>20 DEF Crash, TypeOK
  <2>3. dispatch' \subseteq dispatch /\ jobs' \subseteq jobs
    BY <1>20 DEF Crash
  <2> QED
    BY <2>1, <2>2, <2>3, WorkShrinks
<1>21. ASSUME NEW j \in jobs, JobRead(j) PROVE OthersWait'
  <2>1. UNCHANGED <<compose, dispatch, retryList, schedList, tickRow>>
    BY <1>21 DEF JobRead, tick
  <2>2. \A k \in jobs' : k \in jobs \/ k.email = j.email
    BY <1>21, ReadFacts
  <2> QED
    BY <2>1, <2>2, WorkShrinks
<1>22. ASSUME NEW j \in jobs, EngineTakes(j) PROVE OthersWait'
  <2>1. UNCHANGED <<compose, dispatch, retryList, schedList, tickRow>>
    BY <1>22 DEF EngineTakes, tick
  <2>2. \A k \in jobs' : k \in jobs \/ k.email = j.email
    BY <1>22, MoveFacts DEF EngineTakes, Stages
  <2> QED
    BY <2>1, <2>2, WorkShrinks
<1>23. ASSUME NEW j \in jobs, EngineConfirms(j) PROVE OthersWait'
  <2>1. UNCHANGED <<compose, dispatch, retryList, schedList, tickRow>>
    BY <1>23 DEF EngineConfirms, tick
  <2>2. \A k \in jobs' : k \in jobs \/ k.email = j.email
    BY <1>23, MoveFacts DEF EngineConfirms, Stages
  <2> QED
    BY <2>1, <2>2, WorkShrinks
<1>24. ASSUME NEW j \in jobs, NEW kind \in {"hard", "soft"}, EngineFails(j, kind) PROVE OthersWait'
  <2>1. UNCHANGED <<compose, dispatch, retryList, schedList, tickRow>>
    BY <1>24 DEF EngineFails, tick
  <2>2. \A k \in jobs' : k \in jobs \/ k.email = j.email
    BY <1>24, MoveFacts DEF EngineFails, Stages
  <2> QED
    BY <2>1, <2>2, WorkShrinks
<1>25. ASSUME NEW j \in jobs, JobSucceeds(j) PROVE OthersWait'
  <2>1. UNCHANGED <<compose, dispatch, retryList, schedList, tickRow>>
    BY <1>25 DEF JobSucceeds, tick
  <2>2. jobs' \subseteq jobs
    BY <1>25 DEF JobSucceeds
  <2> QED
    BY <2>1, <2>2, WorkShrinks
<1>26. ASSUME NEW j \in jobs, JobFails(j) PROVE OthersWait'
  <2>1. UNCHANGED <<compose, dispatch, retryList, schedList, tickRow>>
    BY <1>26 DEF JobFails, tick
  <2>2. \A k \in jobs' : k \in jobs \/ k.email = j.email
    BY <1>26, MoveFacts DEF JobFails, FailureEnds, Stages
  <2> QED
    BY <2>1, <2>2, WorkShrinks
<1>27. ASSUME NEW j \in jobs, JobRefunds(j) PROVE OthersWait'
  <2>1. UNCHANGED <<compose, dispatch, retryList, schedList, tickRow>>
    BY <1>27 DEF JobRefunds, tick
  <2>2. jobs' \subseteq jobs
    BY <1>27 DEF JobRefunds
  <2> QED
    BY <2>1, <2>2, WorkShrinks
<1>28. ASSUME NEW j \in jobs, JobThrows(j) PROVE OthersWait'
  <2>1. UNCHANGED <<compose, dispatch, retryList, schedList, tickRow>>
    BY <1>28 DEF JobThrows, tick
  <2>2. \A k \in jobs' : k \in jobs \/ k.email = j.email
    BY <1>28, MoveFacts DEF JobThrows, Stages
  <2> QED
    BY <2>1, <2>2, WorkShrinks
<1>29. ASSUME WindowRolls PROVE OthersWait'
  BY <1>29 DEF WindowRolls, tick, OthersWait
<1>30. ASSUME UNCHANGED vars PROVE OthersWait'
  BY <1>30 DEF vars, tick, OthersWait
<1>31. ASSUME NEW e \in Emails, ComposeClaimThrows(e) PROVE OthersWait'
  <2>1. At(e, "done") /\ compose[e].pc # "done" /\ UNCHANGED <<dispatch, tick, jobs>>
    BY <1>31 DEF ComposeClaimThrows, ClaimThrows
  <2> QED
    BY <2>1, AtDone, WorkShrinks DEF tick
<1>32. ASSUME NEW d \in dispatch, DispatchClaimThrows(d) PROVE OthersWait'
  <2>1. UNCHANGED <<compose, tick, jobs>> /\ dispatch' \subseteq dispatch
    BY <1>32 DEF DispatchClaimThrows, ClaimThrows
  <2> QED
    BY <2>1, WorkShrinks DEF tick
<1>33. ASSUME NEW p \in Procs, TickThrows(p) PROVE OthersWait'
  <2>1. UNCHANGED <<compose, dispatch, jobs>>
    BY <1>33 DEF TickThrows, ClaimThrows
  <2>2. \A q \in Procs : /\ retryList'[q] \subseteq retryList[q]
                         /\ schedList'[q] \subseteq schedList[q]
                         /\ tickRow'[q] \subseteq tickRow[q]
    BY <1>33 DEF TickThrows, TypeOK
  <2> QED
    BY <2>1, <2>2, WorkShrinks
<1> QED
  BY <1>1, <1>2, <1>3, <1>4, <1>5, <1>6, <1>7, <1>8, <1>9, <1>10, <1>11, <1>12, <1>13, <1>14, <1>15, <1>16, <1>17, <1>18, <1>19, <1>20, <1>21, <1>22, <1>23, <1>24, <1>25, <1>26, <1>27, <1>28, <1>29, <1>30,
     <1>31, <1>32, <1>33 DEF Next, ComposeStart, ComposeStep, TickStep, JobStep

-----------------------------------------------------------------------------
(* The attempt count a job has read *)

\* A claim raises the attempt count only of a row no job has read.
LEMMA ClaimSeen ==
  ASSUME TypeOK, SendLock, SeenIsCurrent, NEW e \in Emails, NEW p \in Procs, Claimable(e), Claim(e, p)
  PROVE  SeenIsCurrent'
<1>1. PICK m : jobs' = jobs \cup {m} /\ m.stage = "claimed"
  BY ClaimFacts
<1>2. \A k \in jobs : Working(k) => k.email \in Emails /\ k.email # e
  BY DEF Claimable, SendLock, TypeOK, JobRecord
<1>3. \A f \in Emails : f # e => attempts'[f] = attempts[f]
  BY ClaimRow
<1> QED
  BY <1>1, <1>2, <1>3 DEF SeenIsCurrent, Working

\* A job that moves on keeps what it read.
LEMMA MoveSeen ==
  ASSUME TypeOK, SeenIsCurrent, NEW j \in jobs, NEW stage \in Stages, MoveJob(j, stage),
         j.stage # "claimed" \/ stage = "refund", Working(j), UNCHANGED attempts
  PROVE  SeenIsCurrent'
<1>1. PICK m : /\ jobs' = (jobs \ {j}) \cup {m}
               /\ m.email = j.email /\ m.stage = stage /\ m.seen = j.seen
  BY MoveFacts
<1> QED
  BY <1>1 DEF SeenIsCurrent, Working

\* A claim that throws raises the attempt count of a row nobody works on.
LEMMA ThrowSeen ==
  ASSUME TypeOK, SendLock, SeenIsCurrent, NEW e \in Emails, ClaimThrows(e)
  PROVE  SeenIsCurrent'
<1>1. UNCHANGED jobs /\ \A f \in Emails : f # e => attempts'[f] = attempts[f]
  BY ThrowFacts
<1>2. CASE UNCHANGED row
  BY <1>1, <1>2 DEF SeenIsCurrent, Working, row
<1>3. CASE Claimable(e)
  <2>1. \A k \in jobs : Working(k) => k.email \in Emails /\ k.email # e
    BY <1>3 DEF Claimable, SendLock, TypeOK, JobRecord
  <2> QED
    BY <1>1, <2>1 DEF SeenIsCurrent, Working
<1> QED BY <1>2, <1>3, ThrowFacts

\* Every step keeps the attempt count a job decides by equal to the row's.
LEMMA SeenStep ==
  ASSUME TypeOK, SendLock, SeenIsCurrent, [Next]_vars
  PROVE  SeenIsCurrent'
<1>1. ASSUME NEW e \in Emails, ComposeDraft(e) PROVE SeenIsCurrent'
  BY <1>1 DEF ComposeDraft, NewRow, row, SeenIsCurrent, Working
<1>2. ASSUME NEW e \in Emails, ComposeScheduled(e) PROVE SeenIsCurrent'
  BY <1>2 DEF ComposeScheduled, NewRow, row, SeenIsCurrent, Working
<1>3. ASSUME NEW e \in Emails, ComposeReserve(e) PROVE SeenIsCurrent'
  BY <1>3 DEF ComposeReserve, row, SeenIsCurrent, Working
<1>4. ASSUME NEW e \in Emails, ComposeMarkScheduled(e) PROVE SeenIsCurrent'
  BY <1>4 DEF ComposeMarkScheduled, row, SeenIsCurrent, Working
<1>5. ASSUME NEW e \in Emails, ComposeInsert(e) PROVE SeenIsCurrent'
  BY <1>5 DEF ComposeInsert, NewRow, row, SeenIsCurrent, Working
<1>6. ASSUME NEW e \in Emails, ComposeThrows(e) PROVE SeenIsCurrent'
  BY <1>6 DEF ComposeThrows, row, SeenIsCurrent, Working
<1>7. ASSUME NEW e \in Emails, ComposeMarkLimited(e) PROVE SeenIsCurrent'
  BY <1>7 DEF ComposeMarkLimited, row, SeenIsCurrent, Working
<1>8. ASSUME NEW e \in Emails, ComposeClaim(e) PROVE SeenIsCurrent'
  <2>1. compose[e].proc \in Procs
    BY DEF TypeOK
  <2>2. CASE Claimable(e)
    BY <1>8, <2>1, <2>2, ClaimSeen DEF ComposeClaim, ClaimOrLose
  <2>3. CASE ~Claimable(e)
    BY <1>8, <2>3 DEF ComposeClaim, ClaimOrLose, row, SeenIsCurrent, Working
  <2> QED BY <2>2, <2>3
<1>9. ASSUME NEW e \in Emails, Purge(e) PROVE SeenIsCurrent'
  BY <1>9 DEF Purge, row, SeenIsCurrent, Working
<1>10. ASSUME NEW e \in Emails, Ages(e) PROVE SeenIsCurrent'
  BY <1>10 DEF Ages, row, SeenIsCurrent, Working
<1>11. ASSUME NEW e \in Emails, ScheduleElapses(e) PROVE SeenIsCurrent'
  BY <1>11 DEF ScheduleElapses, row, SeenIsCurrent, Working
<1>12. ASSUME NEW r \in Requests, NEW e \in Emails, NEW p \in Procs, DispatchReserve(r, e, p) PROVE SeenIsCurrent'
  BY <1>12 DEF DispatchReserve, row, SeenIsCurrent, Working
<1>13. ASSUME NEW d \in dispatch, DispatchClaim(d) PROVE SeenIsCurrent'
  <2>1. d.email \in Emails /\ d.proc \in Procs
    BY DEF TypeOK
  <2>2. CASE Claimable(d.email)
    BY <1>13, <2>1, <2>2, ClaimSeen DEF DispatchClaim, ClaimOrLose
  <2>3. CASE ~Claimable(d.email)
    BY <1>13, <2>3 DEF DispatchClaim, ClaimOrLose, row, SeenIsCurrent, Working
  <2> QED BY <2>2, <2>3
<1>14. ASSUME NEW p \in Procs, TickSelectRetries(p) PROVE SeenIsCurrent'
  BY <1>14 DEF TickSelectRetries, row, SeenIsCurrent, Working
<1>15. ASSUME NEW p \in Procs, TickSelectScheduled(p) PROVE SeenIsCurrent'
  BY <1>15 DEF TickSelectScheduled, row, SeenIsCurrent, Working
<1>16. ASSUME NEW p \in Procs, TickReserve(p) PROVE SeenIsCurrent'
  BY <1>16 DEF TickReserve, row, SeenIsCurrent, Working
<1>17. ASSUME NEW p \in Procs, TickClaim(p) PROVE SeenIsCurrent'
  <2>1. PICK e \in tickRow[p] :
          \/ Claimable(e) /\ Claim(e, p)
          \/ ~Claimable(e) /\ UNCHANGED <<row, jobs>>
    BY <1>17 DEF TickClaim
  <2>2. e \in Emails
    BY DEF TypeOK
  <2> QED
    BY <2>1, <2>2, ClaimSeen DEF row, SeenIsCurrent, Working
<1>18. ASSUME NEW p \in Procs, TickRefund(p) PROVE SeenIsCurrent'
  BY <1>18 DEF TickRefund, row, SeenIsCurrent, Working
<1>19. ASSUME NEW p \in Procs, TickEnd(p) PROVE SeenIsCurrent'
  BY <1>19 DEF TickEnd, row, SeenIsCurrent, Working
<1>20. ASSUME NEW p \in Procs, Crash(p) PROVE SeenIsCurrent'
  BY <1>20 DEF Crash, row, SeenIsCurrent, Working
<1>21. ASSUME NEW j \in jobs, JobRead(j) PROVE SeenIsCurrent'
  <2>1. UNCHANGED attempts
    BY <1>21 DEF JobRead, row
  <2>2. CASE jobs' = jobs \ {j}
    BY <2>1, <2>2 DEF SeenIsCurrent, Working
  <2>3. CASE \E m : /\ jobs' = (jobs \ {j}) \cup {m}
                    /\ m.email = j.email /\ m.stage = "calling" /\ m.seen = attempts[j.email]
    BY <2>1, <2>3 DEF SeenIsCurrent, Working
  <2> QED
    BY <1>21, <2>2, <2>3, ReadFacts
<1>22. ASSUME NEW j \in jobs, EngineTakes(j) PROVE SeenIsCurrent'
  BY <1>22, MoveSeen DEF EngineTakes, row, Stages, Working
<1>23. ASSUME NEW j \in jobs, EngineConfirms(j) PROVE SeenIsCurrent'
  BY <1>23, MoveSeen DEF EngineConfirms, row, Stages, Working
<1>24. ASSUME NEW j \in jobs, NEW kind \in {"hard", "soft"}, EngineFails(j, kind) PROVE SeenIsCurrent'
  BY <1>24, MoveSeen DEF EngineFails, row, Stages, Working
<1>25. ASSUME NEW j \in jobs, JobSucceeds(j) PROVE SeenIsCurrent'
  BY <1>25 DEF JobSucceeds, row, SeenIsCurrent, Working
<1>26. ASSUME NEW j \in jobs, JobFails(j) PROVE SeenIsCurrent'
  <2>1. CASE jobs' = jobs \ {j}
    BY <1>26, <2>1 DEF JobFails, SeenIsCurrent, Working
  <2>2. CASE MoveJob(j, "refund")
    BY <1>26, <2>2, MoveSeen DEF JobFails, Stages, Working
  <2> QED BY <1>26, <2>1, <2>2 DEF JobFails, FailureEnds
<1>27. ASSUME NEW j \in jobs, JobRefunds(j) PROVE SeenIsCurrent'
  BY <1>27 DEF JobRefunds, row, SeenIsCurrent, Working
<1>28. ASSUME NEW j \in jobs, JobThrows(j) PROVE SeenIsCurrent'
  BY <1>28, MoveSeen DEF JobThrows, row, Stages, Working
<1>29. ASSUME WindowRolls PROVE SeenIsCurrent'
  BY <1>29 DEF WindowRolls, row, SeenIsCurrent, Working
<1>30. ASSUME UNCHANGED vars PROVE SeenIsCurrent'
  BY <1>30 DEF vars, row, SeenIsCurrent, Working
<1>31. ASSUME NEW e \in Emails, ComposeClaimThrows(e) PROVE SeenIsCurrent'
  BY <1>31, ThrowSeen DEF ComposeClaimThrows
<1>32. ASSUME NEW d \in dispatch, DispatchClaimThrows(d) PROVE SeenIsCurrent'
  <2>1. d.email \in Emails
    BY DEF TypeOK
  <2> QED
    BY <1>32, <2>1, ThrowSeen DEF DispatchClaimThrows
<1>33. ASSUME NEW p \in Procs, TickThrows(p) PROVE SeenIsCurrent'
  <2>1. CASE UNCHANGED <<row, jobs>>
    BY <1>33, <2>1 DEF SeenIsCurrent, Working, row
  <2>2. CASE \E e \in tickRow[p] : ClaimThrows(e)
    <3>1. PICK e \in tickRow[p] : ClaimThrows(e)
      BY <2>2
    <3>2. e \in Emails
      BY DEF TypeOK
    <3> QED
      BY <1>33, <3>1, <3>2, ThrowSeen DEF TickThrows
  <2> QED
    BY <1>33, <2>1, <2>2 DEF TickThrows
<1> QED
  BY <1>1, <1>2, <1>3, <1>4, <1>5, <1>6, <1>7, <1>8, <1>9, <1>10, <1>11, <1>12, <1>13, <1>14, <1>15, <1>16, <1>17, <1>18, <1>19, <1>20, <1>21, <1>22, <1>23, <1>24, <1>25, <1>26, <1>27, <1>28, <1>29, <1>30,
     <1>31, <1>32, <1>33 DEF Next, ComposeStart, ComposeStep, TickStep, JobStep

-----------------------------------------------------------------------------
(* Retries *)

\* RetryLeft survives when one row changes and is not left waiting without a retry.
LEMMA RetryRow ==
  ASSUME TypeOK, RetryLeft, NEW e \in Emails,
         \A f \in Emails : f # e => status'[f] = status[f] /\ attempts'[f] = attempts[f],
         status'[e] = "rate_limited" => attempts'[e] < MaxSendAttempts
  PROVE  RetryLeft'
  BY DEF RetryLeft

\* A claim takes its row out of the waiting state.
LEMMA ClaimRetry ==
  ASSUME TypeOK, RetryLeft, NEW e \in Emails, NEW p \in Procs, Claim(e, p)
  PROVE  RetryLeft'
<1>1. status'[e] = "sending"
  BY DEF Claim, MarkSending, TypeOK
<1> QED
  BY <1>1, ClaimRow, RetryRow

\* A claim that throws leaves no row waiting for a retry it does not have.
LEMMA ThrowRetry ==
  ASSUME TypeOK, RetryLeft, NEW e \in Emails, ClaimThrows(e)
  PROVE  RetryLeft'
<1>1. CASE UNCHANGED row
  BY <1>1 DEF RetryLeft, row
<1>2. CASE status'[e] = "sending"
  BY <1>2, ThrowFacts, RetryRow
<1> QED BY <1>1, <1>2, ThrowFacts

\* Every step leaves a waiting row with a retry to wait for.
LEMMA RetryStep ==
  ASSUME TypeOK, ComposeOwnsRow, SeenIsCurrent, RetryLeft, [Next]_vars
  PROVE  RetryLeft'
<1>1. ASSUME NEW e \in Emails, ComposeDraft(e) PROVE RetryLeft'
  <2>1. /\ status'[e] \in {status[e], "idle"} /\ UNCHANGED attempts
        /\ \A f \in Emails : f # e => status'[f] = status[f]
    BY <1>1 DEF ComposeDraft, NewRow, TypeOK
  <2> QED
    BY <2>1, RetryRow DEF RetryLeft
<1>2. ASSUME NEW e \in Emails, ComposeScheduled(e) PROVE RetryLeft'
  <2>1. /\ status'[e] \in {status[e], "idle"} /\ UNCHANGED attempts
        /\ \A f \in Emails : f # e => status'[f] = status[f]
    BY <1>2 DEF ComposeScheduled, NewRow, TypeOK
  <2> QED
    BY <2>1, RetryRow DEF RetryLeft
<1>3. ASSUME NEW e \in Emails, ComposeReserve(e) PROVE RetryLeft'
  BY <1>3 DEF ComposeReserve, row, RetryLeft
<1>4. ASSUME NEW e \in Emails, ComposeMarkScheduled(e) PROVE RetryLeft'
  <2>1. /\ status'[e] \in {status[e], "idle"} /\ UNCHANGED attempts
        /\ \A f \in Emails : f # e => status'[f] = status[f]
    BY <1>4 DEF ComposeMarkScheduled, NewRow, TypeOK
  <2> QED
    BY <2>1, RetryRow DEF RetryLeft
<1>5. ASSUME NEW e \in Emails, ComposeInsert(e) PROVE RetryLeft'
  <2>1. /\ status'[e] \in {status[e], "idle"} /\ UNCHANGED attempts
        /\ \A f \in Emails : f # e => status'[f] = status[f]
    BY <1>5 DEF ComposeInsert, NewRow, TypeOK
  <2> QED
    BY <2>1, RetryRow DEF RetryLeft
<1>6. ASSUME NEW e \in Emails, ComposeThrows(e) PROVE RetryLeft'
  BY <1>6 DEF ComposeThrows, row, RetryLeft
<1>7. ASSUME NEW e \in Emails, ComposeMarkLimited(e) PROVE RetryLeft'
  <2>1. /\ UNCHANGED attempts /\ attempts[e] = 0
        /\ \A f \in Emails : f # e => status'[f] = status[f]
    BY <1>7 DEF ComposeMarkLimited, TypeOK, ComposeOwnsRow
  <2> QED
    BY <2>1, RetryRow, ParametersAssumption
<1>8. ASSUME NEW e \in Emails, ComposeClaim(e) PROVE RetryLeft'
  <2>1. compose[e].proc \in Procs
    BY DEF TypeOK
  <2> QED
    BY <1>8, <2>1, ClaimRetry DEF ComposeClaim, ClaimOrLose, row, RetryLeft
<1>9. ASSUME NEW e \in Emails, Purge(e) PROVE RetryLeft'
  <2>1. /\ UNCHANGED attempts /\ status'[e] = "purged"
        /\ \A f \in Emails : f # e => status'[f] = status[f]
    BY <1>9 DEF Purge, TypeOK
  <2> QED
    BY <2>1, RetryRow
<1>10. ASSUME NEW e \in Emails, Ages(e) PROVE RetryLeft'
  BY <1>10 DEF Ages, row, RetryLeft
<1>11. ASSUME NEW e \in Emails, ScheduleElapses(e) PROVE RetryLeft'
  BY <1>11 DEF ScheduleElapses, row, RetryLeft
<1>12. ASSUME NEW r \in Requests, NEW e \in Emails, NEW p \in Procs, DispatchReserve(r, e, p) PROVE RetryLeft'
  BY <1>12 DEF DispatchReserve, row, RetryLeft
<1>13. ASSUME NEW d \in dispatch, DispatchClaim(d) PROVE RetryLeft'
  <2>1. d.email \in Emails /\ d.proc \in Procs
    BY DEF TypeOK
  <2> QED
    BY <1>13, <2>1, ClaimRetry DEF DispatchClaim, ClaimOrLose, row, RetryLeft
<1>14. ASSUME NEW p \in Procs, TickSelectRetries(p) PROVE RetryLeft'
  BY <1>14 DEF TickSelectRetries, row, RetryLeft
<1>15. ASSUME NEW p \in Procs, TickSelectScheduled(p) PROVE RetryLeft'
  BY <1>15 DEF TickSelectScheduled, row, RetryLeft
<1>16. ASSUME NEW p \in Procs, TickReserve(p) PROVE RetryLeft'
  BY <1>16 DEF TickReserve, row, RetryLeft
<1>17. ASSUME NEW p \in Procs, TickClaim(p) PROVE RetryLeft'
  <2>1. PICK e \in tickRow[p] : Claim(e, p) \/ UNCHANGED row
    BY <1>17 DEF TickClaim
  <2>2. e \in Emails
    BY DEF TypeOK
  <2> QED
    BY <2>1, <2>2, ClaimRetry DEF row, RetryLeft
<1>18. ASSUME NEW p \in Procs, TickRefund(p) PROVE RetryLeft'
  BY <1>18 DEF TickRefund, row, RetryLeft
<1>19. ASSUME NEW p \in Procs, TickEnd(p) PROVE RetryLeft'
  BY <1>19 DEF TickEnd, row, RetryLeft
<1>20. ASSUME NEW p \in Procs, Crash(p) PROVE RetryLeft'
  BY <1>20 DEF Crash, row, RetryLeft
<1>21. ASSUME NEW j \in jobs, JobRead(j) PROVE RetryLeft'
  BY <1>21 DEF JobRead, row, RetryLeft
<1>22. ASSUME NEW j \in jobs, EngineTakes(j) PROVE RetryLeft'
  BY <1>22 DEF EngineTakes, row, RetryLeft
<1>23. ASSUME NEW j \in jobs, EngineConfirms(j) PROVE RetryLeft'
  BY <1>23 DEF EngineConfirms, row, RetryLeft
<1>24. ASSUME NEW j \in jobs, NEW kind \in {"hard", "soft"}, EngineFails(j, kind) PROVE RetryLeft'
  BY <1>24 DEF EngineFails, row, RetryLeft
<1>25. ASSUME NEW j \in jobs, JobSucceeds(j) PROVE RetryLeft'
  <2>1. j.email \in Emails /\ UNCHANGED attempts
    BY <1>25 DEF JobSucceeds, TypeOK, JobRecord
  <2>2. /\ status'[j.email] \in {status[j.email], "sent"}
        /\ \A f \in Emails : f # j.email => status'[f] = status[f]
    BY <1>25, <2>1 DEF JobSucceeds, TypeOK
  <2> QED
    BY <2>1, <2>2, RetryRow DEF RetryLeft
<1>26. ASSUME NEW j \in jobs, JobFails(j) PROVE RetryLeft'
  <2>1. j.email \in Emails /\ j.seen \in Nat /\ UNCHANGED attempts
    BY <1>26 DEF JobFails, TypeOK, JobRecord
  <2>2. j.seen = attempts[j.email]
    BY <1>26 DEF JobFails, SeenIsCurrent, Working
  <2>3. /\ status'[j.email] \in {status[j.email], FinalState(j)}
        /\ \A f \in Emails : f # j.email => status'[f] = status[f]
    BY <1>26, <2>1 DEF JobFails, TypeOK
  <2>4. FinalState(j) = "rate_limited" => j.seen < MaxSendAttempts
    BY <2>1, ParametersAssumption DEF FinalState
  <2> QED
    BY <2>1, <2>2, <2>3, <2>4, RetryRow DEF RetryLeft
<1>27. ASSUME NEW j \in jobs, JobRefunds(j) PROVE RetryLeft'
  BY <1>27 DEF JobRefunds, row, RetryLeft
<1>28. ASSUME NEW j \in jobs, JobThrows(j) PROVE RetryLeft'
  BY <1>28 DEF JobThrows, row, RetryLeft
<1>29. ASSUME WindowRolls PROVE RetryLeft'
  BY <1>29 DEF WindowRolls, row, RetryLeft
<1>30. ASSUME UNCHANGED vars PROVE RetryLeft'
  BY <1>30 DEF vars, row, RetryLeft
<1>31. ASSUME NEW e \in Emails, ComposeClaimThrows(e) PROVE RetryLeft'
  BY <1>31, ThrowRetry DEF ComposeClaimThrows
<1>32. ASSUME NEW d \in dispatch, DispatchClaimThrows(d) PROVE RetryLeft'
  <2>1. d.email \in Emails
    BY DEF TypeOK
  <2> QED
    BY <1>32, <2>1, ThrowRetry DEF DispatchClaimThrows
<1>33. ASSUME NEW p \in Procs, TickThrows(p) PROVE RetryLeft'
  <2>1. CASE UNCHANGED <<row, jobs>>
    BY <1>33, <2>1 DEF RetryLeft, row
  <2>2. CASE \E e \in tickRow[p] : ClaimThrows(e)
    <3>1. PICK e \in tickRow[p] : ClaimThrows(e)
      BY <2>2
    <3>2. e \in Emails
      BY DEF TypeOK
    <3> QED
      BY <1>33, <3>1, <3>2, ThrowRetry DEF TickThrows
  <2> QED
    BY <1>33, <2>1, <2>2 DEF TickThrows
<1> QED
  BY <1>1, <1>2, <1>3, <1>4, <1>5, <1>6, <1>7, <1>8, <1>9, <1>10, <1>11, <1>12, <1>13, <1>14, <1>15, <1>16, <1>17, <1>18, <1>19, <1>20, <1>21, <1>22, <1>23, <1>24, <1>25, <1>26, <1>27, <1>28, <1>29, <1>30,
     <1>31, <1>32, <1>33 DEF Next, ComposeStart, ComposeStep, TickStep, JobStep

-----------------------------------------------------------------------------
(* Copies *)

\* The stages before and after the engine's acceptance is known to the job.
Waiting == {"claimed", "calling", "hard", "soft"}
Holding == {"taken", "ok"}

\* Counters unchanged, jobs no further than before, statuses that fit the counters.
LEMMA CopyKeep ==
  ASSUME TypeOK, CopyKnown, CopiesAccounted, UNCHANGED <<accepted, unheard>>,
         \A k \in jobs' : \/ k.stage = "refund"
                          \/ \E i \in jobs : /\ i.email = k.email
                                             /\ k.stage \in Holding => i.stage \in Holding
                                             /\ k.stage \in Waiting => i.stage \in Waiting,
         \A e \in Emails : \/ status'[e] = status[e]
                           \/ status'[e] \in {"sending", "purged"}
                           \/ status'[e] = "sent" /\ accepted[e] = unheard[e] + 1
                           \/ status'[e] # "sent" /\ accepted[e] = unheard[e]
  PROVE  CopyKnown' /\ CopiesAccounted'
  BY DEF CopyKnown, CopiesAccounted, Waiting, Holding

\* A claim starts from a row of which the engine holds no copy unknown to it.
LEMMA ClaimCopy ==
  ASSUME TypeOK, CopyKnown, CopiesAccounted, NEW e \in Emails, NEW p \in Procs,
         Claimable(e), Claim(e, p), UNCHANGED <<accepted, unheard>>
  PROVE  CopyKnown' /\ CopiesAccounted'
<1>1. PICK m : jobs' = jobs \cup {m} /\ m.email = e /\ m.stage = "claimed"
  BY ClaimFacts
<1>2. status'[e] = "sending" /\ \A f \in Emails : f # e => status'[f] = status[f]
  BY DEF Claim, MarkSending, TypeOK
<1>3. accepted[e] = unheard[e]
  BY DEF Claimable, CopyKnown
<1> QED
  BY <1>1, <1>2, <1>3 DEF CopyKnown, CopiesAccounted

\* A job of one row moves on while only that row's counters change.
LEMMA MoveCopy ==
  ASSUME TypeOK, SendLock, CopyKnown, CopiesAccounted, NEW j \in jobs, NEW stage \in Stages,
         Working(j), MoveJob(j, stage), UNCHANGED status,
         \A f \in Emails : f # j.email => accepted'[f] = accepted[f] /\ unheard'[f] = unheard[f],
         stage \in Holding => accepted'[j.email] = unheard'[j.email] + 1,
         stage \in Waiting => accepted'[j.email] = unheard'[j.email],
         accepted'[j.email] <= unheard'[j.email] + 1
  PROVE  CopyKnown' /\ CopiesAccounted'
<1>1. PICK m : /\ jobs' = (jobs \ {j}) \cup {m}
               /\ m.email = j.email /\ m.stage = stage
  BY MoveFacts
<1>2. \A k \in jobs \ {j} : k.stage # "refund" => k.email \in Emails /\ k.email # j.email
  BY DEF SendLock, Working, TypeOK, JobRecord
<1>3. status[j.email] \in {"sending", "purged"}
  BY DEF SendLock
<1>4. \A k \in jobs' : /\ k.stage \in Holding => accepted'[k.email] = unheard'[k.email] + 1
                       /\ k.stage \in Waiting => accepted'[k.email] = unheard'[k.email]
  BY <1>1, <1>2 DEF CopyKnown, Holding, Waiting
<1> QED
  BY <1>3, <1>4 DEF CopyKnown, CopiesAccounted, Holding, Waiting

\* A claim that throws hands nothing over.
LEMMA ThrowCopy ==
  ASSUME TypeOK, CopyKnown, CopiesAccounted, NEW e \in Emails, ClaimThrows(e),
         UNCHANGED <<accepted, unheard>>
  PROVE  CopyKnown' /\ CopiesAccounted'
<1>1. UNCHANGED jobs /\ \A f \in Emails : status'[f] = status[f] \/ status'[f] = "sending"
  BY ThrowFacts DEF row
<1> QED
  BY <1>1, CopyKeep

\* Every step keeps count of the copies the engine accepted.
LEMMA CopyStep ==
  ASSUME TypeOK, ComposeOwnsRow, SendLock, CopyKnown, CopiesAccounted, [Next]_vars
  PROVE  CopyKnown' /\ CopiesAccounted'
<1>1. ASSUME NEW e \in Emails, ComposeDraft(e) PROVE CopyKnown' /\ CopiesAccounted'
  <2>1. status[e] \in {"none", "idle"} /\ accepted[e] = unheard[e]
    BY <1>1 DEF ComposeDraft, ComposeOwnsRow, CopyKnown
  <2>2. /\ status'[e] # "sent"
        /\ \A f \in Emails : f # e => status'[f] = status[f]
    BY <1>1, <2>1 DEF ComposeDraft, NewRow, TypeOK
  <2> QED
    BY <1>1, <2>1, <2>2, CopyKeep DEF ComposeDraft, history, Holding, Waiting
<1>2. ASSUME NEW e \in Emails, ComposeScheduled(e) PROVE CopyKnown' /\ CopiesAccounted'
  <2>1. status[e] \in {"none", "idle"} /\ accepted[e] = unheard[e]
    BY <1>2 DEF ComposeScheduled, ComposeOwnsRow, CopyKnown
  <2>2. /\ status'[e] # "sent"
        /\ \A f \in Emails : f # e => status'[f] = status[f]
    BY <1>2, <2>1 DEF ComposeScheduled, NewRow, TypeOK
  <2> QED
    BY <1>2, <2>1, <2>2, CopyKeep DEF ComposeScheduled, history, Holding, Waiting
<1>3. ASSUME NEW e \in Emails, ComposeReserve(e) PROVE CopyKnown' /\ CopiesAccounted'
  BY <1>3, CopyKeep DEF ComposeReserve, row, history
<1>4. ASSUME NEW e \in Emails, ComposeMarkScheduled(e) PROVE CopyKnown' /\ CopiesAccounted'
  <2>1. status[e] \in {"none", "idle"} /\ accepted[e] = unheard[e]
    BY <1>4 DEF ComposeMarkScheduled, ComposeOwnsRow, CopyKnown
  <2>2. /\ status'[e] # "sent"
        /\ \A f \in Emails : f # e => status'[f] = status[f]
    BY <1>4, <2>1 DEF ComposeMarkScheduled, NewRow, TypeOK
  <2> QED
    BY <1>4, <2>1, <2>2, CopyKeep DEF ComposeMarkScheduled, history, Holding, Waiting
<1>5. ASSUME NEW e \in Emails, ComposeInsert(e) PROVE CopyKnown' /\ CopiesAccounted'
  <2>1. status[e] \in {"none", "idle"} /\ accepted[e] = unheard[e]
    BY <1>5 DEF ComposeInsert, ComposeOwnsRow, CopyKnown
  <2>2. /\ status'[e] # "sent"
        /\ \A f \in Emails : f # e => status'[f] = status[f]
    BY <1>5, <2>1 DEF ComposeInsert, NewRow, TypeOK
  <2> QED
    BY <1>5, <2>1, <2>2, CopyKeep DEF ComposeInsert, history, Holding, Waiting
<1>6. ASSUME NEW e \in Emails, ComposeThrows(e) PROVE CopyKnown' /\ CopiesAccounted'
  BY <1>6, CopyKeep DEF ComposeThrows, row, history
<1>7. ASSUME NEW e \in Emails, ComposeMarkLimited(e) PROVE CopyKnown' /\ CopiesAccounted'
  <2>1. status[e] \in {"none", "idle"} /\ accepted[e] = unheard[e]
    BY <1>7 DEF ComposeMarkLimited, ComposeOwnsRow, CopyKnown
  <2>2. /\ status'[e] # "sent"
        /\ \A f \in Emails : f # e => status'[f] = status[f]
    BY <1>7, <2>1 DEF ComposeMarkLimited, NewRow, TypeOK
  <2> QED
    BY <1>7, <2>1, <2>2, CopyKeep DEF ComposeMarkLimited, history, Holding, Waiting
<1>8. ASSUME NEW e \in Emails, ComposeClaim(e) PROVE CopyKnown' /\ CopiesAccounted'
  <2> compose[e].proc \in Procs BY DEF TypeOK
  <2>1. UNCHANGED <<accepted, unheard>>
    BY <1>8 DEF ComposeClaim, ClaimOrLose, history
  <2>2. CASE Claimable(e)
    BY <1>8, <2>1, <2>2, ClaimCopy DEF ComposeClaim, ClaimOrLose
  <2>3. CASE ~Claimable(e)
    BY <1>8, <2>1, <2>3, CopyKeep DEF ComposeClaim, ClaimOrLose, row
  <2> QED BY <2>2, <2>3
<1>9. ASSUME NEW e \in Emails, Purge(e) PROVE CopyKnown' /\ CopiesAccounted'
  <2>1. \A f \in Emails : status'[f] = status[f] \/ status'[f] = "purged"
    BY <1>9 DEF Purge, TypeOK
  <2> QED
    BY <1>9, <2>1, CopyKeep DEF Purge, history
<1>10. ASSUME NEW e \in Emails, Ages(e) PROVE CopyKnown' /\ CopiesAccounted'
  BY <1>10, CopyKeep DEF Ages, row, history
<1>11. ASSUME NEW e \in Emails, ScheduleElapses(e) PROVE CopyKnown' /\ CopiesAccounted'
  BY <1>11, CopyKeep DEF ScheduleElapses, row, history
<1>12. ASSUME NEW r \in Requests, NEW e \in Emails, NEW p \in Procs, DispatchReserve(r, e, p) PROVE CopyKnown' /\ CopiesAccounted'
  BY <1>12, CopyKeep DEF DispatchReserve, row, history
<1>13. ASSUME NEW d \in dispatch, DispatchClaim(d) PROVE CopyKnown' /\ CopiesAccounted'
  <2> d.email \in Emails /\ d.proc \in Procs BY DEF TypeOK
  <2>1. UNCHANGED <<accepted, unheard>>
    BY <1>13 DEF DispatchClaim, ClaimOrLose, history
  <2>2. CASE Claimable(d.email)
    BY <1>13, <2>1, <2>2, ClaimCopy DEF DispatchClaim, ClaimOrLose
  <2>3. CASE ~Claimable(d.email)
    BY <1>13, <2>1, <2>3, CopyKeep DEF DispatchClaim, ClaimOrLose, row
  <2> QED BY <2>2, <2>3
<1>14. ASSUME NEW p \in Procs, TickSelectRetries(p) PROVE CopyKnown' /\ CopiesAccounted'
  BY <1>14, CopyKeep DEF TickSelectRetries, row, history
<1>15. ASSUME NEW p \in Procs, TickSelectScheduled(p) PROVE CopyKnown' /\ CopiesAccounted'
  BY <1>15, CopyKeep DEF TickSelectScheduled, row, history
<1>16. ASSUME NEW p \in Procs, TickReserve(p) PROVE CopyKnown' /\ CopiesAccounted'
  BY <1>16, CopyKeep DEF TickReserve, row, history
<1>17. ASSUME NEW p \in Procs, TickClaim(p) PROVE CopyKnown' /\ CopiesAccounted'
  <2>1. PICK e \in tickRow[p] :
          \/ Claimable(e) /\ Claim(e, p)
          \/ ~Claimable(e) /\ UNCHANGED <<row, jobs>>
    BY <1>17 DEF TickClaim
  <2>2. e \in Emails /\ UNCHANGED <<accepted, unheard>>
    BY <1>17 DEF TypeOK, TickClaim, history
  <2>3. CASE Claimable(e) /\ Claim(e, p)
    BY <2>2, <2>3, ClaimCopy
  <2>4. CASE UNCHANGED <<row, jobs>>
    BY <2>2, <2>4, CopyKeep DEF row
  <2> QED
    BY <2>1, <2>3, <2>4
<1>18. ASSUME NEW p \in Procs, TickRefund(p) PROVE CopyKnown' /\ CopiesAccounted'
  BY <1>18, CopyKeep DEF TickRefund, row, history
<1>19. ASSUME NEW p \in Procs, TickEnd(p) PROVE CopyKnown' /\ CopiesAccounted'
  BY <1>19, CopyKeep DEF TickEnd, row, history
<1>20. ASSUME NEW p \in Procs, Crash(p) PROVE CopyKnown' /\ CopiesAccounted'
  <2>1. jobs' \subseteq jobs
    BY <1>20 DEF Crash
  <2> QED
    BY <1>20, <2>1, CopyKeep DEF Crash, row, history
<1>21. ASSUME NEW j \in jobs, JobRead(j) PROVE CopyKnown' /\ CopiesAccounted'
  <2>1. \A k \in jobs' : k \in jobs \/ (k.email = j.email /\ k.stage = "calling" /\ j.stage = "claimed")
    BY <1>21, ReadFacts
  <2>2. UNCHANGED <<status, accepted, unheard>>
    BY <1>21 DEF JobRead, row, history
  <2> QED
    BY <2>1, <2>2, CopyKeep DEF Holding, Waiting
<1>22. ASSUME NEW j \in jobs, EngineTakes(j) PROVE CopyKnown' /\ CopiesAccounted'
  <2>1. j.email \in Emails /\ Working(j) /\ UNCHANGED status
    BY <1>22 DEF EngineTakes, TypeOK, JobRecord, Working, row
  <2>2. accepted[j.email] = unheard[j.email] /\ accepted[j.email] \in Nat
    BY <1>22, <2>1 DEF EngineTakes, CopyKnown, TypeOK
  <2>3. /\ accepted'[j.email] = accepted[j.email] + 1 /\ UNCHANGED unheard
        /\ \A f \in Emails : f # j.email => accepted'[f] = accepted[f]
    BY <1>22, <2>1 DEF EngineTakes, TypeOK
  <2>4. MoveJob(j, "taken")
    BY <1>22 DEF EngineTakes
  <2> QED
    BY <2>1, <2>2, <2>3, <2>4, MoveCopy DEF Holding, Waiting, Stages
<1>23. ASSUME NEW j \in jobs, EngineConfirms(j) PROVE CopyKnown' /\ CopiesAccounted'
  <2>1. j.email \in Emails /\ Working(j) /\ UNCHANGED status
    BY <1>23 DEF EngineConfirms, TypeOK, JobRecord, Working, row
  <2>2. accepted[j.email] = unheard[j.email] + 1 /\ UNCHANGED <<accepted, unheard>>
    BY <1>23, <2>1 DEF EngineConfirms, CopyKnown, history
  <2>3. MoveJob(j, "ok")
    BY <1>23 DEF EngineConfirms
  <2>4. accepted[j.email] \in Nat /\ unheard[j.email] \in Nat
    BY <2>1 DEF TypeOK
  <2> QED
    BY <2>1, <2>2, <2>3, <2>4, MoveCopy DEF Holding, Waiting, Stages
<1>24. ASSUME NEW j \in jobs, NEW kind \in {"hard", "soft"}, EngineFails(j, kind) PROVE CopyKnown' /\ CopiesAccounted'
  <2>1. j.email \in Emails /\ Working(j) /\ UNCHANGED status
    BY <1>24 DEF EngineFails, TypeOK, JobRecord, Working, row
  <2>2. accepted[j.email] \in Nat /\ unheard[j.email] \in Nat /\ UNCHANGED accepted
    BY <1>24, <2>1 DEF EngineFails, TypeOK
  <2>3. accepted'[j.email] = unheard'[j.email] /\ unheard'[j.email] \in Nat
    <3>1. CASE j.stage = "taken"
      BY <1>24, <2>1, <2>2, <3>1 DEF EngineFails, CopyKnown, TypeOK
    <3>2. CASE j.stage = "calling"
      BY <1>24, <2>1, <2>2, <3>2 DEF EngineFails, CopyKnown, TypeOK
    <3> QED BY <1>24, <3>1, <3>2 DEF EngineFails
  <2>4. \A f \in Emails : f # j.email => unheard'[f] = unheard[f]
    BY <1>24, <2>1 DEF EngineFails, TypeOK
  <2>5. MoveJob(j, kind)
    BY <1>24 DEF EngineFails
  <2> QED
    BY <2>1, <2>2, <2>3, <2>4, <2>5, MoveCopy DEF Holding, Waiting, Stages
<1>25. ASSUME NEW j \in jobs, JobSucceeds(j) PROVE CopyKnown' /\ CopiesAccounted'
  <2>1. accepted[j.email] = unheard[j.email] + 1 /\ j.email \in Emails
    BY <1>25 DEF JobSucceeds, CopyKnown, TypeOK, JobRecord
  <2>2. /\ status'[j.email] \in {status[j.email], "sent"}
        /\ \A f \in Emails : f # j.email => status'[f] = status[f]
    BY <1>25, <2>1 DEF JobSucceeds, TypeOK
  <2>3. UNCHANGED <<accepted, unheard>> /\ jobs' \subseteq jobs
    BY <1>25 DEF JobSucceeds
  <2> QED
    BY <2>1, <2>2, <2>3, CopyKeep
<1>26. ASSUME NEW j \in jobs, JobFails(j) PROVE CopyKnown' /\ CopiesAccounted'
  <2>1. accepted[j.email] = unheard[j.email] /\ j.email \in Emails
    BY <1>26 DEF JobFails, CopyKnown, TypeOK, JobRecord
  <2>2. /\ status'[j.email] \in {status[j.email], FinalState(j)} /\ FinalState(j) # "sent"
        /\ \A f \in Emails : f # j.email => status'[f] = status[f]
    BY <1>26, <2>1 DEF JobFails, TypeOK, FinalState
  <2>3. \A k \in jobs' : k \in jobs \/ k.stage = "refund"
    BY <1>26, MoveFacts DEF JobFails, FailureEnds, Stages
  <2>4. UNCHANGED <<accepted, unheard>>
    BY <1>26 DEF JobFails
  <2> QED
    BY <2>1, <2>2, <2>3, <2>4, CopyKeep
<1>27. ASSUME NEW j \in jobs, JobRefunds(j) PROVE CopyKnown' /\ CopiesAccounted'
  <2>1. jobs' \subseteq jobs
    BY <1>27 DEF JobRefunds
  <2> QED
    BY <1>27, <2>1, CopyKeep DEF JobRefunds, row, history
<1>28. ASSUME NEW j \in jobs, JobThrows(j) PROVE CopyKnown' /\ CopiesAccounted'
  <2>1. \A k \in jobs' : k \in jobs \/ k.stage = "refund"
    BY <1>28, MoveFacts DEF JobThrows, Stages
  <2> QED
    BY <1>28, <2>1, CopyKeep DEF JobThrows, row, history
<1>29. ASSUME WindowRolls PROVE CopyKnown' /\ CopiesAccounted'
  BY <1>29, CopyKeep DEF WindowRolls, row, history
<1>30. ASSUME UNCHANGED vars PROVE CopyKnown' /\ CopiesAccounted'
  BY <1>30, CopyKeep DEF vars, row, history
<1>31. ASSUME NEW e \in Emails, ComposeClaimThrows(e) PROVE CopyKnown' /\ CopiesAccounted'
  BY <1>31, ThrowCopy DEF ComposeClaimThrows, history
<1>32. ASSUME NEW d \in dispatch, DispatchClaimThrows(d) PROVE CopyKnown' /\ CopiesAccounted'
  <2>1. d.email \in Emails
    BY DEF TypeOK
  <2> QED
    BY <1>32, <2>1, ThrowCopy DEF DispatchClaimThrows, history
<1>33. ASSUME NEW p \in Procs, TickThrows(p) PROVE CopyKnown' /\ CopiesAccounted'
  <2>1. CASE UNCHANGED <<row, jobs>>
    BY <1>33, <2>1, CopyKeep DEF TickThrows, row, history
  <2>2. CASE \E e \in tickRow[p] : ClaimThrows(e)
    <3>1. PICK e \in tickRow[p] : ClaimThrows(e)
      BY <2>2
    <3>2. e \in Emails
      BY DEF TypeOK
    <3> QED
      BY <1>33, <3>1, <3>2, ThrowCopy DEF TickThrows, history
  <2> QED
    BY <1>33, <2>1, <2>2 DEF TickThrows
<1> QED
  BY <1>1, <1>2, <1>3, <1>4, <1>5, <1>6, <1>7, <1>8, <1>9, <1>10, <1>11, <1>12, <1>13, <1>14, <1>15, <1>16, <1>17, <1>18, <1>19, <1>20, <1>21, <1>22, <1>23, <1>24, <1>25, <1>26, <1>27, <1>28, <1>29, <1>30,
     <1>31, <1>32, <1>33 DEF Next, ComposeStart, ComposeStep, TickStep, JobStep

-----------------------------------------------------------------------------
(* The theorems *)

\* The inductive invariant holds when the table is empty.
LEMMA InitInv ==
  ASSUME Init
  PROVE  IInv
<1>1. TypeOK
  BY ParametersAssumption DEF Init, TypeOK, Statuses, ComposePcs, TickPcs
<1>2. ComposeOwnsRow
  BY DEF Init, ComposeOwnsRow
<1>3. OthersWait /\ SendLock /\ SeenIsCurrent
  BY DEF Init, OthersWait, SendLock, SeenIsCurrent
<1>4. RetryLeft /\ CopyKnown /\ CopiesAccounted
  BY DEF Init, RetryLeft, CopyKnown, CopiesAccounted
<1> QED
  BY <1>1, <1>2, <1>3, <1>4 DEF IInv

\* The inductive invariant survives every step.
LEMMA StepInv ==
  ASSUME ~EarlyAccess, IInv, [Next]_vars
  PROVE  IInv'
  BY TypeStep, ComposeStepHolds, OthersStep, LockStep, SeenStep, RetryStep, CopyStep DEF IInv

\* Every value stays in its type, early access or not: in particular the send
\* counter never passes the budget and never goes below zero.
THEOREM TypeCorrect == Spec => []TypeOK
<1>1. Init => TypeOK
  BY InitInv DEF IInv
<1>2. TypeOK /\ [Next]_vars => TypeOK'
  BY TypeStep
<1> QED
  BY <1>1, <1>2, PTL DEF Spec

\* The inductive invariant holds of every behaviour in which other clients see
\* a row only after its compose request has returned.
THEOREM Invariant ==
  ASSUME ~EarlyAccess
  PROVE  Spec => []IInv
<1>1. Init => IInv
  BY InitInv
<1>2. IInv /\ [Next]_vars => IInv'
  BY StepInv
<1> QED
  BY <1>1, <1>2, PTL DEF Spec

\* No email is ever worked on by two sendEmail calls, or by one while its row is
\* open to a claim: the conditional UPDATE of claim is a lock.
THEOREM LockCorrect ==
  ASSUME ~EarlyAccess
  PROVE  Spec => []SendLock
<1>1. IInv => SendLock
  BY DEF IInv
<1> QED
  BY <1>1, Invariant, PTL

\* A row is left to the dispatcher's retries only while a retry remains.
THEOREM RetryCorrect ==
  ASSUME ~EarlyAccess
  PROVE  Spec => []RetryLeft
<1>1. IInv => RetryLeft
  BY DEF IInv
<1> QED
  BY <1>1, Invariant, PTL

\* The engine takes at most one copy more than the acceptances that were lost on
\* the way back, and exactly that many of an email shown as sent.
THEOREM DeliveryCorrect ==
  ASSUME ~EarlyAccess
  PROVE  Spec => []CopiesAccounted
<1>1. IInv => CopiesAccounted
  BY DEF IInv
<1> QED
  BY <1>1, Invariant, PTL

-----------------------------------------------------------------------------
(* The refinement of Outbox *)

\* A row's phase is its one sender's.
LEMMA PhaseOf ==
  ASSUME SendLock, NEW e \in Emails
  PROVE  /\ \A j \in jobs : Working(j) /\ j.email = e =>
              Phase(e) = IF j.stage \in {"taken", "ok"} THEN "handed" ELSE "trying"
         /\ (\A j \in jobs : Working(j) => j.email # e) => Phase(e) = "none"
  BY DEF SendLock, Phase, Working

LEMMA PhaseOfNext ==
  ASSUME SendLock', NEW e \in Emails
  PROVE  /\ \A j \in jobs' : Working(j) /\ j.email = e =>
              Phase(e)' = IF j.stage \in {"taken", "ok"} THEN "handed" ELSE "trying"
         /\ (\A j \in jobs' : Working(j) => j.email # e) => Phase(e)' = "none"
  BY DEF SendLock, Phase, Working

\* Steps that leave the rows and the engine alone, and at most lose senders, abandon.
LEMMA Vanishes ==
  ASSUME UNCHANGED <<status, accepted, unheard>>,
         \A e \in Emails : Phase(e)' \in {Phase(e), "none"}
  PROVE  ImplementedOutbox!Next
<1> DEFINE S == {e \in Emails : Phase(e)' = "none"}
<1>1. ImplementedOutbox!Abandon(S)
  BY DEF ImplementedOutbox!Abandon
<1>2. S \in SUBSET Emails
  OBVIOUS
<1> QED
  BY <1>1, <1>2 DEF ImplementedOutbox!Next

\* Every sender that goes on was there before, and on the same side of the engine.
LEMMA SendersGoOn ==
  ASSUME SendLock, SendLock', UNCHANGED <<status, accepted, unheard>>,
         \A k \in jobs' : Working(k) =>
           \E j \in jobs : /\ Working(j) /\ j.email = k.email
                           /\ j.stage \in {"taken", "ok"} <=> k.stage \in {"taken", "ok"}
  PROVE  ImplementedOutbox!Next
<1>1. ASSUME NEW e \in Emails PROVE Phase(e)' \in {Phase(e), "none"}
  BY PhaseOf, PhaseOfNext
<1> QED
  BY <1>1, Vanishes

\* A step on one row that has no sender.
LEMMA RowMoves ==
  ASSUME TypeOK, UNCHANGED <<jobs, accepted, unheard>>, NEW e \in Emails, NEW s,
         status' = [status EXCEPT ![e] = s],
         \/ status[e] = "none" /\ s = "idle"
         \/ status[e] = "idle" /\ s \in {"idle", "rate_limited"}
         \/ status[e] \notin {"none", "purged"} /\ s = "purged"
         \/ status[e] \in {"idle", "rate_limited", "failed"} /\ s = "sending" /\ Phase(e) = "none"
  PROVE  ImplementedOutbox!Next
<1>1. \A f \in Emails : Phase(f)' = Phase(f)
  BY DEF Phase, Working
<1>2. [f \in Emails |-> Phase(f)]' = [f \in Emails |-> Phase(f)]
  BY <1>1
<1>3. CASE s = status[e]
  <2>1. UNCHANGED status
    BY <1>3 DEF TypeOK
  <2> QED
    BY <1>1, <2>1, Vanishes
<1>4. CASE s # status[e]
  <2>1. \/ ImplementedOutbox!Compose(e) \/ ImplementedOutbox!Postpone(e)
        \/ ImplementedOutbox!Delete(e) \/ ImplementedOutbox!BeginInVain(e)
    BY <1>2, <1>4 DEF ImplementedOutbox!Compose, ImplementedOutbox!Postpone, ImplementedOutbox!Delete,
                      ImplementedOutbox!BeginInVain, ImplementedOutbox!Startable
  <2> QED
    BY <2>1 DEF ImplementedOutbox!Next, ImplementedOutbox!Step
<1> QED
  BY <1>3, <1>4

\* A claim begins an attempt.
LEMMA ClaimBegins ==
  ASSUME TypeOK, SendLock, SendLock', UNCHANGED <<accepted, unheard>>,
         NEW e \in Emails, NEW p \in Procs, Claimable(e), Claim(e, p)
  PROVE  ImplementedOutbox!Next
<1>1. PICK m : jobs' = jobs \cup {m} /\ m.email = e /\ m.stage = "claimed"
  BY ClaimFacts
<1>2. Phase(e) = "none" /\ Phase(e)' = "trying"
  <2>1. \A j \in jobs : Working(j) => j.email # e
    BY DEF SendLock, Claimable
  <2>2. Working(m) /\ m \in jobs'
    BY <1>1 DEF Working
  <2> QED
    BY <1>1, <2>1, <2>2, PhaseOf, PhaseOfNext
<1>3. \A f \in Emails \ {e} : Phase(f)' = Phase(f)
  BY <1>1 DEF Phase, Working
<1>4. [f \in Emails |-> Phase(f)]' = [[f \in Emails |-> Phase(f)] EXCEPT ![e] = "trying"]
  BY <1>2, <1>3
<1>5. status' = [status EXCEPT ![e] = "sending"] /\ status[e] \in {"idle", "rate_limited", "failed"}
  BY DEF Claim, MarkSending, Claimable
<1>6. ImplementedOutbox!Begin(e)
  BY <1>2, <1>4, <1>5 DEF ImplementedOutbox!Begin, ImplementedOutbox!Startable
<1> QED
  BY <1>6 DEF ImplementedOutbox!Next, ImplementedOutbox!Step

\* A claim that throws begins in vain, or does nothing.
LEMMA ThrowBegins ==
  ASSUME TypeOK, SendLock, UNCHANGED <<accepted, unheard>>, NEW e \in Emails, ClaimThrows(e)
  PROVE  ImplementedOutbox!Next
<1>1. UNCHANGED jobs
  BY DEF ClaimThrows
<1>2. CASE UNCHANGED row
  <2>1. \A f \in Emails : Phase(f)' = Phase(f)
    BY <1>1 DEF Phase, Working
  <2> QED
    BY <1>2, <2>1, Vanishes DEF row
<1>3. CASE Claimable(e) /\ MarkSending(e)
  <2>1. Phase(e) = "none"
    BY <1>3, PhaseOf DEF SendLock, Claimable
  <2> QED
    BY <1>1, <1>3, <2>1, RowMoves DEF MarkSending, Claimable
<1> QED
  BY <1>2, <1>3 DEF ClaimThrows

\* One sender moves: what it is to do next tells the phase, and the others stay.
LEMMA SenderMoves ==
  ASSUME TypeOK, SendLock, SendLock', NEW j \in jobs, Working(j), NEW m,
         jobs' = (jobs \ {j}) \cup {m}, m.email = j.email, UNCHANGED status
  PROVE  /\ j.email \in Emails
         /\ Phase(j.email) = IF j.stage \in {"taken", "ok"} THEN "handed" ELSE "trying"
         /\ [f \in Emails |-> Phase(f)]' = [[f \in Emails |-> Phase(f)] EXCEPT ![j.email] =
              IF m.stage = "refund" THEN "none"
              ELSE IF m.stage \in {"taken", "ok"} THEN "handed" ELSE "trying"]
<1>1. j.email \in Emails
  BY DEF TypeOK, JobRecord
<1>2. Phase(j.email) = IF j.stage \in {"taken", "ok"} THEN "handed" ELSE "trying"
  BY <1>1, PhaseOf
<1>3. \A k \in jobs : Working(k) /\ k.email = j.email => k = j
  BY DEF SendLock
<1>4. Phase(j.email)' = IF m.stage = "refund" THEN "none"
                        ELSE IF m.stage \in {"taken", "ok"} THEN "handed" ELSE "trying"
  BY <1>1, <1>3, PhaseOfNext DEF Working
<1>5. \A f \in Emails \ {j.email} : Phase(f)' = Phase(f)
  BY DEF Phase, Working
<1> QED
  BY <1>1, <1>2, <1>4, <1>5

\* An attempt whose outcome is written ends.
LEMMA SenderEnds ==
  ASSUME TypeOK, SendLock, SendLock', NEW j \in jobs, Working(j),
         \A k \in jobs' : Working(k) <=> k \in jobs /\ k # j /\ Working(k),
         \A k \in jobs \ {j} : k \in jobs'
  PROVE  /\ j.email \in Emails
         /\ Phase(j.email) = IF j.stage \in {"taken", "ok"} THEN "handed" ELSE "trying"
         /\ [f \in Emails |-> Phase(f)]' = [[f \in Emails |-> Phase(f)] EXCEPT ![j.email] = "none"]
<1>1. j.email \in Emails
  BY DEF TypeOK, JobRecord
<1>2. Phase(j.email) = IF j.stage \in {"taken", "ok"} THEN "handed" ELSE "trying"
  BY <1>1, PhaseOf
<1>3. \A k \in jobs : Working(k) /\ k.email = j.email => k = j
  BY DEF SendLock
<1>4. Phase(j.email)' = "none"
  BY <1>1, <1>3, PhaseOfNext
<1>5. \A f \in Emails \ {j.email} : Phase(f)' = Phase(f)
  BY DEF Phase, Working
<1> QED
  BY <1>1, <1>2, <1>4, <1>5

\* The compose request moves the row on, or leaves it.
LEMMA ComposeRefines ==
  ASSUME ~EarlyAccess, IInv, IInv', NEW e \in Emails, ComposeStart(e) \/ ComposeStep(e)
  PROVE  ImplementedOutbox!Next
<1> USE DEF row, tick, history
<1>0. TypeOK /\ SendLock /\ SendLock' /\ ComposeOwnsRow
  BY DEF IInv
<1>1. CASE ComposeDraft(e) \/ ComposeScheduled(e) \/ ComposeInsert(e)
  BY <1>0, <1>1, RowMoves DEF ComposeDraft, ComposeScheduled, ComposeInsert, NewRow, ComposeOwnsRow
<1>2. CASE ComposeReserve(e) \/ ComposeThrows(e)
  BY <1>0, <1>2, SendersGoOn DEF ComposeReserve, ComposeThrows
<1>3. CASE ComposeMarkScheduled(e)
  BY <1>0, <1>3, RowMoves DEF ComposeMarkScheduled, ComposeOwnsRow, Exists
<1>4. CASE ComposeMarkLimited(e)
  BY <1>0, <1>4, RowMoves DEF ComposeMarkLimited, ComposeOwnsRow, Exists
<1>5. CASE ComposeClaim(e)
<2>1. compose[e].proc \in Procs
  BY <1>0 DEF TypeOK
<2>2. CASE Claimable(e)
  BY <1>0, <1>5, <2>1, <2>2, ClaimBegins DEF ComposeClaim, ClaimOrLose
<2>3. CASE ~Claimable(e)
  BY <1>0, <1>5, <2>3, SendersGoOn DEF ComposeClaim, ClaimOrLose
<2> QED
  BY <2>2, <2>3
<1>6. CASE ComposeClaimThrows(e)
  BY <1>0, <1>6, ThrowBegins DEF ComposeClaimThrows
<1> QED
  BY <1>1, <1>2, <1>3, <1>4, <1>5, <1>6 DEF ComposeStart, ComposeStep

\* Dispatch requests and ticks claim, or leave the rows.
LEMMA OthersRefine ==
  ASSUME ~EarlyAccess, IInv, IInv',
         \/ \E r \in Requests, e \in Emails, p \in Procs : DispatchReserve(r, e, p)
         \/ \E d \in dispatch : DispatchClaim(d) \/ DispatchClaimThrows(d)
         \/ \E p \in Procs : TickStep(p)
  PROVE  ImplementedOutbox!Next
<1> USE DEF row, tick, history
<1>0. TypeOK /\ SendLock /\ SendLock'
  BY DEF IInv
<1>1. ASSUME NEW d \in dispatch, DispatchClaim(d) \/ DispatchClaimThrows(d) PROVE ImplementedOutbox!Next
<2>1. d.email \in Emails /\ d.proc \in Procs
  BY <1>0 DEF TypeOK
<2>2. CASE DispatchClaim(d) /\ Claimable(d.email)
  BY <1>0, <2>1, <2>2, ClaimBegins DEF DispatchClaim, ClaimOrLose
<2>3. CASE DispatchClaim(d) /\ ~Claimable(d.email)
  BY <1>0, <2>3, SendersGoOn DEF DispatchClaim, ClaimOrLose
<2>4. CASE DispatchClaimThrows(d)
  BY <1>0, <2>1, <2>4, ThrowBegins DEF DispatchClaimThrows
<2> QED
  BY <1>1, <2>2, <2>3, <2>4
<1>2. CASE \E r \in Requests, e \in Emails, p \in Procs : DispatchReserve(r, e, p)
  BY <1>0, <1>2, SendersGoOn DEF DispatchReserve
<1>3. ASSUME NEW p \in Procs, TickClaim(p) PROVE ImplementedOutbox!Next
<2>1. PICK e \in tickRow[p] : (Claimable(e) /\ Claim(e, p)) \/ UNCHANGED <<row, jobs>>
  BY <1>3 DEF TickClaim
<2>2. e \in Emails /\ UNCHANGED <<accepted, unheard>>
  BY <1>0, <1>3 DEF TypeOK, TickClaim
<2>3. CASE Claimable(e) /\ Claim(e, p)
  BY <1>0, <2>2, <2>3, ClaimBegins
<2>4. CASE UNCHANGED <<row, jobs>>
  BY <1>0, <2>2, <2>4, SendersGoOn
<2> QED
  BY <2>1, <2>3, <2>4
<1>4. ASSUME NEW p \in Procs, TickThrows(p) PROVE ImplementedOutbox!Next
<2>1. UNCHANGED <<accepted, unheard>>
  BY <1>4 DEF TickThrows
<2>2. CASE UNCHANGED <<row, jobs>>
  BY <1>0, <2>1, <2>2, SendersGoOn
<2>3. ASSUME NEW e \in tickRow[p], ClaimThrows(e) PROVE ImplementedOutbox!Next
  <3>1. e \in Emails
    BY <1>0 DEF TypeOK
  <3> QED
    BY <1>0, <2>1, <2>3, <3>1, ThrowBegins
<2> QED
  BY <1>4, <2>2, <2>3 DEF TickThrows
<1>5. ASSUME NEW p \in Procs,
             TickSelectRetries(p) \/ TickSelectScheduled(p) \/ TickReserve(p) \/ TickRefund(p) \/ TickEnd(p)
      PROVE  ImplementedOutbox!Next
<2>1. UNCHANGED <<status, jobs, accepted, unheard>>
  BY <1>5 DEF TickSelectRetries, TickSelectScheduled, TickReserve, TickRefund, TickEnd
<2> QED
  BY <1>0, <2>1, SendersGoOn
<1> QED
  BY <1>1, <1>2, <1>3, <1>4, <1>5 DEF TickStep

\* A job takes its row through an attempt.
LEMMA JobRefines ==
  ASSUME ~EarlyAccess, IInv, IInv', NEW j \in jobs, JobStep(j)
  PROVE  ImplementedOutbox!Next
<1> USE DEF row, tick, history
<1>0. TypeOK /\ SendLock /\ SendLock'
  BY DEF IInv
<1>1. CASE JobRead(j)
<2>1. UNCHANGED <<status, accepted, unheard>> /\ Working(j)
  BY <1>1 DEF JobRead, Working
<2>2. CASE jobs' = jobs \ {j}
  BY <1>0, <2>1, <2>2, SendersGoOn
<2>3. ASSUME NEW m, jobs' = (jobs \ {j}) \cup {m}, m.email = j.email, m.stage = "calling"
      PROVE  ImplementedOutbox!Next
  BY <1>0, <1>1, <2>1, <2>3, SendersGoOn DEF JobRead
<2> QED
  BY <1>0, <1>1, <2>2, <2>3, ReadFacts
<1>2. CASE EngineTakes(j)
<2>1. PICK m : jobs' = (jobs \ {j}) \cup {m} /\ m.email = j.email /\ m.stage = "taken"
  BY <1>0, <1>2, MoveFacts DEF EngineTakes, Stages
<2>2. UNCHANGED <<status, unheard>> /\ Working(j) /\ j.stage = "calling"
      /\ accepted' = [accepted EXCEPT ![j.email] = @ + 1]
  BY <1>2 DEF EngineTakes, Working
<2>3. ImplementedOutbox!HandOver(j.email) /\ j.email \in Emails
  BY <1>0, <2>1, <2>2, SenderMoves DEF ImplementedOutbox!HandOver
<2> QED
  BY <2>3 DEF ImplementedOutbox!Next, ImplementedOutbox!Step
<1>3. CASE EngineConfirms(j)
<2>1. PICK m : jobs' = (jobs \ {j}) \cup {m} /\ m.email = j.email /\ m.stage = "ok"
  BY <1>0, <1>3, MoveFacts DEF EngineConfirms, Stages
<2> QED
  BY <1>0, <1>3, <2>1, SendersGoOn DEF EngineConfirms, Working
<1>4. ASSUME NEW kind \in {"hard", "soft"}, EngineFails(j, kind) PROVE ImplementedOutbox!Next
<2>1. PICK m : jobs' = (jobs \ {j}) \cup {m} /\ m.email = j.email /\ m.stage = kind
  BY <1>0, <1>4, MoveFacts DEF EngineFails, Stages
<2>2. CASE j.stage = "calling"
  BY <1>0, <1>4, <2>1, <2>2, SendersGoOn DEF EngineFails, Working
<2>3. CASE j.stage = "taken"
  <3>1. UNCHANGED <<status, accepted>> /\ Working(j) /\ unheard' = [unheard EXCEPT ![j.email] = @ + 1]
    BY <1>4, <2>3 DEF EngineFails, Working
  <3>2. ImplementedOutbox!LoseAnswer(j.email) /\ j.email \in Emails
    BY <1>0, <2>1, <2>3, <3>1, SenderMoves DEF ImplementedOutbox!LoseAnswer
  <3> QED
    BY <3>2 DEF ImplementedOutbox!Next, ImplementedOutbox!Step
<2> QED
  BY <1>4, <2>2, <2>3 DEF EngineFails
<1>5. CASE JobSucceeds(j)
<2>1. j.stage = "ok" /\ Working(j) /\ jobs' = jobs \ {j} /\ UNCHANGED <<accepted, unheard>>
  BY <1>5 DEF JobSucceeds, Working
<2>2. CASE Exists(j.email)
  <3>1. status[j.email] = "sending" /\ status' = [status EXCEPT ![j.email] = "sent"]
    BY <1>0, <1>5, <2>1, <2>2 DEF JobSucceeds, SendLock, Exists
  <3>2. ImplementedOutbox!Succeed(j.email) /\ j.email \in Emails
    BY <1>0, <2>1, <3>1, SenderEnds DEF ImplementedOutbox!Succeed
  <3> QED
    BY <3>2 DEF ImplementedOutbox!Next, ImplementedOutbox!Step
<2>3. CASE ~Exists(j.email)
  BY <1>0, <1>5, <2>1, <2>3, SendersGoOn DEF JobSucceeds
<2> QED
  BY <2>2, <2>3
<1>6. CASE JobFails(j)
<2>1. j.stage \in {"hard", "soft"} /\ Working(j) /\ UNCHANGED <<accepted, unheard>>
  BY <1>6 DEF JobFails, Working
<2>2. /\ \A k \in jobs' : Working(k) <=> k \in jobs /\ k # j /\ Working(k)
      /\ \A k \in jobs \ {j} : k \in jobs'
  <3>1. CASE jobs' = jobs \ {j}
    BY <3>1
  <3>2. CASE MoveJob(j, "refund")
    <4>1. PICK m : jobs' = (jobs \ {j}) \cup {m} /\ m.stage = "refund"
      BY <1>0, <3>2, MoveFacts DEF Stages
    <4> QED
      BY <2>1, <4>1 DEF Working
  <3> QED
    BY <1>6, <3>1, <3>2 DEF JobFails, FailureEnds
<2>3. CASE Exists(j.email)
  <3>1. status[j.email] = "sending" /\ status' = [status EXCEPT ![j.email] = FinalState(j)]
    BY <1>0, <1>6, <2>1, <2>3 DEF JobFails, SendLock, Exists
  <3>2. FinalState(j) \in {"failed", "rate_limited"}
    BY DEF FinalState
  <3>3. ImplementedOutbox!Fail(j.email) /\ j.email \in Emails
    BY <1>0, <2>1, <2>2, <3>1, <3>2, SenderEnds DEF ImplementedOutbox!Fail
  <3> QED
    BY <3>3 DEF ImplementedOutbox!Next, ImplementedOutbox!Step
<2>4. CASE ~Exists(j.email)
  BY <1>0, <1>6, <2>1, <2>2, <2>4, SendersGoOn DEF JobFails
<2> QED
  BY <2>3, <2>4
<1>7. CASE JobRefunds(j)
  BY <1>0, <1>7, SendersGoOn DEF JobRefunds
<1>8. CASE JobThrows(j)
<2>1. PICK m : jobs' = (jobs \ {j}) \cup {m} /\ m.stage = "refund"
  BY <1>0, <1>8, MoveFacts DEF JobThrows, Stages
<2> QED
  BY <1>0, <1>8, <2>1, SendersGoOn DEF JobThrows, Working
<1> QED
  BY <1>1, <1>2, <1>3, <1>4, <1>5, <1>6, <1>7, <1>8 DEF JobStep

\* Every step of the pipeline is one of Outbox, or none.
LEMMA StepRefines ==
  ASSUME ~EarlyAccess, IInv, IInv', [Next]_vars
  PROVE  [ImplementedOutbox!Next]_(ImplementedOutbox!vars)
<1> USE DEF row, tick, history
<1>0. TypeOK /\ SendLock /\ SendLock'
  BY DEF IInv
<1>1. ASSUME NEW e \in Emails, Purge(e) PROVE ImplementedOutbox!Next
  BY <1>0, <1>1, RowMoves DEF Purge, Reachable, Exists
<1>2. CASE WindowRolls \/ UNCHANGED vars \/ \E e \in Emails : Ages(e) \/ ScheduleElapses(e)
<2>1. UNCHANGED <<status, jobs, accepted, unheard>>
  BY <1>2 DEF WindowRolls, vars, Ages, ScheduleElapses
<2> QED
  BY <1>0, <2>1, SendersGoOn
<1>3. ASSUME NEW p \in Procs, Crash(p) PROVE ImplementedOutbox!Next
  BY <1>0, <1>3, SendersGoOn DEF Crash
<1> QED
  BY <1>1, <1>2, <1>3, ComposeRefines, OthersRefine, JobRefines DEF Next

LEMMA InitRefines == Init => ImplementedOutbox!Init
<1> SUFFICES ASSUME Init PROVE ImplementedOutbox!Init
  OBVIOUS
<1>1. \A e \in Emails : Phase(e) = "none"
  BY DEF Init, Phase
<1> QED
  BY <1>1 DEF Init, ImplementedOutbox!Init

\* However compose, dispatch requests, ticks, jobs and crashes interleave, the rows go
\* through the state machine drawn above EmailSender, one sender at a time.
THEOREM RefinesOutbox ==
  ASSUME ~EarlyAccess
  PROVE  Spec => ImplementsOutbox
<1>1. Init => ImplementedOutbox!Init
  BY InitRefines
<1>2. IInv /\ IInv' /\ [Next]_vars => [ImplementedOutbox!Next]_(ImplementedOutbox!vars)
  BY StepRefines
<1>3. Spec => []IInv
  BY Invariant
<1> QED
  BY <1>1, <1>2, <1>3, PTL DEF Spec, ImplementsOutbox, ImplementedOutbox!Spec

\* An email shown as sent is never claimed, retried or given up again: only a delete
\* changes its row.
THEOREM SentCorrect ==
  ASSUME ~EarlyAccess
  PROVE  Spec => SentIsFinal
<1>1. ASSUME IInv, IInv', [Next]_vars
      PROVE  [\A e \in Emails : status[e] = "sent" => status'[e] \in {"sent", "purged"}]_vars
<2>1. [ImplementedOutbox!Next]_(ImplementedOutbox!vars)
  BY <1>1, StepRefines
<2>2. ASSUME NEW e \in Emails, ImplementedOutbox!Step(e), NEW f \in Emails, status[f] = "sent"
      PROVE  status'[f] \in {"sent", "purged"}
  BY <1>1, <2>2 DEF IInv, TypeOK, ImplementedOutbox!Step, ImplementedOutbox!Compose, ImplementedOutbox!Postpone,
       ImplementedOutbox!Begin, ImplementedOutbox!BeginInVain, ImplementedOutbox!HandOver,
       ImplementedOutbox!LoseAnswer, ImplementedOutbox!Succeed, ImplementedOutbox!Fail,
       ImplementedOutbox!Delete, ImplementedOutbox!Startable
<2>3. ASSUME NEW S \in SUBSET Emails, ImplementedOutbox!Abandon(S) PROVE UNCHANGED status
  BY <2>3 DEF ImplementedOutbox!Abandon
<2>4. ImplementedOutbox!vars' = ImplementedOutbox!vars => UNCHANGED status
  BY DEF ImplementedOutbox!vars
<2> QED
  BY <2>1, <2>2, <2>3, <2>4 DEF ImplementedOutbox!Next
<1>2. Spec => []IInv
  BY Invariant
<1> QED
  BY <1>1, <1>2, PTL DEF Spec, SentIsFinal

-----------------------------------------------------------------------------
(* The slot accounts *)

\* A finite set that gains, loses or exchanges one element.
LEMMA OneMore ==
  ASSUME NEW S, IsFiniteSet(S), NEW x, x \notin S
  PROVE  IsFiniteSet(S \cup {x}) /\ Cardinality(S \cup {x}) = Cardinality(S) + 1
  BY FS_AddElement

LEMMA OneLess ==
  ASSUME NEW S, IsFiniteSet(S), NEW x \in S
  PROVE  IsFiniteSet(S \ {x}) /\ Cardinality(S \ {x}) = Cardinality(S) - 1
  BY FS_RemoveElement

LEMMA OneMoved ==
  ASSUME NEW S, IsFiniteSet(S), NEW x \in S, NEW y, y \notin S \ {x}
  PROVE  IsFiniteSet((S \ {x}) \cup {y}) /\ Cardinality((S \ {x}) \cup {y}) = Cardinality(S)
<1>1. IsFiniteSet(S \ {x}) /\ Cardinality(S \ {x}) = Cardinality(S) - 1
  BY OneLess
<1>2. IsFiniteSet((S \ {x}) \cup {y}) /\ Cardinality((S \ {x}) \cup {y}) = Cardinality(S \ {x}) + 1
  BY <1>1, OneMore
<1>3. Cardinality(S) \in Nat
  BY FS_CardinalityType
<1> QED
  BY <1>1, <1>2, <1>3

\* A part of a finite set leaves: what remains is the rest.
LEMMA PartLeaves ==
  ASSUME NEW S, IsFiniteSet(S), NEW T \in SUBSET S
  PROVE  /\ IsFiniteSet(S \ T) /\ Cardinality(S \ T) = Cardinality(S) - Cardinality(T)
         /\ Cardinality(T) \in Nat
<1>1. S \cap T = T /\ IsFiniteSet(T)
  BY FS_Subset
<1> QED
  BY <1>1, FS_Difference, FS_CardinalityType

\* Every request, tick and job runs in one of the processes.
LEMMA HoldersRun ==
  ASSUME TypeOK
  PROVE  /\ Dispatching(Procs) = dispatch
         /\ Sending(Procs) = jobs
         /\ Composing(Procs) = {e \in Emails : compose[e].pc \in {"allowed", "claiming"}}
<1>1. \A d \in dispatch : d.proc \in Procs
  BY DEF TypeOK
<1>2. \A j \in jobs : j.proc \in Procs
  BY DEF TypeOK, JobRecord
<1>3. \A e \in Emails : compose[e].proc \in Procs
  BY DEF TypeOK
<1> QED
  BY <1>1, <1>2, <1>3 DEF Dispatching, Sending, Composing

\* The sets whose sizes add up to the slots held.
ComposingRows == {e \in Emails : compose[e].pc \in {"allowed", "claiming"}}

LEMMA HeldSum ==
  ASSUME TypeOK
  PROVE  /\ HeldSlots(Procs) = Cardinality(ComposingRows) + Cardinality(dispatch)
                               + Cardinality(Ticking(Procs)) + Cardinality(jobs)
         /\ FinitelyHeld <=> /\ IsFiniteSet(ComposingRows) /\ IsFiniteSet(dispatch)
                             /\ IsFiniteSet(Ticking(Procs)) /\ IsFiniteSet(jobs)
  BY HoldersRun DEF HeldSlots, ComposingRows, FinitelyHeld

LEMMA HeldSizes ==
  ASSUME FinitelyHeld, TypeOK
  PROVE  /\ Cardinality(ComposingRows) \in Nat /\ Cardinality(dispatch) \in Nat
         /\ Cardinality(Ticking(Procs)) \in Nat /\ Cardinality(jobs) \in Nat
         /\ HeldSlots(Procs) \in Nat
  BY HeldSum, FS_CardinalityType

\* Who holds slots: the four sets before and after a step of the pipeline.
HeldBy(C, D, T, J) ==
  /\ IsFiniteSet(C) /\ IsFiniteSet(D) /\ IsFiniteSet(T) /\ IsFiniteSet(J)
  /\ ComposingRows' = C /\ dispatch' = D /\ Ticking(Procs)' = T /\ jobs' = J

\* The slots held after a step, from the sizes of those sets.
LEMMA HeldAfter ==
  ASSUME TypeOK', NEW C, NEW D, NEW T, NEW J, HeldBy(C, D, T, J)
  PROVE  /\ FinitelyHeld'
         /\ HeldSlots(Procs)' = Cardinality(C) + Cardinality(D) + Cardinality(T) + Cardinality(J)
         /\ Cardinality(C) \in Nat /\ Cardinality(D) \in Nat
         /\ Cardinality(T) \in Nat /\ Cardinality(J) \in Nat
<1>1. /\ Cardinality(C) \in Nat /\ Cardinality(D) \in Nat
      /\ Cardinality(T) \in Nat /\ Cardinality(J) \in Nat
  BY FS_CardinalityType DEF HeldBy
<1>2. /\ Dispatching(Procs)' = dispatch'
      /\ Sending(Procs)' = jobs'
      /\ Composing(Procs)' = ComposingRows'
  <2>1. \A d \in dispatch' : d.proc \in Procs
    BY DEF TypeOK
  <2>2. \A j \in jobs' : j.proc \in Procs
    BY DEF TypeOK, JobRecord
  <2>3. \A e \in Emails : compose'[e].proc \in Procs
    BY DEF TypeOK
  <2> QED
    BY <2>1, <2>2, <2>3 DEF Dispatching, Sending, Composing, ComposingRows
<1> QED
  BY <1>1, <1>2 DEF HeldBy, HeldSlots, FinitelyHeld

\* The five ways in which a step moves the accounts.
LEMMA AccountsMove ==
  ASSUME TypeOK, SlotsAccounted, FinitelyHeld, HeldSlots(Procs)' \in Nat,
         \/ HeldSlots(Procs)' = HeldSlots(Procs) /\ UNCHANGED <<used, spent, lost>>
         \/ HeldSlots(Procs)' = HeldSlots(Procs) + 1 /\ Reserve /\ UNCHANGED <<spent, lost>>
         \/ HeldSlots(Procs)' = HeldSlots(Procs) - 1 /\ Refund /\ UNCHANGED <<spent, lost>>
         \/ HeldSlots(Procs)' = HeldSlots(Procs) - 1 /\ Spend /\ UNCHANGED <<used, lost>>
         \/ \E n \in Nat : HeldSlots(Procs)' = HeldSlots(Procs) - n /\ Lose(n) /\ UNCHANGED <<used, spent>>
  PROVE  SlotsAccounted'
<1>1. HeldSlots(Procs) \in Nat
  BY HeldSizes
<1>2. /\ used \in Nat /\ spent \in Nat /\ lost \in Nat /\ Budget \in Nat
      /\ used <= Budget /\ lost <= Budget /\ used <= spent + lost + HeldSlots(Procs)
  BY ParametersAssumption DEF TypeOK, SlotsAccounted
<1>3. CASE HeldSlots(Procs)' = HeldSlots(Procs) /\ UNCHANGED <<used, spent, lost>>
  BY <1>2, <1>3 DEF SlotsAccounted
<1>4. CASE HeldSlots(Procs)' = HeldSlots(Procs) + 1 /\ Reserve /\ UNCHANGED <<spent, lost>>
  BY <1>1, <1>2, <1>4 DEF SlotsAccounted, Reserve
<1>5. CASE HeldSlots(Procs)' = HeldSlots(Procs) - 1 /\ Refund /\ UNCHANGED <<spent, lost>>
  BY <1>1, <1>2, <1>5 DEF SlotsAccounted, Refund
<1>6. CASE HeldSlots(Procs)' = HeldSlots(Procs) - 1 /\ Spend /\ UNCHANGED <<used, lost>>
  BY <1>1, <1>2, <1>6 DEF SlotsAccounted, Spend
<1>7. CASE \E n \in Nat : HeldSlots(Procs)' = HeldSlots(Procs) - n /\ Lose(n) /\ UNCHANGED <<used, spent>>
  <2>1. PICK n \in Nat : HeldSlots(Procs)' = HeldSlots(Procs) - n /\ Lose(n) /\ UNCHANGED <<used, spent>>
    BY <1>7
  <2> QED
    BY <1>1, <1>2, <2>1 DEF SlotsAccounted, Lose
<1> QED
  BY <1>3, <1>4, <1>5, <1>6, <1>7

\* A step that leaves the holders and the counters alone.
LEMMA AccountsRest ==
  ASSUME TypeOK, TypeOK', FinitelyHeld, SlotsAccounted,
         ComposingRows' = ComposingRows, Ticking(Procs)' = Ticking(Procs),
         UNCHANGED <<dispatch, jobs, used, spent, lost>>
  PROVE  FinitelyHeld' /\ SlotsAccounted'
<1>1. HeldBy(ComposingRows, dispatch, Ticking(Procs), jobs)
  BY HeldSum DEF HeldBy
<1>2. FinitelyHeld' /\ HeldSlots(Procs)' = HeldSlots(Procs) /\ HeldSlots(Procs)' \in Nat
  BY <1>1, HeldAfter, HeldSum
<1> QED
  BY <1>2, AccountsMove

\* The same when a job only moves to another stage.
LEMMA JobMoves ==
  ASSUME TypeOK, TypeOK', FinitelyHeld, SlotsAccounted, NEW j \in jobs, NEW k, k \notin jobs \ {j},
         jobs' = (jobs \ {j}) \cup {k},
         ComposingRows' = ComposingRows, Ticking(Procs)' = Ticking(Procs),
         UNCHANGED <<dispatch, used, spent, lost>>
  PROVE  FinitelyHeld' /\ SlotsAccounted'
<1>1. IsFiniteSet((jobs \ {j}) \cup {k}) /\ Cardinality((jobs \ {j}) \cup {k}) = Cardinality(jobs)
  BY OneMoved DEF FinitelyHeld
<1>2. HeldBy(ComposingRows, dispatch, Ticking(Procs), (jobs \ {j}) \cup {k})
  BY <1>1, HeldSum DEF HeldBy
<1>3. FinitelyHeld' /\ HeldSlots(Procs)' = HeldSlots(Procs) /\ HeldSlots(Procs)' \in Nat
  BY <1>1, <1>2, HeldAfter, HeldSum
<1> QED
  BY <1>3, AccountsMove

\* A job that ends gives back, spends or loses its slot.
LEMMA JobEnds ==
  ASSUME TypeOK, TypeOK', FinitelyHeld, SlotsAccounted, NEW j \in jobs, jobs' = jobs \ {j},
         ComposingRows' = ComposingRows, Ticking(Procs)' = Ticking(Procs), UNCHANGED dispatch,
         \/ Refund /\ UNCHANGED <<spent, lost>>
         \/ Spend /\ UNCHANGED <<used, lost>>
         \/ Lose(1) /\ UNCHANGED <<used, spent>>
  PROVE  FinitelyHeld' /\ SlotsAccounted'
<1>1. IsFiniteSet(jobs \ {j}) /\ Cardinality(jobs \ {j}) = Cardinality(jobs) - 1
  BY OneLess DEF FinitelyHeld
<1>2. HeldBy(ComposingRows, dispatch, Ticking(Procs), jobs \ {j})
  BY <1>1, HeldSum DEF HeldBy
<1>3. FinitelyHeld' /\ HeldSlots(Procs)' = HeldSlots(Procs) - 1 /\ HeldSlots(Procs)' \in Nat
  BY <1>1, <1>2, HeldAfter, HeldSum, HeldSizes
<1> QED
  BY <1>3, AccountsMove

\* A compose request reserves, loses or passes on its slot.
LEMMA ComposeAccounts ==
  ASSUME TypeOK, TypeOK', FinitelyHeld, SlotsAccounted, NEW e \in Emails,
         Ticking(Procs)' = Ticking(Procs), UNCHANGED <<dispatch, spent>>,
         \/ /\ e \notin ComposingRows /\ ComposingRows' = ComposingRows \cup {e}
            /\ Reserve /\ UNCHANGED <<jobs, lost>>
         \/ /\ e \in ComposingRows /\ ComposingRows' = ComposingRows \ {e}
            /\ \/ Lose(1) /\ UNCHANGED <<jobs, used>>
               \/ /\ \E k : k \notin jobs /\ jobs' = jobs \cup {k}
                  /\ UNCHANGED <<used, lost>>
  PROVE  FinitelyHeld' /\ SlotsAccounted'
<1>1. /\ IsFiniteSet(ComposingRows) /\ IsFiniteSet(jobs)
      /\ IsFiniteSet(dispatch) /\ IsFiniteSet(Ticking(Procs))
  BY HeldSum
<1>2. CASE e \notin ComposingRows /\ ComposingRows' = ComposingRows \cup {e} /\ Reserve /\ UNCHANGED <<jobs, lost>>
  <2>1. IsFiniteSet(ComposingRows \cup {e}) /\ Cardinality(ComposingRows \cup {e}) = Cardinality(ComposingRows) + 1
    BY <1>1, <1>2, OneMore
  <2>2. HeldBy(ComposingRows \cup {e}, dispatch, Ticking(Procs), jobs)
    BY <1>1, <1>2, <2>1 DEF HeldBy
  <2>3. FinitelyHeld' /\ HeldSlots(Procs)' = HeldSlots(Procs) + 1 /\ HeldSlots(Procs)' \in Nat
    BY <2>1, <2>2, HeldAfter, HeldSum, HeldSizes
  <2> QED
    BY <1>2, <2>3, AccountsMove
<1>3. CASE e \in ComposingRows /\ ComposingRows' = ComposingRows \ {e} /\ Lose(1) /\ UNCHANGED <<jobs, used>>
  <2>1. IsFiniteSet(ComposingRows \ {e}) /\ Cardinality(ComposingRows \ {e}) = Cardinality(ComposingRows) - 1
    BY <1>1, <1>3, OneLess
  <2>2. HeldBy(ComposingRows \ {e}, dispatch, Ticking(Procs), jobs)
    BY <1>1, <1>3, <2>1 DEF HeldBy
  <2>3. FinitelyHeld' /\ HeldSlots(Procs)' = HeldSlots(Procs) - 1 /\ HeldSlots(Procs)' \in Nat
    BY <2>1, <2>2, HeldAfter, HeldSum, HeldSizes
  <2> QED
    BY <1>3, <2>3, AccountsMove
<1>4. CASE /\ e \in ComposingRows /\ ComposingRows' = ComposingRows \ {e}
           /\ \E k : k \notin jobs /\ jobs' = jobs \cup {k}
           /\ UNCHANGED <<used, lost>>
  <2>1. PICK k : k \notin jobs /\ jobs' = jobs \cup {k}
    BY <1>4
  <2>2. IsFiniteSet(ComposingRows \ {e}) /\ Cardinality(ComposingRows \ {e}) = Cardinality(ComposingRows) - 1
    BY <1>1, <1>4, OneLess
  <2>3. IsFiniteSet(jobs \cup {k}) /\ Cardinality(jobs \cup {k}) = Cardinality(jobs) + 1
    BY <1>1, <2>1, OneMore
  <2>4. HeldBy(ComposingRows \ {e}, dispatch, Ticking(Procs), jobs \cup {k})
    BY <1>1, <1>4, <2>1, <2>2, <2>3 DEF HeldBy
  <2>5. FinitelyHeld' /\ HeldSlots(Procs)' = HeldSlots(Procs) /\ HeldSlots(Procs)' \in Nat
    BY <2>2, <2>3, <2>4, HeldAfter, HeldSum, HeldSizes
  <2> QED
    BY <1>4, <2>5, AccountsMove
<1> QED
  BY <1>2, <1>3, <1>4

\* So does a dispatch request.
LEMMA DispatchAccounts ==
  ASSUME TypeOK, TypeOK', FinitelyHeld, SlotsAccounted, NEW d,
         ComposingRows' = ComposingRows, Ticking(Procs)' = Ticking(Procs), UNCHANGED spent,
         \/ /\ d \notin dispatch /\ dispatch' = dispatch \cup {d}
            /\ Reserve /\ UNCHANGED <<jobs, lost>>
         \/ /\ d \in dispatch /\ dispatch' = dispatch \ {d}
            /\ \/ Lose(1) /\ UNCHANGED <<jobs, used>>
               \/ /\ \E k : k \notin jobs /\ jobs' = jobs \cup {k}
                  /\ UNCHANGED <<used, lost>>
  PROVE  FinitelyHeld' /\ SlotsAccounted'
<1>1. /\ IsFiniteSet(ComposingRows) /\ IsFiniteSet(jobs)
      /\ IsFiniteSet(dispatch) /\ IsFiniteSet(Ticking(Procs))
  BY HeldSum
<1>2. CASE d \notin dispatch /\ dispatch' = dispatch \cup {d} /\ Reserve /\ UNCHANGED <<jobs, lost>>
  <2>1. IsFiniteSet(dispatch \cup {d}) /\ Cardinality(dispatch \cup {d}) = Cardinality(dispatch) + 1
    BY <1>1, <1>2, OneMore
  <2>2. HeldBy(ComposingRows, dispatch \cup {d}, Ticking(Procs), jobs)
    BY <1>1, <1>2, <2>1 DEF HeldBy
  <2>3. FinitelyHeld' /\ HeldSlots(Procs)' = HeldSlots(Procs) + 1 /\ HeldSlots(Procs)' \in Nat
    BY <2>1, <2>2, HeldAfter, HeldSum, HeldSizes
  <2> QED
    BY <1>2, <2>3, AccountsMove
<1>3. CASE d \in dispatch /\ dispatch' = dispatch \ {d} /\ Lose(1) /\ UNCHANGED <<jobs, used>>
  <2>1. IsFiniteSet(dispatch \ {d}) /\ Cardinality(dispatch \ {d}) = Cardinality(dispatch) - 1
    BY <1>1, <1>3, OneLess
  <2>2. HeldBy(ComposingRows, dispatch \ {d}, Ticking(Procs), jobs)
    BY <1>1, <1>3, <2>1 DEF HeldBy
  <2>3. FinitelyHeld' /\ HeldSlots(Procs)' = HeldSlots(Procs) - 1 /\ HeldSlots(Procs)' \in Nat
    BY <2>1, <2>2, HeldAfter, HeldSum, HeldSizes
  <2> QED
    BY <1>3, <2>3, AccountsMove
<1>4. CASE /\ d \in dispatch /\ dispatch' = dispatch \ {d}
           /\ \E k : k \notin jobs /\ jobs' = jobs \cup {k}
           /\ UNCHANGED <<used, lost>>
  <2>1. PICK k : k \notin jobs /\ jobs' = jobs \cup {k}
    BY <1>4
  <2>2. IsFiniteSet(dispatch \ {d}) /\ Cardinality(dispatch \ {d}) = Cardinality(dispatch) - 1
    BY <1>1, <1>4, OneLess
  <2>3. IsFiniteSet(jobs \cup {k}) /\ Cardinality(jobs \cup {k}) = Cardinality(jobs) + 1
    BY <1>1, <2>1, OneMore
  <2>4. HeldBy(ComposingRows, dispatch \ {d}, Ticking(Procs), jobs \cup {k})
    BY <1>1, <1>4, <2>1, <2>2, <2>3 DEF HeldBy
  <2>5. FinitelyHeld' /\ HeldSlots(Procs)' = HeldSlots(Procs) /\ HeldSlots(Procs)' \in Nat
    BY <2>2, <2>3, <2>4, HeldAfter, HeldSum, HeldSizes
  <2> QED
    BY <1>4, <2>5, AccountsMove
<1> QED
  BY <1>2, <1>3, <1>4

\* So does a tick, which alone returns the slot when it loses the claim.
LEMMA TickAccounts ==
  ASSUME TypeOK, TypeOK', FinitelyHeld, SlotsAccounted, NEW p \in Procs,
         ComposingRows' = ComposingRows, UNCHANGED <<dispatch, spent>>,
         \/ /\ p \notin Ticking(Procs) /\ Ticking(Procs)' = Ticking(Procs) \cup {p}
            /\ Reserve /\ UNCHANGED <<jobs, lost>>
         \/ /\ p \in Ticking(Procs) /\ Ticking(Procs)' = Ticking(Procs) \ {p}
            /\ \/ Refund /\ UNCHANGED <<jobs, lost>>
               \/ Lose(1) /\ UNCHANGED <<jobs, used>>
               \/ /\ \E k : k \notin jobs /\ jobs' = jobs \cup {k}
                  /\ UNCHANGED <<used, lost>>
  PROVE  FinitelyHeld' /\ SlotsAccounted'
<1>1. /\ IsFiniteSet(ComposingRows) /\ IsFiniteSet(jobs)
      /\ IsFiniteSet(dispatch) /\ IsFiniteSet(Ticking(Procs))
  BY HeldSum
<1>2. CASE /\ p \notin Ticking(Procs) /\ Ticking(Procs)' = Ticking(Procs) \cup {p}
           /\ Reserve /\ UNCHANGED <<jobs, lost>>
  <2>1. IsFiniteSet(Ticking(Procs) \cup {p}) /\ Cardinality(Ticking(Procs) \cup {p}) = Cardinality(Ticking(Procs)) + 1
    BY <1>1, <1>2, OneMore
  <2>2. HeldBy(ComposingRows, dispatch, Ticking(Procs) \cup {p}, jobs)
    BY <1>1, <1>2, <2>1 DEF HeldBy
  <2>3. FinitelyHeld' /\ HeldSlots(Procs)' = HeldSlots(Procs) + 1 /\ HeldSlots(Procs)' \in Nat
    BY <2>1, <2>2, HeldAfter, HeldSum, HeldSizes
  <2> QED
    BY <1>2, <2>3, AccountsMove
<1>3. CASE /\ p \in Ticking(Procs) /\ Ticking(Procs)' = Ticking(Procs) \ {p} /\ UNCHANGED jobs
           /\ (Refund /\ UNCHANGED lost) \/ (Lose(1) /\ UNCHANGED used)
  <2>1. IsFiniteSet(Ticking(Procs) \ {p}) /\ Cardinality(Ticking(Procs) \ {p}) = Cardinality(Ticking(Procs)) - 1
    BY <1>1, <1>3, OneLess
  <2>2. HeldBy(ComposingRows, dispatch, Ticking(Procs) \ {p}, jobs)
    BY <1>1, <1>3, <2>1 DEF HeldBy
  <2>3. FinitelyHeld' /\ HeldSlots(Procs)' = HeldSlots(Procs) - 1 /\ HeldSlots(Procs)' \in Nat
    BY <2>1, <2>2, HeldAfter, HeldSum, HeldSizes
  <2> QED
    BY <1>3, <2>3, AccountsMove
<1>4. CASE /\ p \in Ticking(Procs) /\ Ticking(Procs)' = Ticking(Procs) \ {p}
           /\ \E k : k \notin jobs /\ jobs' = jobs \cup {k}
           /\ UNCHANGED <<used, lost>>
  <2>1. PICK k : k \notin jobs /\ jobs' = jobs \cup {k}
    BY <1>4
  <2>2. IsFiniteSet(Ticking(Procs) \ {p}) /\ Cardinality(Ticking(Procs) \ {p}) = Cardinality(Ticking(Procs)) - 1
    BY <1>1, <1>4, OneLess
  <2>3. IsFiniteSet(jobs \cup {k}) /\ Cardinality(jobs \cup {k}) = Cardinality(jobs) + 1
    BY <1>1, <2>1, OneMore
  <2>4. HeldBy(ComposingRows, dispatch, Ticking(Procs) \ {p}, jobs \cup {k})
    BY <1>1, <1>4, <2>1, <2>2, <2>3 DEF HeldBy
  <2>5. FinitelyHeld' /\ HeldSlots(Procs)' = HeldSlots(Procs) /\ HeldSlots(Procs)' \in Nat
    BY <2>2, <2>3, <2>4, HeldAfter, HeldSum, HeldSizes
  <2> QED
    BY <1>4, <2>5, AccountsMove
<1> QED
  BY <1>2, <1>3, <1>4

\* Where a compose request or a tick that moves stands among the holders.
LEMMA ComposeMoves ==
  ASSUME TypeOK, NEW e \in Emails, NEW to, At(e, to)
  PROVE  /\ e \in ComposingRows <=> compose[e].pc \in {"allowed", "claiming"}
         /\ to \in {"allowed", "claiming"} => ComposingRows' = ComposingRows \cup {e}
         /\ to \notin {"allowed", "claiming"} => ComposingRows' = ComposingRows \ {e}
<1>1. \A f \in Emails : compose'[f].pc = IF f = e THEN to ELSE compose[f].pc
  BY DEF TypeOK, At
<1> QED
  BY <1>1 DEF ComposingRows

LEMMA TickMoves ==
  ASSUME TypeOK, NEW p \in Procs, NEW to, tickPc' = [tickPc EXCEPT ![p] = to]
  PROVE  /\ p \in Ticking(Procs) <=> tickPc[p] \in {"reserved", "refunding"}
         /\ to \in {"reserved", "refunding"} => Ticking(Procs)' = Ticking(Procs) \cup {p}
         /\ to \notin {"reserved", "refunding"} => Ticking(Procs)' = Ticking(Procs) \ {p}
<1>1. \A q \in Procs : tickPc'[q] = IF q = p THEN to ELSE tickPc[q]
  BY DEF TypeOK
<1> QED
  BY <1>1 DEF Ticking

\* A tick that goes on without its slot is no longer among the holders.
LEMMA TickLeaves ==
  ASSUME TypeOK, NEW p \in Procs, NEW to \in {"off", "loop"}, tickPc[p] \in {"reserved", "refunding"},
         tickPc' = [tickPc EXCEPT ![p] = to]
  PROVE  p \in Ticking(Procs) /\ Ticking(Procs)' = Ticking(Procs) \ {p}
<1>1. \A q \in Procs : tickPc'[q] = IF q = p THEN to ELSE tickPc[q]
  BY DEF TypeOK
<1> QED
  BY <1>1 DEF Ticking

\* A claim that matches starts a job that was not there: its number is new.
LEMMA ClaimIsNew ==
  ASSUME TypeOK, UniqueClaims, NEW e \in Emails, NEW p \in Procs, Claim(e, p)
  PROVE  /\ UniqueClaims'
         /\ \E k : k \notin jobs /\ jobs' = jobs \cup {k}
<1> DEFINE k == [email |-> e, n |-> attempts[e] + 1, proc |-> p, stage |-> "claimed", seen |-> 0]
<1>1. jobs' = jobs \cup {k}
  BY DEF Claim
<1>2. k.email = e /\ k.n = attempts[e] + 1 /\ attempts[e] \in Nat
  BY DEF TypeOK
<1> HIDE DEF k
<1>3. \A f \in Emails : attempts'[f] = IF f = e THEN attempts[e] + 1 ELSE attempts[f]
  BY DEF Claim, MarkSending, TypeOK
<1>4. \A j \in jobs : j.email \in Emails /\ j.n \in Nat /\ attempts[j.email] \in Nat /\ j.n \in 1..attempts[j.email]
  BY DEF TypeOK, JobRecord, UniqueClaims
<1>5. \A j \in jobs : ~(j.email = k.email /\ j.n = k.n)
  BY <1>2, <1>4
<1>6. \A j \in jobs' : j.n \in 1..attempts'[j.email]
  BY <1>1, <1>2, <1>3, <1>4
<1>7. \A i, j \in jobs' : i.email = j.email /\ i.n = j.n => i = j
  BY <1>1, <1>5 DEF UniqueClaims
<1>8. k \notin jobs
  BY <1>5
<1> QED
  BY <1>1, <1>6, <1>7, <1>8 DEF UniqueClaims

\* A job that moves to another stage answers for the same claim.
LEMMA MoveIsSame ==
  ASSUME TypeOK, UniqueClaims, NEW j \in jobs, NEW k, k.email = j.email, k.n = j.n,
         jobs' = (jobs \ {j}) \cup {k}, UNCHANGED attempts
  PROVE  UniqueClaims' /\ k \notin jobs \ {j}
  BY DEF UniqueClaims

\* Claims stay unique when jobs only end and attempt counts only grow.
LEMMA ClaimsStay ==
  ASSUME TypeOK, UniqueClaims, jobs' \subseteq jobs,
         \A e \in Emails : attempts'[e] \in Nat /\ attempts'[e] >= attempts[e]
  PROVE  UniqueClaims'
<1>1. \A j \in jobs : j.email \in Emails /\ j.n \in Nat /\ attempts[j.email] \in Nat /\ j.n \in 1..attempts[j.email]
  BY DEF TypeOK, JobRecord, UniqueClaims
<1>2. \A j \in jobs : j.n \in 1..attempts'[j.email]
  BY <1>1
<1> QED
  BY <1>2 DEF UniqueClaims

LEMMA AttemptsStay ==
  ASSUME TypeOK, UniqueClaims, jobs' \subseteq jobs, UNCHANGED attempts
  PROVE  UniqueClaims'
  BY DEF UniqueClaims

\* A claim that throws may count an attempt, and starts no job.
LEMMA ThrowClaims ==
  ASSUME TypeOK, UniqueClaims, NEW e \in Emails, ClaimThrows(e)
  PROVE  UniqueClaims' /\ UNCHANGED jobs
<1>1. UNCHANGED jobs
  BY DEF ClaimThrows
<1>2. \A f \in Emails : attempts'[f] \in Nat /\ attempts'[f] >= attempts[f]
  <2>1. CASE UNCHANGED row
    BY <2>1 DEF row, TypeOK
  <2>2. CASE MarkSending(e)
    BY <2>2 DEF MarkSending, TypeOK
  <2> QED
    BY <2>1, <2>2 DEF ClaimThrows
<1> QED
  BY <1>1, <1>2, ClaimsStay

\* A crash gives up every slot held in its process and no other.
LEMMA CrashAccounts ==
  ASSUME TypeOK, TypeOK', FinitelyHeld, SlotsAccounted, NEW p \in Procs, Crash(p)
  PROVE  FinitelyHeld' /\ SlotsAccounted'
<1>1. /\ IsFiniteSet(ComposingRows) /\ IsFiniteSet(jobs)
      /\ IsFiniteSet(dispatch) /\ IsFiniteSet(Ticking(Procs))
  BY HeldSum
<1>2. /\ Composing({p}) \in SUBSET ComposingRows
      /\ Dispatching({p}) \in SUBSET dispatch
      /\ Ticking({p}) \in SUBSET Ticking(Procs)
      /\ Sending({p}) \in SUBSET jobs
  BY DEF Composing, ComposingRows, Dispatching, Ticking, Sending
<1>3. ComposingRows' = ComposingRows \ Composing({p})
  <2>1. \A e \in Emails : compose'[e].pc = IF compose[e].pc # "new" /\ compose[e].proc = p
                                           THEN "done" ELSE compose[e].pc
    BY DEF Crash, TypeOK
  <2> QED
    BY <2>1 DEF Composing, ComposingRows
<1>4. dispatch' = dispatch \ Dispatching({p}) /\ jobs' = jobs \ Sending({p})
  BY DEF Crash, Dispatching, Sending
<1>5. Ticking(Procs)' = Ticking(Procs) \ Ticking({p})
  <2>1. \A q \in Procs : tickPc'[q] = IF q = p THEN "off" ELSE tickPc[q]
    BY DEF Crash, TypeOK
  <2> QED
    BY <2>1 DEF Ticking
<1>6. /\ IsFiniteSet(ComposingRows \ Composing({p})) /\ Cardinality(Composing({p})) \in Nat
      /\ Cardinality(ComposingRows \ Composing({p})) = Cardinality(ComposingRows) - Cardinality(Composing({p}))
  BY <1>1, <1>2, PartLeaves
<1>7. /\ IsFiniteSet(dispatch \ Dispatching({p})) /\ Cardinality(Dispatching({p})) \in Nat
      /\ Cardinality(dispatch \ Dispatching({p})) = Cardinality(dispatch) - Cardinality(Dispatching({p}))
  BY <1>1, <1>2, PartLeaves
<1>8. /\ IsFiniteSet(Ticking(Procs) \ Ticking({p})) /\ Cardinality(Ticking({p})) \in Nat
      /\ Cardinality(Ticking(Procs) \ Ticking({p})) = Cardinality(Ticking(Procs)) - Cardinality(Ticking({p}))
  BY <1>1, <1>2, PartLeaves
<1>9. /\ IsFiniteSet(jobs \ Sending({p})) /\ Cardinality(Sending({p})) \in Nat
      /\ Cardinality(jobs \ Sending({p})) = Cardinality(jobs) - Cardinality(Sending({p}))
  BY <1>1, <1>2, PartLeaves
<1>10. HeldBy(ComposingRows \ Composing({p}), dispatch \ Dispatching({p}),
              Ticking(Procs) \ Ticking({p}), jobs \ Sending({p}))
  BY <1>3, <1>4, <1>5, <1>6, <1>7, <1>8, <1>9 DEF HeldBy
<1>11. /\ HeldSlots({p}) \in Nat /\ FinitelyHeld'
       /\ HeldSlots(Procs)' = HeldSlots(Procs) - HeldSlots({p}) /\ HeldSlots(Procs)' \in Nat
  BY <1>6, <1>7, <1>8, <1>9, <1>10, HeldAfter, HeldSum, HeldSizes DEF HeldSlots
<1> QED
  BY <1>11, AccountsMove DEF Crash

\* Every step keeps the slots accounted for.
LEMMA SlotStep ==
  ASSUME TypeOK, TypeOK', UniqueClaims, FinitelyHeld, SlotsAccounted, [Next]_vars
  PROVE  UniqueClaims' /\ FinitelyHeld' /\ SlotsAccounted'
<1> DEFINE Goal == UniqueClaims' /\ FinitelyHeld' /\ SlotsAccounted'
<1> SUFFICES Goal
  OBVIOUS
<1>a. ASSUME UNCHANGED <<compose, dispatch, tickPc, jobs, used, spent, lost, attempts>> PROVE Goal
  BY <1>a, AccountsRest, AttemptsStay DEF ComposingRows, Ticking
<1>b. ASSUME NEW e \in Emails, NEW to, At(e, to), compose[e].pc \notin {"allowed", "claiming"},
             to \notin {"allowed", "claiming"},
             UNCHANGED <<dispatch, tickPc, jobs, used, spent, lost, attempts>>
      PROVE  Goal
  <2>1. ComposingRows' = ComposingRows /\ Ticking(Procs)' = Ticking(Procs)
    BY <1>b, ComposeMoves DEF Ticking
  <2> QED
    BY <1>b, <2>1, AccountsRest, AttemptsStay
<1>c. ASSUME NEW p \in Procs, NEW to, tickPc' = [tickPc EXCEPT ![p] = to],
             tickPc[p] \notin {"reserved", "refunding"}, to \notin {"reserved", "refunding"},
             UNCHANGED <<compose, dispatch, jobs, used, spent, lost, attempts>>
      PROVE  Goal
  <2>1. ComposingRows' = ComposingRows /\ Ticking(Procs)' = Ticking(Procs)
    BY <1>c, TickMoves DEF ComposingRows
  <2> QED
    BY <1>c, <2>1, AccountsRest, AttemptsStay
<1>d. ASSUME NEW j \in jobs, NEW k, k.email = j.email, k.n = j.n, jobs' = (jobs \ {j}) \cup {k},
             UNCHANGED <<compose, dispatch, tickPc, used, spent, lost, attempts>>
      PROVE  Goal
  <2>1. ComposingRows' = ComposingRows /\ Ticking(Procs)' = Ticking(Procs)
    BY <1>d DEF ComposingRows, Ticking
  <2> QED
    BY <1>d, <2>1, MoveIsSame, JobMoves
<1>e. ASSUME NEW j \in jobs, NEW stage
      PROVE  [j EXCEPT !.stage = stage].email = j.email /\ [j EXCEPT !.stage = stage].n = j.n
  BY DEF TypeOK, JobRecord
<1>f. ASSUME NEW j \in jobs, jobs' = jobs \ {j}, UNCHANGED <<compose, dispatch, tickPc, attempts>>,
             \/ Refund /\ UNCHANGED <<spent, lost>>
             \/ Spend /\ UNCHANGED <<used, lost>>
             \/ Lose(1) /\ UNCHANGED <<used, spent>>
      PROVE  Goal
  <2>1. ComposingRows' = ComposingRows /\ Ticking(Procs)' = Ticking(Procs)
    BY <1>f DEF ComposingRows, Ticking
  <2> QED
    BY <1>f, <2>1, AttemptsStay, JobEnds
<1>1. ASSUME NEW e \in Emails, ComposeDraft(e) PROVE Goal
  BY <1>1, <1>b DEF ComposeDraft, NewRow, tick, history
<1>2. ASSUME NEW e \in Emails, ComposeScheduled(e) PROVE Goal
  BY <1>2, <1>b DEF ComposeScheduled, NewRow, tick, history
<1>3. ASSUME NEW e \in Emails, ComposeReserve(e) PROVE Goal
  <2>1. CASE Reserve /\ At(e, "allowed")
    <3>1. e \notin ComposingRows /\ ComposingRows' = ComposingRows \cup {e}
      BY <1>3, <2>1, ComposeMoves DEF ComposeReserve
    <3>2. Ticking(Procs)' = Ticking(Procs) /\ UNCHANGED <<dispatch, spent, jobs, lost, attempts>>
      BY <1>3 DEF ComposeReserve, Ticking, tick, row, history
    <3> QED
      BY <2>1, <3>1, <3>2, ComposeAccounts, AttemptsStay
  <2>2. CASE UNCHANGED used /\ At(e, "blocked")
    BY <1>3, <1>b, <2>2 DEF ComposeReserve, tick, row, history
  <2> QED
    BY <1>3, <2>1, <2>2 DEF ComposeReserve
<1>4. ASSUME NEW e \in Emails, ComposeMarkScheduled(e) PROVE Goal
  BY <1>4, <1>b DEF ComposeMarkScheduled, tick, history
<1>5. ASSUME NEW e \in Emails, ComposeInsert(e) PROVE Goal
  <2>1. UNCHANGED <<dispatch, tickPc, jobs, used, spent, lost, attempts>>
    BY <1>5 DEF ComposeInsert, NewRow, tick, history
  <2>2. CASE compose[e].pc = "allowed"
    <3>1. ComposingRows' = ComposingRows
      BY <1>5, <2>2, ComposeMoves DEF ComposeInsert
    <3> QED
      BY <2>1, <3>1, AccountsRest, AttemptsStay DEF Ticking
  <2>3. CASE compose[e].pc = "blocked"
    BY <1>5, <1>b, <2>1, <2>3 DEF ComposeInsert
  <2> QED
    BY <1>5, <2>2, <2>3 DEF ComposeInsert
<1>6. ASSUME NEW e \in Emails, ComposeThrows(e) PROVE Goal
  <2>1. UNCHANGED <<dispatch, tickPc, jobs, used, spent, attempts>> /\ At(e, "done")
    BY <1>6 DEF ComposeThrows, tick, row
  <2>2. CASE compose[e].pc = "allowed"
    <3>1. e \in ComposingRows /\ ComposingRows' = ComposingRows \ {e} /\ Lose(1)
      BY <1>6, <2>1, <2>2, ComposeMoves DEF ComposeThrows
    <3> QED
      BY <2>1, <3>1, ComposeAccounts, AttemptsStay DEF Ticking
  <2>3. CASE compose[e].pc # "allowed"
    BY <1>6, <1>b, <2>1, <2>3 DEF ComposeThrows
  <2> QED BY <2>2, <2>3
<1>7. ASSUME NEW e \in Emails, ComposeMarkLimited(e) PROVE Goal
  BY <1>7, <1>b DEF ComposeMarkLimited, tick, history
<1>8. ASSUME NEW e \in Emails, ComposeClaim(e) PROVE Goal
  <2>1. e \in ComposingRows /\ ComposingRows' = ComposingRows \ {e}
    BY <1>8, ComposeMoves DEF ComposeClaim
  <2>2. Ticking(Procs)' = Ticking(Procs) /\ UNCHANGED <<dispatch, used, spent>>
    BY <1>8 DEF ComposeClaim, Ticking, tick
  <2>3. compose[e].proc \in Procs
    BY DEF TypeOK
  <2>4. CASE Claim(e, compose[e].proc) /\ UNCHANGED lost
    BY <2>1, <2>2, <2>3, <2>4, ClaimIsNew, ComposeAccounts
  <2>5. CASE UNCHANGED <<row, jobs>> /\ Lose(1)
    BY <2>1, <2>2, <2>5, AttemptsStay, ComposeAccounts DEF row
  <2> QED
    BY <1>8, <2>4, <2>5 DEF ComposeClaim, ClaimOrLose
<1>9. ASSUME NEW e \in Emails, ComposeClaimThrows(e) PROVE Goal
  <2>1. e \in ComposingRows /\ ComposingRows' = ComposingRows \ {e} /\ Lose(1)
    BY <1>9, ComposeMoves DEF ComposeClaimThrows
  <2>2. Ticking(Procs)' = Ticking(Procs) /\ UNCHANGED <<dispatch, used, spent>>
    BY <1>9 DEF ComposeClaimThrows, Ticking, tick
  <2>3. UniqueClaims' /\ UNCHANGED jobs
    BY <1>9, ThrowClaims DEF ComposeClaimThrows
  <2> QED
    BY <2>1, <2>2, <2>3, ComposeAccounts
<1>10. ASSUME NEW e \in Emails, Purge(e) \/ Ages(e) \/ ScheduleElapses(e) PROVE Goal
  BY <1>10, <1>a DEF Purge, Ages, ScheduleElapses, tick, history
<1>11. ASSUME NEW r \in Requests, NEW e \in Emails, NEW p \in Procs, DispatchReserve(r, e, p) PROVE Goal
  <2> DEFINE d == [id |-> r, email |-> e, proc |-> p]
  <2>1. d \notin dispatch /\ dispatch' = dispatch \cup {d} /\ Reserve
    BY <1>11 DEF DispatchReserve
  <2>2. /\ ComposingRows' = ComposingRows /\ Ticking(Procs)' = Ticking(Procs)
        /\ UNCHANGED <<spent, jobs, lost, attempts>>
    BY <1>11 DEF DispatchReserve, ComposingRows, Ticking, tick, row, history
  <2> HIDE DEF d
  <2> QED
    BY <2>1, <2>2, DispatchAccounts, AttemptsStay
<1>12. ASSUME NEW d \in dispatch, DispatchClaim(d) PROVE Goal
  <2>1. /\ ComposingRows' = ComposingRows /\ Ticking(Procs)' = Ticking(Procs)
        /\ dispatch' = dispatch \ {d} /\ UNCHANGED <<used, spent>>
    BY <1>12 DEF DispatchClaim, ComposingRows, Ticking, tick
  <2>2. d.email \in Emails /\ d.proc \in Procs
    BY DEF TypeOK
  <2>3. CASE Claim(d.email, d.proc) /\ UNCHANGED lost
    BY <2>1, <2>2, <2>3, ClaimIsNew, DispatchAccounts
  <2>4. CASE UNCHANGED <<row, jobs>> /\ Lose(1)
    BY <2>1, <2>4, AttemptsStay, DispatchAccounts DEF row
  <2> QED
    BY <1>12, <2>3, <2>4 DEF DispatchClaim, ClaimOrLose
<1>13. ASSUME NEW d \in dispatch, DispatchClaimThrows(d) PROVE Goal
  <2>1. /\ ComposingRows' = ComposingRows /\ Ticking(Procs)' = Ticking(Procs)
        /\ dispatch' = dispatch \ {d} /\ UNCHANGED <<used, spent>> /\ Lose(1)
    BY <1>13 DEF DispatchClaimThrows, ComposingRows, Ticking, tick
  <2>2. d.email \in Emails
    BY DEF TypeOK
  <2>3. UniqueClaims' /\ UNCHANGED jobs
    BY <1>13, <2>2, ThrowClaims DEF DispatchClaimThrows
  <2> QED
    BY <2>1, <2>3, DispatchAccounts
<1>14. ASSUME NEW p \in Procs, TickSelectRetries(p) PROVE Goal
  <2>1. tickPc[p] = "off" /\ tickPc' = [tickPc EXCEPT ![p] = "selecting"]
    BY <1>14 DEF TickSelectRetries
  <2>2. UNCHANGED <<compose, dispatch, jobs, used, spent, lost, attempts>>
    BY <1>14 DEF TickSelectRetries, row, history
  <2> QED
    BY <1>c, <2>1, <2>2
<1>15. ASSUME NEW p \in Procs, TickSelectScheduled(p) PROVE Goal
  <2>1. tickPc[p] = "selecting" /\ tickPc' = [tickPc EXCEPT ![p] = "loop"]
    BY <1>15 DEF TickSelectScheduled
  <2>2. UNCHANGED <<compose, dispatch, jobs, used, spent, lost, attempts>>
    BY <1>15 DEF TickSelectScheduled, row, history
  <2> QED
    BY <1>c, <2>1, <2>2
<1>16. ASSUME NEW p \in Procs, TickReserve(p) PROVE Goal
  <2>1. UNCHANGED <<compose, dispatch, jobs, spent, lost, attempts>> /\ tickPc[p] = "loop"
    BY <1>16 DEF TickReserve, row, history
  <2>2. CASE Reserve /\ tickPc' = [tickPc EXCEPT ![p] = "reserved"]
    <3>1. p \notin Ticking(Procs) /\ Ticking(Procs)' = Ticking(Procs) \cup {p}
      BY <2>1, <2>2, TickMoves
    <3>2. ComposingRows' = ComposingRows
      BY <2>1 DEF ComposingRows
    <3> QED
      BY <2>1, <2>2, <3>1, <3>2, TickAccounts, AttemptsStay
  <2>3. CASE UNCHANGED <<used, tickPc>>
    BY <1>a, <2>1, <2>3
  <2> QED
    BY <1>16, <2>2, <2>3 DEF TickReserve, ReservesFor
<1>17. ASSUME NEW p \in Procs, TickClaim(p) PROVE Goal
  <2>1. PICK e \in tickRow[p] :
          \/ Claim(e, p) /\ tickPc' = [tickPc EXCEPT ![p] = "loop"]
          \/ tickPc' = [tickPc EXCEPT ![p] = "refunding"] /\ UNCHANGED <<row, jobs>>
    BY <1>17 DEF TickClaim
  <2>2. /\ e \in Emails /\ ComposingRows' = ComposingRows
        /\ UNCHANGED <<dispatch, used, spent, lost>> /\ tickPc[p] = "reserved"
    BY <1>17, <2>1 DEF TypeOK, TickClaim, ComposingRows, history
  <2>3. CASE Claim(e, p) /\ tickPc' = [tickPc EXCEPT ![p] = "loop"]
    <3>1. p \in Ticking(Procs) /\ Ticking(Procs)' = Ticking(Procs) \ {p}
      BY <2>2, <2>3, TickLeaves
    <3> QED
      BY <2>2, <2>3, <3>1, ClaimIsNew, TickAccounts
  <2>4. CASE tickPc' = [tickPc EXCEPT ![p] = "refunding"] /\ UNCHANGED <<row, jobs>>
    <3>1. Ticking(Procs)' = Ticking(Procs)
      BY <2>2, <2>4, TickMoves
    <3> QED
      BY <2>2, <2>4, <3>1, AccountsRest, AttemptsStay DEF row
  <2> QED BY <2>1, <2>3, <2>4
<1>18. ASSUME NEW p \in Procs, TickRefund(p) PROVE Goal
  <2>1. p \in Ticking(Procs) /\ Ticking(Procs)' = Ticking(Procs) \ {p}
    BY <1>18, TickLeaves DEF TickRefund
  <2>2. /\ ComposingRows' = ComposingRows /\ Refund
        /\ UNCHANGED <<dispatch, jobs, spent, lost, attempts>>
    BY <1>18 DEF TickRefund, ComposingRows, row, history
  <2> QED
    BY <2>1, <2>2, TickAccounts, AttemptsStay
<1>19. ASSUME NEW p \in Procs, TickEnd(p) PROVE Goal
  <2>1. tickPc[p] = "loop" /\ tickPc' = [tickPc EXCEPT ![p] = "off"]
    BY <1>19 DEF TickEnd
  <2>2. UNCHANGED <<compose, dispatch, jobs, used, spent, lost, attempts>>
    BY <1>19 DEF TickEnd, row, history
  <2> QED
    BY <1>c, <2>1, <2>2
<1>20. ASSUME NEW p \in Procs, TickThrows(p) PROVE Goal
  <2>1. /\ tickPc' = [tickPc EXCEPT ![p] = "off"]
        /\ UNCHANGED <<compose, dispatch, used, spent>>
    BY <1>20 DEF TickThrows
  <2>2. CASE tickPc[p] = "selecting" /\ UNCHANGED <<row, jobs, lost>>
    BY <1>c, <2>1, <2>2 DEF row
  <2>3. CASE tickPc[p] = "reserved" /\ Lose(1) /\ \E e \in tickRow[p] : ClaimThrows(e)
    <3>1. PICK e \in Emails : ClaimThrows(e)
      BY <2>3 DEF TypeOK
    <3>2. UniqueClaims' /\ UNCHANGED jobs
      BY <3>1, ThrowClaims
    <3>3. p \in Ticking(Procs) /\ Ticking(Procs)' = Ticking(Procs) \ {p}
      BY <2>1, <2>3, TickLeaves
    <3>4. ComposingRows' = ComposingRows
      BY <2>1 DEF ComposingRows
    <3> QED
      BY <2>1, <2>3, <3>2, <3>3, <3>4, TickAccounts
  <2> QED
    BY <1>20, <2>2, <2>3 DEF TickThrows
<1>21. ASSUME NEW p \in Procs, Crash(p) PROVE Goal
  BY <1>21, CrashAccounts, AttemptsStay DEF Crash, row
<1>22. ASSUME NEW j \in jobs, JobRead(j) PROVE Goal
  <2>1. UNCHANGED <<compose, dispatch, tickPc, used, spent, attempts>>
    BY <1>22 DEF JobRead, tick, row
  <2>2. CASE /\ jobs' = (jobs \ {j}) \cup {[j EXCEPT !.stage = "calling", !.seen = attempts[j.email]]}
             /\ UNCHANGED lost
    <3>1. /\ [j EXCEPT !.stage = "calling", !.seen = attempts[j.email]].email = j.email
          /\ [j EXCEPT !.stage = "calling", !.seen = attempts[j.email]].n = j.n
      BY DEF TypeOK, JobRecord
    <3> QED
      BY <1>d, <2>1, <2>2, <3>1
  <2>3. CASE jobs' = jobs \ {j} /\ Lose(1)
    BY <1>f, <2>1, <2>3
  <2> QED
    BY <1>22, <2>2, <2>3 DEF JobRead
<1>23. ASSUME NEW j \in jobs, EngineTakes(j) \/ EngineConfirms(j) PROVE Goal
  BY <1>23, <1>d, <1>e DEF EngineTakes, EngineConfirms, MoveJob, tick, row, history
<1>24. ASSUME NEW j \in jobs, NEW kind, EngineFails(j, kind) PROVE Goal
  BY <1>24, <1>d, <1>e DEF EngineFails, MoveJob, tick, row
<1>25. ASSUME NEW j \in jobs, JobSucceeds(j) PROVE Goal
  BY <1>25, <1>f DEF JobSucceeds, tick
<1>26. ASSUME NEW j \in jobs, JobFails(j) PROVE Goal
  <2>1. UNCHANGED <<compose, dispatch, tickPc, used, attempts>>
    BY <1>26 DEF JobFails, tick
  <2>2. CASE jobs' = jobs \ {j} /\ ((Spend /\ UNCHANGED lost) \/ (Lose(1) /\ UNCHANGED spent))
    BY <1>f, <2>1, <2>2
  <2>3. CASE MoveJob(j, "refund") /\ UNCHANGED <<spent, lost>>
    BY <1>d, <1>e, <2>1, <2>3 DEF MoveJob
  <2> QED
    BY <1>26, <2>2, <2>3 DEF JobFails, FailureEnds
<1>27. ASSUME NEW j \in jobs, JobRefunds(j) PROVE Goal
  BY <1>27, <1>f DEF JobRefunds, tick, row, history
<1>28. ASSUME NEW j \in jobs, JobThrows(j) PROVE Goal
  BY <1>28, <1>d, <1>e DEF JobThrows, MoveJob, tick, row, history
<1>29. ASSUME WindowRolls PROVE Goal
  <2>1. /\ UNCHANGED <<dispatch, jobs, attempts>> /\ used' = 0 /\ spent' = 0 /\ lost' = 0
        /\ ComposingRows' = ComposingRows /\ Ticking(Procs)' = Ticking(Procs)
    BY <1>29 DEF WindowRolls, ComposingRows, Ticking, tick, row
  <2>2. HeldBy(ComposingRows, dispatch, Ticking(Procs), jobs)
    BY <2>1, HeldSum DEF HeldBy
  <2>3. FinitelyHeld' /\ HeldSlots(Procs)' \in Nat
    BY <2>2, HeldAfter
  <2> QED
    BY <2>1, <2>3, AttemptsStay DEF SlotsAccounted
<1>30. ASSUME UNCHANGED vars PROVE Goal
  BY <1>30, <1>a DEF vars, tick, row, history
<1> HIDE DEF Goal
<1> QED
  BY <1>1, <1>2, <1>3, <1>4, <1>5, <1>6, <1>7, <1>8, <1>9, <1>10, <1>11, <1>12, <1>13, <1>14, <1>15,
     <1>16, <1>17, <1>18, <1>19, <1>20, <1>21, <1>22, <1>23, <1>24, <1>25, <1>26, <1>27, <1>28, <1>29,
     <1>30 DEF Next, ComposeStart, ComposeStep, TickStep, JobStep

\* The slot accounts, the claims they rest on and the finiteness of the holders
\* stay in order, and the row's attempt count remembers every claim.
THEOREM SlotInvariant == Spec => []SlotInv
<1>1. Init => SlotInv
  <2> SUFFICES ASSUME Init PROVE SlotInv
    OBVIOUS
  <2>1. TypeOK
    BY InitInv DEF IInv
  <2>2. Composing(Procs) = {} /\ Ticking(Procs) = {} /\ dispatch = {} /\ jobs = {}
    <3>1. \A e \in Emails : compose[e].pc = "new"
      BY DEF Init
    <3> QED
      BY <3>1 DEF Init, Composing, Ticking
  <2>3. FinitelyHeld /\ HeldSlots(Procs) = 0
    <3>1. Dispatching(Procs) = {} /\ Sending(Procs) = {}
      BY <2>2 DEF Dispatching, Sending
    <3> QED
      BY <2>2, <3>1, FS_EmptySet DEF FinitelyHeld, HeldSlots
  <2>4. SlotsAccounted
    BY <2>1, <2>3 DEF Init, SlotsAccounted, TypeOK
  <2> QED
    BY <2>1, <2>2, <2>3, <2>4 DEF SlotInv, UniqueClaims
<1>2. SlotInv /\ [Next]_vars => SlotInv'
  BY TypeStep, SlotStep DEF SlotInv
<1> QED
  BY <1>1, <1>2, PTL DEF Spec

\* A slot that counts against the user was spent, is held, or was lost by one of
\* the paths that give it up, whoever races, fails or crashes, and whether or not
\* another client reaches a row early.
THEOREM SlotsCorrect == Spec => []SlotsAccounted
<1>1. SlotInv => SlotsAccounted
  BY DEF SlotInv
<1> QED
  BY <1>1, SlotInvariant, PTL

\* Nothing but the engine fails, and the user neither dispatches nor purges.
FaultFree == Requests = {} /\ MaxCrashes = 0 /\ ~DbErrors /\ ~Purges /\ ~EarlyAccess

\* No slot of the window is lost then, but by a soft failure that finds no mailbox.
SomeUnownedAttempted == \E e \in Unowned : attempts[e] > 0

NothingLost ==
  /\ lost = 0 \/ SomeUnownedAttempted
  /\ dispatch = {}
  /\ \A e \in Emails : status[e] # "purged"

\* A row that was attempted stays one.
LEMMA AttemptedStays ==
  ASSUME TypeOK,
         \/ UNCHANGED attempts
         \/ \E e \in Emails : attempts' = [attempts EXCEPT ![e] = @ + 1]
         \/ \E e \in Emails, p \in Procs : Claim(e, p)
  PROVE  SomeUnownedAttempted => SomeUnownedAttempted'
<1> SUFFICES ASSUME NEW e \in Unowned, attempts[e] > 0
             PROVE  attempts'[e] > 0
  BY DEF SomeUnownedAttempted
<1>1. e \in Emails /\ attempts \in [Emails -> Nat]
  BY ParametersAssumption DEF TypeOK
<1>2. CASE UNCHANGED attempts
  BY <1>2
<1>3. CASE \E f \in Emails : attempts' = [attempts EXCEPT ![f] = @ + 1]
  BY <1>1, <1>3
<1>4. CASE \E f \in Emails, p \in Procs : Claim(f, p)
  BY <1>1, <1>4 DEF Claim, MarkSending
<1> QED
  BY <1>2, <1>3, <1>4

\* No other step of such a run loses one: every claim of a compose request finds
\* its row.
LEMMA NothingLostStep ==
  ASSUME FaultFree, IInv, UniqueClaims, NothingLost, [Next]_vars
  PROVE  NothingLost'
<1> USE DEF FaultFree
<1>1. TypeOK
  BY DEF IInv
<1>2. dispatch = {} /\ \A e \in Emails : status[e] # "purged"
  BY DEF NothingLost
<1>a. ASSUME UNCHANGED <<lost, dispatch, attempts>>, \A e \in Emails : status'[e] # "purged"
      PROVE  NothingLost'
  BY <1>1, <1>2, <1>a, AttemptedStays DEF NothingLost
<1>b. ASSUME NEW e \in Emails, NEW p \in Procs, Claim(e, p), UNCHANGED <<lost, dispatch>>
      PROVE  NothingLost'
  <2>1. \A f \in Emails : status'[f] # "purged"
    BY <1>1, <1>2, <1>b DEF Claim, MarkSending, TypeOK
  <2> QED
    BY <1>1, <1>2, <1>b, <2>1, AttemptedStays DEF NothingLost
<1>3. ASSUME NEW e \in Emails, ComposeStart(e) PROVE NothingLost'
  BY <1>1, <1>2, <1>3, <1>a DEF ComposeStart, ComposeDraft, ComposeScheduled, ComposeReserve, NewRow, TypeOK, row, history
<1>4. ASSUME NEW e \in Emails, ComposeMarkScheduled(e) \/ ComposeInsert(e) PROVE NothingLost'
  BY <1>1, <1>2, <1>4, <1>a DEF ComposeMarkScheduled, ComposeInsert, NewRow, TypeOK, history
<1>5. ASSUME NEW e \in Emails, ComposeMarkLimited(e) PROVE NothingLost'
  BY <1>1, <1>2, <1>5, <1>a DEF ComposeMarkLimited, TypeOK, history
<1>6. ASSUME NEW e \in Emails, ComposeClaim(e) PROVE NothingLost'
  <2>1. Claimable(e)
    BY <1>6 DEF ComposeClaim, Claimable, IInv, ComposeOwnsRow
  <2>2. Claim(e, compose[e].proc) /\ UNCHANGED <<lost, dispatch>>
    BY <1>6, <2>1 DEF ComposeClaim, ClaimOrLose
  <2>3. compose[e].proc \in Procs
    BY <1>1 DEF TypeOK
  <2> QED
    BY <1>b, <2>2, <2>3
<1>7. ASSUME NEW e \in Emails, ComposeThrows(e) \/ ComposeClaimThrows(e) PROVE FALSE
  BY <1>7 DEF ComposeThrows, ComposeClaimThrows, ClaimThrows
<1>8. ASSUME NEW e \in Emails, Purge(e) \/ Ages(e) \/ ScheduleElapses(e) PROVE NothingLost'
  BY <1>2, <1>8, <1>a DEF Purge, Ages, ScheduleElapses, history
<1>9. ASSUME NEW p \in Procs, TickClaim(p) PROVE NothingLost'
  <2>1. UNCHANGED <<lost, dispatch>>
    BY <1>9 DEF TickClaim, history
  <2>2. PICK e \in Emails : Claim(e, p) \/ UNCHANGED row
    BY <1>1, <1>9 DEF TickClaim, TypeOK
  <2>3. CASE Claim(e, p)
    BY <1>b, <2>1, <2>3
  <2>4. CASE UNCHANGED row
    BY <1>2, <1>a, <2>1, <2>4 DEF row
  <2> QED
    BY <2>2, <2>3, <2>4
<1>10. ASSUME NEW p \in Procs, TickSelectRetries(p) \/ TickSelectScheduled(p) \/ TickReserve(p)
                               \/ TickRefund(p) \/ TickEnd(p)
       PROVE  NothingLost'
  <2>1. UNCHANGED <<lost, dispatch, attempts, status>>
    BY <1>10 DEF TickSelectRetries, TickSelectScheduled, TickReserve, TickRefund, TickEnd, row, history
  <2> QED
    BY <1>2, <1>a, <2>1
<1>11. ASSUME NEW p \in Procs, TickThrows(p) \/ Crash(p) PROVE FALSE
  BY <1>1, <1>11 DEF TickThrows, ClaimThrows, Crash, TypeOK
<1>12. ASSUME NEW j \in jobs, JobRead(j) PROVE NothingLost'
  <2>1. j.email \in Emails /\ status[j.email] \in {"sending", "purged"}
    BY <1>1, <1>12 DEF JobRead, TypeOK, JobRecord, IInv, SendLock, Working
  <2>2. Exists(j.email)
    BY <1>2, <2>1 DEF Exists
  <2> QED
    BY <1>2, <1>12, <1>a, <2>2 DEF JobRead, row
<1>13. ASSUME NEW j \in jobs, JobSucceeds(j) \/ JobFails(j) PROVE NothingLost'
  <2>1. UNCHANGED <<dispatch, attempts>>
    BY <1>13 DEF JobSucceeds, JobFails
  <2>2. UNCHANGED status \/ \E s \in {"sent", "failed", "rate_limited"} : status' = [status EXCEPT ![j.email] = s]
    BY <1>13 DEF JobSucceeds, JobFails, FinalState
  <2>3. \A e \in Emails : status'[e] # "purged"
    BY <1>1, <1>2, <2>2 DEF TypeOK
  <2>4. CASE UNCHANGED lost
    BY <1>a, <2>1, <2>3, <2>4
  <2>5. CASE j.email \in Unowned
    <3>1. attempts[j.email] > 0
      BY <1>1 DEF UniqueClaims, TypeOK, JobRecord
    <3>2. SomeUnownedAttempted'
      BY <2>1, <2>5, <3>1 DEF SomeUnownedAttempted
    <3> QED
      BY <1>2, <2>1, <2>3, <3>2 DEF NothingLost
  <2> QED
    BY <1>13, <2>4, <2>5 DEF JobSucceeds, JobFails, FailureEnds
<1>14. ASSUME NEW j \in jobs, EngineTakes(j) \/ EngineConfirms(j) \/ JobRefunds(j) \/ JobThrows(j)
       PROVE  NothingLost'
  BY <1>2, <1>14, <1>a DEF EngineTakes, EngineConfirms, JobRefunds, JobThrows, row, history
<1>15. ASSUME NEW j \in jobs, NEW kind, EngineFails(j, kind) PROVE NothingLost'
  BY <1>2, <1>15, <1>a DEF EngineFails, row
<1>16. ASSUME WindowRolls PROVE NothingLost'
  BY <1>2, <1>16 DEF WindowRolls, NothingLost, row
<1>17. ASSUME UNCHANGED vars PROVE NothingLost'
  BY <1>2, <1>17, <1>a DEF vars, row, history
<1> QED
  BY <1>2, <1>3, <1>4, <1>5, <1>6, <1>7, <1>8, <1>9, <1>10, <1>11, <1>12, <1>13, <1>14, <1>15, <1>16, <1>17
  DEF Next, ComposeStep, TickStep, JobStep

\* Where nothing but the engine fails, every slot that counts against the user was
\* spent or is still held, whatever the ticks of several processes do to each
\* other: "the user would lose a send-slot to a no-op" comes true only for a row
\* whose From names no mailbox letter for letter.
THEOREM NoLossCorrect ==
  ASSUME FaultFree
  PROVE  Spec => []NoLostSlot
<1>1. Init => NothingLost
  BY DEF Init, NothingLost
<1>2. IInv /\ SlotInv /\ NothingLost /\ [Next]_vars => NothingLost'
  BY NothingLostStep DEF SlotInv
<1>3. SlotInv /\ NothingLost => NoLostSlot
  <2> SUFFICES ASSUME SlotInv, NothingLost, \A e \in Unowned : attempts[e] = 0
               PROVE  used <= spent + HeldSlots(Procs)
    BY DEF NoLostSlot
  <2>1. \A e \in Unowned : ~(attempts[e] > 0)
    OBVIOUS
  <2>2. lost = 0
    BY <2>1 DEF NothingLost, SomeUnownedAttempted
  <2> QED
    BY <2>2 DEF SlotInv, TypeOK, SlotsAccounted
<1>4. Spec => []IInv
  BY Invariant DEF FaultFree
<1>5. Spec => []SlotInv
  BY SlotInvariant
<1> QED
  BY <1>1, <1>2, <1>3, <1>4, <1>5, PTL DEF Spec
=============================================================================
