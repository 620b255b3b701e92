--------------------- MODULE DocumentProcessing_proofs ---------------------
EXTENDS DocumentProcessing, ItemTimestamps_proofs, TLAPS

\* The three writers build jobs.
LEMMA ClaimedJobType ==
    ASSUME NEW j \in Jobs, NEW a \in Nat, NEW t \in Nat
    PROVE  ClaimedJob(j, a, t) \in Jobs
  BY LeaseAssumption DEF ClaimedJob, StartProcessing, Jobs, Statuses, TerminalStatuses,
     NoAttempt, NoReason, Reasons

\* What a finalization writes is a job.
LEMMA FinalizedJobType ==
    ASSUME NEW j \in Jobs, NEW a \in Nat, NEW t \in Nat, NEW f \in Finalizations
    PROVE  FinalizedJob(j, f, a, t) \in Jobs
  BY DEF FinalizedJob, MarkSucceeded, MarkFailed, ReleaseForRetry, EndAttempt, Jobs,
     Statuses, TerminalStatuses, NoAttempt, NoReason, Reasons

\* What mark_dead writes is a job.
LEMMA MarkDeadType ==
    ASSUME NEW j \in Jobs, NEW t \in Nat
    PROVE  MarkDead(j, t) \in Jobs
  BY DEF MarkDead, EndAttempt, Jobs, Statuses, TerminalStatuses, NoAttempt, NoReason, Reasons

\* An item reads back as its job if the job is consistent, and has no lease
\* without an attempt.
LEMMA JobReadsBack ==
    ASSUME NEW j \in Jobs, Rehydrates(j), j.attempt = NoAttempt => j.leaseExpiresAt = 0
    PROVE  ReadsBack(j)
<1>1. /\ j.leaseExpiresAt \in Nat /\ j.createdAt \in Nat /\ j.updatedAt \in Nat
      /\ j = [status |-> j.status, attempts |-> j.attempts, attempt |-> j.attempt,
              leaseExpiresAt |-> j.leaseExpiresAt, createdAt |-> j.createdAt,
              updatedAt |-> j.updatedAt, result |-> j.result, reason |-> j.reason]
  BY DEF Jobs
<1>2. /\ Iso(j.leaseExpiresAt) # NoText
      /\ FromIso(Iso(j.leaseExpiresAt)) = j.leaseExpiresAt
      /\ FromIso(Iso(j.createdAt)) = j.createdAt
      /\ FromIso(Iso(j.updatedAt)) = j.updatedAt
  <2>1. Iso(j.leaseExpiresAt) # NoText
    BY <1>1, TextsReadBack DEF Texts, NoText, CodePoint
  <2> QED BY <1>1, <2>1, TextsReadBack
<1>3. AttemptIsComplete(ToItem(j))
  BY <1>2 DEF AttemptIsComplete, ToItem
<1>4. FromItem(ToItem(j)) = j
  BY <1>1, <1>2 DEF FromItem, ToItem
<1> QED BY <1>3, <1>4 DEF ReadsBack

---------------------------------------------------------------------------
\* The absent job is one of Jobs.
LEMMA NoJobType == NoJob \in Jobs
  BY DEF NoJob, Jobs, Statuses, TerminalStatuses, Reasons, NoReason, NoAttempt

\* A job as CreateDocumentJob stores it is one of Jobs.
LEMMA NewJobType == ASSUME NEW t \in Nat PROVE NewJob(t) \in Jobs
  BY DEF NewJob, NoJob, Jobs, Statuses, TerminalStatuses, Reasons, NoReason, NoAttempt

\* A clock reads a natural number at most Skew away from the real time.
LEMMA ReadingsType ==
    ASSUME now \in Nat, NEW t \in Readings
    PROVE  t \in Nat /\ t <= now + Skew /\ now <= t + Skew
  BY ConstantsAssumption DEF Readings

\* A resting processing slot has the type of one.
LEMMA RestingWorkType == ASSUME NEW pc \in WorkPCs PROVE RestingWork(pc) \in WorkStates
  BY NoJobType DEF RestingWork, WorkStates, Finalizations, NoAttempt

\* A resting reconciling slot has the type of one.
LEMMA RestingReconType == ASSUME NEW pc \in ReconPCs PROVE RestingRecon(pc) \in ReconStates
  BY NoJobType DEF RestingRecon, ReconStates

\* The initial states have their types.
LEMMA TypeInit == Init => TypeOK
<1> SUFFICES ASSUME Init PROVE TypeOK
  OBVIOUS
<1>1. now \in Nat /\ minted \in Nat
  BY DEF Init
<1>2. job \in Jobs
  BY <1>1, NoJobType, NewJobType, ReadingsType DEF Init
<1>3. RestingWork("idle") \in WorkStates /\ RestingRecon("idle") \in ReconStates
  BY RestingWorkType, RestingReconType DEF WorkPCs, ReconPCs, Resting
<1> QED BY <1>1, <1>2, <1>3 DEF Init, TypeOK

\* A step of a processing invocation preserves the types.
LEMMA TypeProcessing ==
    ASSUME TypeOK, NEW w \in Worker, ProcessingStep(w)
    PROVE  TypeOK'
<1> USE DEF TypeOK
<1>0. /\ work[w] \in WorkStates
      /\ work[w].seen \in Jobs /\ work[w].attempt \in Nat /\ work[w].claimedAt \in Nat
      /\ work[w].finalizedAt \in Nat /\ work[w].finalization \in Finalizations
      /\ RestingWork("get") \in WorkStates
      /\ RestingWork("idle") \in WorkStates
      /\ RestingWork("acked") \in WorkStates
  BY RestingWorkType DEF WorkStates, WorkPCs, Resting
<1>1. CASE BeginProcessing(w)
  <2> PICK t \in Readings : work' = [work EXCEPT ![w] =
                    [RestingWork("get") EXCEPT !.claimedAt = t,
                                               !.deadline = now + Timeout]]
    BY <1>1 DEF BeginProcessing
  <2>1. t \in Nat /\ now + Timeout \in Nat
    BY ReadingsType, ConstantsAssumption
  <2>2. [RestingWork("get") EXCEPT !.claimedAt = t, !.deadline = now + Timeout] \in WorkStates
    BY <1>0, <2>1 DEF WorkStates
  <2> QED BY <1>1, <2>2 DEF BeginProcessing
<1>2. CASE GetJob(w)
  BY <1>2, <1>0 DEF GetJob, WorkEnds, WorkStates, WorkPCs
<1>3. CASE ClaimRead(w)
  BY <1>3, <1>0 DEF ClaimRead, WorkEnds, WorkGoes, WorkStates, WorkPCs
<1>4. CASE ClaimPut(w)
  <2>1. ClaimedJob(work[w].seen, work[w].attempt, work[w].claimedAt) \in Jobs
    BY <1>0, ClaimedJobType
  <2>2. job' \in Jobs
    BY <1>4, <2>1 DEF ClaimPut
  <2>3. work' \in [Worker -> WorkStates]
    BY <1>4, <1>0, NoJobType DEF ClaimPut, WorkEnds, WorkGoes, WorkStates, WorkPCs, Holding
  <2> QED BY <1>4, <2>2, <2>3 DEF ClaimPut
<1>5. CASE ReconcileClaim(w)
  BY <1>5, <1>0 DEF ReconcileClaim, WorkEnds
<1>6. CASE Execute(w)
  <2>1. \A o \in DOMAIN FinalizationOf : FinalizationOf[o] \in Finalizations
    BY DEF FinalizationOf, Finalizations
  <2> PICK o \in DOMAIN FinalizationOf, t \in Readings :
         work' = [work EXCEPT ![w].pc = "final_read",
                              ![w].finalization = FinalizationOf[o],
                              ![w].finalizedAt = t]
    BY <1>6 DEF Execute
  <2>2. t \in Nat /\ FinalizationOf[o] \in Finalizations
    BY <2>1, ReadingsType
  <2> QED BY <1>6, <1>0, <2>2 DEF Execute, WorkStates, WorkPCs, Holding
<1>7. CASE FinalRead(w)
  BY <1>7, <1>0 DEF FinalRead, WorkEnds, WorkStates, WorkPCs, Holding
<1>8. CASE FinalPut(w)
  <2>1. FinalizedJob(work[w].seen, work[w].finalization, work[w].attempt,
                     work[w].finalizedAt) \in Jobs
    BY <1>0, FinalizedJobType
  <2>2. job' \in Jobs
    BY <1>8, <2>1 DEF FinalPut
  <2>3. work' \in [Worker -> WorkStates]
    BY <1>8, <1>0 DEF FinalPut, WorkEnds
  <2> QED BY <1>8, <2>2, <2>3 DEF FinalPut
<1>9. CASE AbandonProcessing(w)
  BY <1>9, <1>0 DEF AbandonProcessing, WorkEnds
<1> QED BY <1>1, <1>2, <1>3, <1>4, <1>5, <1>6, <1>7, <1>8, <1>9 DEF ProcessingStep

\* A step of a reconciling invocation preserves the types.
LEMMA TypeReconciliation ==
    ASSUME TypeOK, NEW r \in Reconciler, ReconciliationStep(r)
    PROVE  TypeOK'
<1> USE DEF TypeOK
<1>0. /\ recon[r] \in ReconStates
      /\ recon[r].seen \in Jobs /\ recon[r].markedAt \in Nat
      /\ RestingRecon("observe") \in ReconStates
      /\ RestingRecon("idle") \in ReconStates
      /\ RestingRecon("acked") \in ReconStates
  BY RestingReconType DEF ReconStates, ReconPCs, Resting
<1>1. CASE BeginReconciliation(r)
  BY <1>1, <1>0 DEF BeginReconciliation
<1>2. CASE ObserveJob(r)
  BY <1>2, <1>0 DEF ObserveJob, ReconEnds, ReconStates, ReconPCs
<1>3. CASE JudgeJob(r)
  BY <1>3, <1>0, ReadingsType DEF JudgeJob, ReconEnds, ReconStates, ReconPCs
<1>4. CASE DeadRead(r)
  BY <1>4, <1>0 DEF DeadRead, ReconEnds, ReconGoes, ReconStates, ReconPCs
<1>5. CASE DeadPut(r)
  <2>1. MarkDead(recon[r].seen, recon[r].markedAt) \in Jobs
    BY <1>0, MarkDeadType
  <2>2. job' \in Jobs
    BY <1>5, <2>1 DEF DeadPut
  <2>3. recon' \in [Reconciler -> ReconStates]
    BY <1>5, <1>0 DEF DeadPut, ReconEnds, ReconGoes, ReconStates, ReconPCs
  <2> QED BY <1>5, <2>2, <2>3 DEF DeadPut
<1>6. CASE ReconcileDead(r)
  BY <1>6, <1>0 DEF ReconcileDead, ReconEnds
<1>7. CASE AbandonReconciliation(r)
  BY <1>7, <1>0 DEF AbandonReconciliation, ReconEnds
<1> QED BY <1>1, <1>2, <1>3, <1>4, <1>5, <1>6, <1>7 DEF ReconciliationStep

\* Every step preserves the types.
LEMMA TypeStep == ASSUME TypeOK, [Next]_vars PROVE TypeOK'
<1>1. CASE \E w \in Worker : ProcessingStep(w)
  BY <1>1, TypeProcessing
<1>2. CASE \E r \in Reconciler : ReconciliationStep(r)
  BY <1>2, TypeReconciliation
<1>3. CASE Tick
  BY <1>3 DEF Tick, TypeOK
<1>4. CASE UNCHANGED vars
  BY <1>4 DEF vars, TypeOK
<1> QED BY <1>1, <1>2, <1>3, <1>4 DEF Next

\* The item, the clock and the local states of the invocations keep their
\* types, whatever the interleaving.
THEOREM TypeCorrect == Spec => []TypeOK
<1>1. TypeOK /\ [Next]_vars => TypeOK'
  BY TypeStep
<1> QED BY <1>1, TypeInit, PTL DEF Spec

---------------------------------------------------------------------------
(* The version order *)

\* A step may leave the job alone, make it terminal, or move it strictly
\* forward in the order of (updated_at, status).
Forward ==
    \/ job' = job
    \/ /\ ~IsTerminal(job)
       /\ \/ IsTerminal(job')
          \/ job.updatedAt < job'.updatedAt
          \/ /\ job.updatedAt = job'.updatedAt
             /\ job.status = "PENDING_UPLOAD" /\ job'.status = "PROCESSING"

\* A snapshot stays older than an item that only moves forward.
LEMMA OlderIsStable ==
    ASSUME job \in Jobs, job' \in Jobs, NEW s \in Jobs, Older(s, job), Forward
    PROVE  Older(s, job')
  BY DEF Older, Forward, IsTerminal, TerminalStatuses, Jobs, Statuses

\* The comparison of status and updated_at is free of ABA.
LEMMA OlderIsSound ==
    ASSUME NEW item \in Jobs, NEW s \in Jobs, Older(s, item),
           s.status = item.status, s.updatedAt = item.updatedAt
    PROVE  s = item
  BY DEF Older, IsTerminal, TerminalStatuses, Jobs

\* The conditions make that comparison on texts.
LEMMA SameVersionIsSame ==
    ASSUME NEW item \in Jobs, NEW s \in Jobs, Older(s, item),
           s.status = item.status, Iso(s.updatedAt) = Iso(item.updatedAt)
    PROVE  s = item
<1>1. s.updatedAt \in Nat /\ item.updatedAt \in Nat
  BY DEF Jobs
<1>2. s.updatedAt = item.updatedAt
  BY <1>1, TextsAreInjective
<1> QED BY <1>2, OlderIsSound

\* A job just read and found unfinished is its own snapshot.
LEMMA OlderOfItself ==
    ASSUME NEW item, item.status \in {"PENDING_UPLOAD", "PROCESSING"}
    PROVE  Older(item, item)
  BY DEF Older

---------------------------------------------------------------------------
(* What the three writers do to the item *)

\* A put of claim_job whose condition holds moves the item forward, from a job
\* that is unclaimed or whose lease has expired, and installs the new claim.
LEMMA ClaimEffect ==
    ASSUME TypeOK, IInv, minted' = minted,
           NEW w \in Worker, work[w].pc = "claim_put",
           ClaimCondition(job, work[w].seen, work[w].claimedAt),
           job' = ClaimedJob(work[w].seen, work[w].attempt, work[w].claimedAt)
    PROVE  /\ Forward
           /\ job.status \in {"PENDING_UPLOAD", "PROCESSING"}
           /\ job.status = "PROCESSING" => work[w].claimedAt >= job.leaseExpiresAt
           /\ work[w].claimedAt >= job.updatedAt
           /\ work[w].attempt # job.attempt
           /\ work[w].attempt # NoAttempt
           /\ job' = ClaimedJob(job, work[w].attempt, work[w].claimedAt)
           /\ JobInv'
<1>0. /\ work[w].seen \in Jobs /\ work[w].attempt \in Nat /\ work[w].claimedAt \in Nat
      /\ job \in Jobs /\ minted \in Nat
  BY DEF TypeOK, WorkStates
<1>1. Older(work[w].seen, job) /\ ClaimDecidesPut(work[w].seen, work[w].claimedAt)
  BY DEF IInv, WorkInv
<1>2. work[w].seen = job
  <2>1. /\ work[w].seen.status = job.status
        /\ Iso(work[w].seen.updatedAt) = Iso(job.updatedAt)
    BY DEF ClaimCondition
  <2> QED BY <1>0, <1>1, <2>1, SameVersionIsSame
<1>3. job.status \in {"PENDING_UPLOAD", "PROCESSING"}
  BY <1>1, <1>2 DEF Older
<1>4. /\ job.status = "PENDING_UPLOAD" => work[w].claimedAt >= job.updatedAt
      /\ job.status = "PROCESSING" => work[w].claimedAt >= job.leaseExpiresAt
  BY <1>1, <1>2 DEF ClaimDecidesPut, MutationTimestampOK, IsLeaseExpired
<1>5. /\ work[w].attempt # job.attempt
      /\ work[w].attempt # NoAttempt
      /\ work[w].attempt <= minted
  BY DEF IInv, WorkInv, Resting
<1>6. /\ Rehydrates(job)
      /\ job.status = "PROCESSING" => job.leaseExpiresAt = job.updatedAt + Lease
  BY <1>3 DEF IInv, JobInv, StoredJobRehydrates, ReadsBack
<1>7. /\ job'.status = "PROCESSING" /\ job'.updatedAt = work[w].claimedAt
      /\ job'.attempts = job.attempts + 1 /\ job'.attempt = work[w].attempt
      /\ job'.leaseExpiresAt = work[w].claimedAt + Lease
      /\ job'.createdAt = job.createdAt
      /\ job'.result = NoAttempt /\ job'.reason = NoReason
  BY <1>2 DEF ClaimedJob, StartProcessing
<1>8. Forward
  BY <1>0, <1>3, <1>4, <1>6, <1>7, LeaseAssumption
     DEF Forward, IsTerminal, TerminalStatuses, Jobs
<1>9. work[w].claimedAt >= job.updatedAt /\ work[w].claimedAt >= job.createdAt
  BY <1>0, <1>3, <1>4, <1>6, LeaseAssumption DEF Rehydrates, Jobs
<1>10. JobInv'
  <2>1. Rehydrates(job')
    BY <1>0, <1>5, <1>7, <1>9, LeaseAssumption DEF Rehydrates, Jobs
  <2>2. job' \in Jobs
    BY <1>0, <1>2, ClaimedJobType
  <2>3. ReadsBack(job')
    BY <1>5, <1>7, <2>1, <2>2, JobReadsBack
  <2> QED BY <1>0, <1>5, <1>7, <2>3 DEF JobInv, StoredJobRehydrates
<1> QED BY <1>2, <1>3, <1>4, <1>5, <1>8, <1>9, <1>10

\* A finalizing put whose condition holds moves the item forward, and ends the
\* claim of the invocation that makes it and no other.
LEMMA FinalEffect ==
    ASSUME TypeOK, IInv, minted' = minted,
           NEW w \in Worker, work[w].pc = "final_put",
           FinalizationCondition(job, work[w].seen, work[w].attempt),
           job' = FinalizedJob(work[w].seen, work[w].finalization,
                               work[w].attempt, work[w].finalizedAt)
    PROVE  /\ Forward
           /\ job.status = "PROCESSING"
           /\ job.attempt = work[w].attempt
           /\ work[w].finalizedAt >= job.updatedAt
           /\ work[w].attempt # NoAttempt
           /\ job'.attempt = NoAttempt
           /\ work[w].finalization # "release" => IsTerminal(job')
           /\ job' = FinalizedJob(job, work[w].finalization,
                                  work[w].attempt, work[w].finalizedAt)
           /\ JobInv'
<1>0. /\ work[w].seen \in Jobs /\ work[w].attempt \in Nat /\ work[w].claimedAt \in Nat
      /\ work[w].finalizedAt \in Nat /\ work[w].finalization \in Finalizations
      /\ job \in Jobs /\ minted \in Nat
  BY DEF TypeOK, WorkStates
<1>1. /\ Older(work[w].seen, job)
      /\ OwnedProcessingJob(work[w].seen, work[w].attempt)
      /\ work[w].seen.updatedAt = work[w].claimedAt
      /\ MutationTimestampOK(work[w].seen, work[w].finalizedAt)
      /\ work[w].finalizedAt # work[w].claimedAt
      /\ work[w].attempt # NoAttempt
  BY DEF IInv, WorkInv, Resting
<1>2. work[w].seen = job
  <2>1. /\ work[w].seen.status = job.status
        /\ Iso(work[w].seen.updatedAt) = Iso(job.updatedAt)
    BY <1>1 DEF FinalizationCondition, OwnedProcessingJob
  <2> QED BY <1>0, <1>1, <2>1, SameVersionIsSame
<1>3. /\ job.status = "PROCESSING" /\ job.attempt = work[w].attempt
      /\ work[w].finalizedAt > job.updatedAt
      /\ work[w].finalizedAt >= job.updatedAt
  BY <1>0, <1>1, <1>2 DEF OwnedProcessingJob, MutationTimestampOK
<1>4. Rehydrates(job)
  BY <1>3 DEF IInv, JobInv, StoredJobRehydrates, ReadsBack
<1>5. LET f == work[w].finalization
      IN  /\ job'.status = IF f = "complete" THEN "SUCCEEDED"
                           ELSE IF f = "fail" THEN "FAILED" ELSE "PENDING_UPLOAD"
          /\ job'.attempts = job.attempts
          /\ job'.attempt = NoAttempt /\ job'.leaseExpiresAt = 0
          /\ job'.createdAt = job.createdAt
          /\ job'.updatedAt = work[w].finalizedAt
          /\ job'.result = IF f = "complete" THEN work[w].attempt ELSE NoAttempt
          /\ job'.reason = IF f = "fail" THEN "processing_failed" ELSE NoReason
  BY <1>2 DEF FinalizedJob, MarkSucceeded, MarkFailed, ReleaseForRetry, EndAttempt
<1>6. Forward
  BY <1>0, <1>3, <1>5 DEF Forward, IsTerminal, TerminalStatuses, Jobs
<1>7. JobInv'
  <2>1. Rehydrates(job')
    BY <1>0, <1>1, <1>3, <1>4, <1>5 DEF Rehydrates, Jobs, NoReason, NoAttempt
  <2>2. job' \in Jobs
    BY <1>0, <1>2, FinalizedJobType
  <2>3. ReadsBack(job')
    BY <1>5, <2>1, <2>2, JobReadsBack
  <2> QED BY <1>0, <1>5, <2>3 DEF JobInv, StoredJobRehydrates, NoAttempt
<1>8. work[w].finalization # "release" => IsTerminal(job')
  BY <1>0, <1>5 DEF IsTerminal, TerminalStatuses, Finalizations
<1> QED BY <1>1, <1>2, <1>3, <1>5, <1>6, <1>7, <1>8

\* A put of mark_dead whose condition holds moves the item forward, from a job
\* that was attempted.
LEMMA DeadEffect ==
    ASSUME TypeOK, IInv, minted' = minted,
           NEW r \in Reconciler, recon[r].pc = "dead_put",
           DeadCondition(job, recon[r].seen),
           job' = MarkDead(recon[r].seen, recon[r].markedAt)
    PROVE  /\ Forward
           /\ \/ job.status = "PROCESSING"
              \/ job.status = "PENDING_UPLOAD" /\ job.attempts >= 1
           /\ job.status = "PROCESSING" => recon[r].markedAt >= job.updatedAt
           /\ job.updatedAt = recon[r].observed.updatedAt
           /\ job' = MarkDead(job, recon[r].markedAt)
           /\ IsTerminal(job')
           /\ job'.attempt = NoAttempt
           /\ JobInv'
<1>0. /\ recon[r].seen \in Jobs /\ recon[r].markedAt \in Nat
      /\ job \in Jobs /\ minted \in Nat
  BY DEF TypeOK, ReconStates
<1>1. /\ Older(recon[r].seen, job)
      /\ DeadDecides(recon[r].seen, recon[r].observed.updatedAt)
      /\ DeadTimestampOK(recon[r].seen, recon[r].markedAt)
  BY DEF IInv, ReconInv
<1>2. recon[r].seen = job
  <2>1. /\ recon[r].seen.status = job.status
        /\ Iso(recon[r].seen.updatedAt) = Iso(job.updatedAt)
    BY DEF DeadCondition
  <2> QED BY <1>0, <1>1, <2>1, SameVersionIsSame
<1>3. /\ \/ job.status = "PROCESSING"
         \/ job.status = "PENDING_UPLOAD" /\ job.attempts >= 1
      /\ job.updatedAt = recon[r].observed.updatedAt
      /\ job.status = "PROCESSING" => recon[r].markedAt >= job.updatedAt
  BY <1>1, <1>2 DEF DeadDecides, DeadTimestampOK, MutationTimestampOK
<1>4. Rehydrates(job)
  BY <1>3 DEF IInv, JobInv, StoredJobRehydrates, ReadsBack
<1>5. recon[r].markedAt >= job.createdAt
  BY <1>0, <1>1, <1>2, <1>4 DEF DeadTimestampOK, MutationTimestampOK, Rehydrates, Jobs
<1>6. /\ job'.status = "DEAD" /\ job'.attempts = job.attempts
      /\ job'.attempt = NoAttempt /\ job'.leaseExpiresAt = 0
      /\ job'.createdAt = job.createdAt
      /\ job'.updatedAt = recon[r].markedAt /\ job'.result = NoAttempt
      /\ job'.reason = "processing_retries_exhausted"
  BY <1>2 DEF MarkDead, EndAttempt
<1>7. IsTerminal(job')
  BY <1>6 DEF IsTerminal, TerminalStatuses
<1>8. Forward
  BY <1>3, <1>7 DEF Forward, IsTerminal, TerminalStatuses
<1>9. JobInv'
  <2>1. Rehydrates(job')
    BY <1>0, <1>3, <1>4, <1>5, <1>6 DEF Rehydrates, Jobs, NoReason, NoAttempt
  <2>2. job' \in Jobs
    BY <1>0, <1>2, MarkDeadType
  <2>3. ReadsBack(job')
    BY <1>6, <2>1, <2>2, JobReadsBack
  <2> QED BY <1>0, <1>6, <2>3 DEF JobInv, StoredJobRehydrates, NoAttempt
<1> QED BY <1>2, <1>3, <1>6, <1>7, <1>8, <1>9

---------------------------------------------------------------------------
(* What a step leaves valid of the invocations that do not take it *)

\* Invocation v does not own the item that is written and, if it held the
\* claim, the job is terminal now or its lease has run out.
Foreign(v) ==
    \/ job' = job
    \/ /\ work[v].pc \notin Resting \union {"get"} => job'.attempt # work[v].attempt
       /\ work[v].pc \in Holding => IsTerminal(job') \/ LeaseRanOut(v)

\* What a processing invocation relies on survives the steps of others.
LEMMA WorkFrame ==
    ASSUME TypeOK, TypeOK', IInv, now' = now, minted' >= minted, Forward,
           NEW v \in Worker, work'[v] = work[v], Foreign(v)
    PROVE  WorkInv(v)'
<1> USE DEF TypeOK
<1>0. /\ WorkInv(v)
      /\ work[v].seen \in Jobs /\ work[v].attempt \in Nat
  BY DEF IInv, WorkStates
<1>1. IsTerminal(job) => IsTerminal(job')
  BY DEF Forward
<1>2. Older(work[v].seen, job) => Older(work[v].seen, job')
  BY <1>0, OlderIsStable
<1>3. LeaseRanOut(v) => LeaseRanOut(v)'
  BY DEF LeaseRanOut
<1>4. /\ work[v].pc \in {"claim_read", "claim_put"} => job'.attempt # work[v].attempt
      /\ work[v].pc \in Holding =>
           /\ job'.attempt = work[v].attempt => job'.updatedAt = work[v].claimedAt
           /\ job'.attempt = work[v].attempt \/ IsTerminal(job') \/ LeaseRanOut(v)
  BY <1>0, <1>1 DEF WorkInv, Foreign, Resting, Holding
<1>5. work[v].attempt <= minted'
  BY <1>0 DEF WorkInv
<1> QED BY <1>0, <1>1, <1>2, <1>3, <1>4, <1>5 DEF WorkInv, IsTerminal

\* What a reconciling invocation relies on survives the steps of others.
LEMMA ReconFrame ==
    ASSUME TypeOK, TypeOK', IInv, now' = now, Forward,
           NEW r \in Reconciler, recon'[r] = recon[r]
    PROVE  ReconInv(r)'
<1>0. /\ ReconInv(r)
      /\ recon[r].seen \in Jobs /\ recon[r].observed \in Jobs
      /\ job \in Jobs /\ job' \in Jobs
  BY DEF TypeOK, IInv, ReconStates
<1>1. IsTerminal(job) => IsTerminal(job')
  BY DEF Forward
<1>2. /\ Older(recon[r].seen, job) => Older(recon[r].seen, job')
      /\ Older(recon[r].observed, job) => Older(recon[r].observed, job')
  BY <1>0, OlderIsStable
<1> QED BY <1>0, <1>1, <1>2 DEF ReconInv, IsTerminal

\* For a step of one processing invocation, it is enough to look at the job and
\* at that invocation.
LEMMA ProcessingFrame ==
    ASSUME TypeOK, TypeOK', IInv, now' = now, minted' >= minted, recon' = recon, Forward,
           NEW w \in Worker,
           \A v \in Worker \ {w} : work'[v] = work[v] /\ Foreign(v),
           JobInv', WorkInv(w)',
           work'[w].attempt \in {NoAttempt, work[w].attempt} \/ work'[w].attempt > minted,
           work'[w].pc \in Holding =>
             \/ work[w].pc \in Holding /\ work'[w].claimedAt = work[w].claimedAt
             \/ \A v \in Worker \ {w} : work[v].pc \in Holding => LeaseRanOut(v)
    PROVE  IInv'
<1>1. \A v \in Worker : WorkInv(v)'
  BY WorkFrame
<1>2. \A r \in Reconciler : ReconInv(r)'
  BY ReconFrame
<1>3. ASSUME NEW u \in Worker, NEW v \in Worker, u # v PROVE PairInv(u, v)'
  <2>0. /\ PairInv(u, v) /\ PairInv(v, u)
        /\ work[u].attempt \in Nat /\ work[v].attempt \in Nat
        /\ work[u].attempt <= minted /\ work[v].attempt <= minted /\ minted \in Nat
        /\ work'[w].attempt \in Nat
    BY DEF IInv, WorkInv, TypeOK, WorkStates
  <2>1. CASE u # w /\ v # w
    BY <2>0, <2>1 DEF PairInv, LeaseRanOut
  <2>2. CASE u = w
    BY <2>0, <2>2, <1>3 DEF PairInv, LeaseRanOut, NoAttempt
  <2>3. CASE v = w
    BY <2>0, <2>3, <1>3 DEF PairInv, LeaseRanOut, NoAttempt
  <2> QED BY <2>1, <2>2, <2>3
<1>4. \A u, v \in Worker : PairInv(u, v)'
  BY <1>3 DEF PairInv
<1> QED BY <1>1, <1>2, <1>4 DEF IInv

\* For a step of one reconciling invocation, it is enough to look at the job and
\* at that invocation.
LEMMA ReconciliationFrame ==
    ASSUME TypeOK, TypeOK', IInv, now' = now, minted' = minted, work' = work, Forward,
           NEW r \in Reconciler,
           \A s \in Reconciler \ {r} : recon'[s] = recon[s],
           \A v \in Worker : Foreign(v),
           JobInv', ReconInv(r)'
    PROVE  IInv'
<1>0. minted \in Nat
  BY DEF TypeOK
<1>1. \A v \in Worker : WorkInv(v)'
  BY <1>0, WorkFrame
<1>2. \A s \in Reconciler : ReconInv(s)'
  BY ReconFrame
<1>3. \A u, v \in Worker : PairInv(u, v)'
  BY DEF IInv, PairInv, LeaseRanOut
<1> QED BY <1>1, <1>2, <1>3 DEF IInv

---------------------------------------------------------------------------
(* Every action preserves the invariant *)

\* The inductive invariant holds initially.
LEMMA InvInit == Init => IInv
<1> SUFFICES ASSUME Init PROVE IInv
  OBVIOUS
<1>1. JobInv
  <2>1. CASE job = NoJob
    BY <2>1 DEF Init, JobInv, StoredJobRehydrates, NoJob, NoAttempt
  <2>2. ASSUME NEW t \in Readings, job = NewJob(t) PROVE JobInv
    <3>1. t \in Nat
      BY ReadingsType DEF Init
    <3>2. /\ job.status = "PENDING_UPLOAD" /\ job.updatedAt = t /\ job.createdAt = t
          /\ job.attempt = NoAttempt /\ job.result = NoAttempt /\ job.reason = NoReason
          /\ job.leaseExpiresAt = 0
      BY <2>2 DEF NewJob, NoJob
    <3>3. Rehydrates(job)
      BY <3>1, <3>2 DEF Rehydrates, NoAttempt, NoReason
    <3>4. ReadsBack(job)
      BY <2>2, <3>1, <3>2, <3>3, NewJobType, JobReadsBack
    <3> QED BY <3>1, <3>2, <3>4 DEF Init, JobInv, StoredJobRehydrates, NoAttempt
  <2> QED BY <2>1, <2>2 DEF Init
<1>2. \A w \in Worker : WorkInv(w)
  BY DEF Init, WorkInv, RestingWork, Resting, Holding, NoAttempt
<1>3. \A v, w \in Worker : PairInv(v, w)
  BY DEF Init, PairInv, RestingWork, Holding, NoAttempt
<1>4. \A r \in Reconciler : ReconInv(r)
  BY DEF Init, ReconInv, RestingRecon
<1> QED BY <1>1, <1>2, <1>3, <1>4 DEF IInv

\* An invocation that ends keeps nothing that could become wrong.
LEMMA EndedWork ==
    ASSUME TypeOK, NEW w \in Worker, minted' \in Nat, NEW pc \in Resting, WorkEnds(w, pc),
           pc = "acked" => IsTerminal(job')
    PROVE  WorkInv(w)'
  BY DEF TypeOK, WorkEnds, RestingWork, WorkInv, Resting, Holding, NoAttempt, IsTerminal

\* A step of an invocation that writes nothing but its own state.
LEMMA QuietProcessing ==
    ASSUME TypeOK, TypeOK', IInv, UNCHANGED <<job, now, minted, recon>>,
           NEW w \in Worker, NEW me, work' = [work EXCEPT ![w] = me],
           WorkInv(w)',
           me.attempt \in {NoAttempt, work[w].attempt},
           me.pc \in Holding => work[w].pc \in Holding /\ me.claimedAt = work[w].claimedAt
    PROVE  IInv'
<1>1. /\ work'[w] = me /\ \A v \in Worker \ {w} : work'[v] = work[v]
      /\ minted \in Nat
  BY DEF TypeOK
<1>2. JobInv'
  BY DEF IInv, JobInv, StoredJobRehydrates
<1> QED BY <1>1, <1>2, ProcessingFrame DEF Forward, Foreign

\* Every step of a processing invocation preserves the inductive invariant.
LEMMA InvProcessing ==
    ASSUME TypeOK, TypeOK', IInv, NEW w \in Worker, ProcessingStep(w)
    PROVE  IInv'
<1>0. /\ WorkInv(w) /\ JobInv
      /\ work[w] \in WorkStates /\ job \in Jobs /\ minted \in Nat /\ now \in Nat
      /\ work[w].attempt \in Nat /\ work[w].claimedAt \in Nat
      /\ work \in [Worker -> WorkStates]
  BY DEF IInv, TypeOK, WorkStates
\* The invocation ends and has written nothing.
<1>a. ASSUME NEW pc \in Resting, WorkEnds(w, pc), pc = "acked" => IsTerminal(job),
             UNCHANGED <<job, now, minted, recon>>
      PROVE  IInv'
  <2>1. WorkInv(w)'
    BY <1>0, <1>a, EndedWork
  <2>2. RestingWork(pc).attempt = NoAttempt /\ RestingWork(pc).pc \notin Holding
    BY DEF RestingWork, Resting, Holding
  <2> QED BY <1>a, <2>1, <2>2, QuietProcessing DEF WorkEnds
<1>1. CASE BeginProcessing(w)
  <2> PICK t \in Readings : work' = [work EXCEPT ![w] =
                    [RestingWork("get") EXCEPT !.claimedAt = t,
                                               !.deadline = now + Timeout]]
    BY <1>1 DEF BeginProcessing
  <2> DEFINE me == [RestingWork("get") EXCEPT !.claimedAt = t, !.deadline = now + Timeout]
  <2>1. t \in Nat /\ t <= now + Skew /\ now <= t + Skew
    BY <1>0, ReadingsType
  <2>2. UNCHANGED <<job, now, minted, recon>>
    BY <1>1 DEF BeginProcessing
  <2>3. /\ work'[w] = me
        /\ me.pc = "get" /\ me.attempt = NoAttempt
        /\ me.claimedAt = t /\ me.deadline = now + Timeout
    BY <1>0 DEF RestingWork
  <2>4. WorkInv(w)'
    BY <1>0, <2>1, <2>2, <2>3, ConstantsAssumption DEF WorkInv, Resting, Holding, NoAttempt
  <2>5. work' = [work EXCEPT ![w] = me] /\ me.pc \notin Holding
    BY <2>3 DEF Holding
  <2> HIDE DEF me
  <2> QED BY <2>2, <2>3, <2>4, <2>5, QuietProcessing
<1>2. CASE GetJob(w)
  <2>1. UNCHANGED <<job, now, recon>>
    BY <1>2 DEF GetJob
  <2>3. CASE minted' = minted + 1 /\ work' = [work EXCEPT ![w].pc = "claim_read",
                                                         ![w].attempt = minted + 1]
    <3>1. WorkInv(w)'
      BY <1>0, <1>2, <2>1, <2>3
         DEF GetJob, WorkInv, JobInv, Resting, Holding, NoAttempt, Jobs, LeaseRanOut
    <3>2. JobInv'
      BY <1>0, <2>1, <2>3 DEF JobInv, StoredJobRehydrates, Jobs
    <3>3. /\ work'[w].attempt > minted /\ work'[w].pc \notin Holding
          /\ \A v \in Worker \ {w} : work'[v] = work[v]
      BY <1>0, <2>3 DEF Holding, WorkStates
    <3> QED BY <1>0, <2>1, <2>3, <3>1, <3>2, <3>3, ProcessingFrame DEF Forward, Foreign
  <2>4. CASE /\ minted' = minted
             /\ \/ WorkEnds(w, "idle")
                \/ WorkEnds(w, "acked") /\ IsTerminal(job)
    BY <2>1, <2>4, <1>a DEF Resting
  <2> QED BY <1>2, <2>3, <2>4 DEF GetJob
<1>3. CASE ClaimRead(w)
  <2>1. UNCHANGED <<job, now, minted, recon>>
    BY <1>3 DEF ClaimRead
  <2>2. CASE /\ ClaimDecidesPut(job, work[w].claimedAt)
             /\ work' = [work EXCEPT ![w].pc = "claim_put", ![w].seen = job]
    <3> DEFINE me == [work[w] EXCEPT !.pc = "claim_put", !.seen = job]
    <3>1. /\ work' = [work EXCEPT ![w] = me] /\ work'[w] = me
          /\ me.pc = "claim_put" /\ me.seen = job /\ me.attempt = work[w].attempt
          /\ me.claimedAt = work[w].claimedAt /\ me.deadline = work[w].deadline
      BY <1>0, <2>2 DEF WorkStates
    <3>2. Older(job, job)
      BY <2>2, OlderOfItself DEF ClaimDecidesPut
    <3> HIDE DEF me
    <3>3. WorkInv(w)'
      BY <1>0, <1>3, <2>1, <2>2, <3>1, <3>2 DEF ClaimRead, WorkInv, Resting, Holding
    <3> QED BY <2>1, <3>1, <3>3, QuietProcessing DEF Holding
  <2>3. CASE WorkGoes(w, "reconcile_claim")
    <3> DEFINE me == [work[w] EXCEPT !.pc = "reconcile_claim"]
    <3>1. /\ work' = [work EXCEPT ![w] = me] /\ work'[w] = me
          /\ me.pc = "reconcile_claim" /\ me.attempt = work[w].attempt
          /\ me.claimedAt = work[w].claimedAt /\ me.deadline = work[w].deadline
      BY <1>0, <2>3 DEF WorkStates, WorkGoes
    <3> HIDE DEF me
    <3>3. WorkInv(w)'
      BY <1>0, <1>3, <2>1, <3>1 DEF ClaimRead, WorkInv, Resting, Holding
    <3> QED BY <2>1, <3>1, <3>3, QuietProcessing DEF Holding
  <2>4. CASE WorkEnds(w, "idle")
    BY <2>1, <2>4, <1>a DEF Resting
  <2> QED BY <1>3, <2>2, <2>3, <2>4 DEF ClaimRead
<1>4. CASE ClaimPut(w)
  <2>1. UNCHANGED <<now, minted, recon>>
    BY <1>4 DEF ClaimPut
  <2>2. CASE ~ClaimCondition(job, work[w].seen, work[w].claimedAt)
    <3> DEFINE me == [work[w] EXCEPT !.pc = "reconcile_claim"]
    <3>1. /\ work' = [work EXCEPT ![w] = me] /\ work'[w] = me
          /\ me.pc = "reconcile_claim" /\ me.attempt = work[w].attempt
          /\ me.claimedAt = work[w].claimedAt /\ me.deadline = work[w].deadline
          /\ job' = job
      BY <1>0, <1>4, <2>2 DEF ClaimPut, WorkStates, WorkGoes
    <3> HIDE DEF me
    <3>2. WorkInv(w)'
      BY <1>0, <1>4, <2>1, <3>1 DEF ClaimPut, WorkInv, Resting, Holding
    <3> QED BY <2>1, <3>1, <3>2, QuietProcessing DEF Holding
  <2>3. CASE /\ ClaimCondition(job, work[w].seen, work[w].claimedAt)
             /\ job' = ClaimedJob(work[w].seen, work[w].attempt, work[w].claimedAt)
    <3>1. /\ Forward
          /\ job.status \in {"PENDING_UPLOAD", "PROCESSING"}
          /\ job.status = "PROCESSING" => work[w].claimedAt >= job.leaseExpiresAt
          /\ work[w].attempt # NoAttempt
          /\ job' = ClaimedJob(job, work[w].attempt, work[w].claimedAt)
          /\ JobInv'
      BY <1>4, <2>1, <2>3, ClaimEffect DEF ClaimPut
    <3>2. /\ job'.attempt = work[w].attempt
          /\ job'.updatedAt = work[w].claimedAt
      BY <3>1 DEF ClaimedJob, StartProcessing
    \* Whoever held the claim before has outlived the lease.
    <3>3. \A v \in Worker \ {w} : work[v].pc \in Holding => LeaseRanOut(v)
      <4> SUFFICES ASSUME NEW v \in Worker \ {w}, work[v].pc \in Holding
                   PROVE  LeaseRanOut(v)
        OBVIOUS
      <4>1. /\ WorkInv(v) /\ ~IsTerminal(job)
            /\ work[v].attempt # NoAttempt
            /\ work[v].claimedAt \in Nat
        BY <3>1 DEF IInv, WorkInv, IsTerminal, TerminalStatuses, Resting, Holding,
                    TypeOK, WorkStates
      <4>2. CASE job.attempt = work[v].attempt
        <5>1. job.updatedAt = work[v].claimedAt
          BY <4>1, <4>2 DEF WorkInv
        <5>2. job.status = "PROCESSING" /\ job.leaseExpiresAt = job.updatedAt + Lease
          BY <1>0, <3>1, <4>1, <4>2 DEF JobInv, StoredJobRehydrates, ReadsBack, Rehydrates
        <5>3. work[w].claimedAt <= now + Skew
          BY <1>0, <1>4 DEF ClaimPut, WorkInv, Resting
        <5> QED BY <1>0, <3>1, <4>1, <5>1, <5>2, <5>3, ConstantsAssumption, LeaseAssumption
                DEF LeaseRanOut
      <4> QED BY <4>1, <4>2 DEF WorkInv
    <3>4. \A v \in Worker \ {w} : Foreign(v)
      <4> SUFFICES ASSUME NEW v \in Worker \ {w} PROVE Foreign(v)
        OBVIOUS
      <4>1. work[v].attempt # work[w].attempt
        BY <3>1 DEF IInv, PairInv
      <4> QED BY <3>2, <3>3, <4>1 DEF Foreign
    <3>5. CASE work' = [work EXCEPT ![w].pc = "execute", ![w].seen = NoJob]
      <4>1. /\ work'[w].pc = "execute" /\ work'[w].attempt = work[w].attempt
            /\ work'[w].claimedAt = work[w].claimedAt /\ work'[w].deadline = work[w].deadline
            /\ \A v \in Worker \ {w} : work'[v] = work[v]
        BY <1>0, <3>5 DEF WorkStates
      <4>2. WorkInv(w)'
        BY <1>0, <1>4, <2>1, <3>1, <3>2, <4>1 DEF ClaimPut, WorkInv, Resting, Holding
      <4> QED BY <1>0, <2>1, <3>1, <3>3, <3>4, <4>1, <4>2, ProcessingFrame
    <3>6. CASE WorkEnds(w, "idle")
      <4>1. /\ work'[w].attempt = NoAttempt /\ work'[w].pc \notin Holding
            /\ \A v \in Worker \ {w} : work'[v] = work[v]
        BY <1>0, <3>6 DEF WorkEnds, RestingWork, Holding
      <4>2. WorkInv(w)'
        BY <1>0, <2>1, <3>6, EndedWork DEF Resting
      <4> QED BY <1>0, <2>1, <3>1, <3>4, <4>1, <4>2, ProcessingFrame
    <3>7. CASE WorkGoes(w, "reconcile_claim")
      <4>1. /\ work'[w].pc = "reconcile_claim" /\ work'[w].attempt = work[w].attempt
            /\ work'[w].claimedAt = work[w].claimedAt /\ work'[w].deadline = work[w].deadline
            /\ \A v \in Worker \ {w} : work'[v] = work[v]
        BY <1>0, <3>7 DEF WorkStates, WorkGoes
      <4>2. WorkInv(w)'
        BY <1>0, <1>4, <2>1, <3>1, <4>1 DEF ClaimPut, WorkInv, Resting, Holding
      <4> QED BY <1>0, <2>1, <3>1, <3>4, <4>1, <4>2, ProcessingFrame DEF Holding
    <3> QED BY <1>4, <2>3, <3>5, <3>6, <3>7 DEF ClaimPut
  <2> QED BY <1>4, <2>2, <2>3 DEF ClaimPut
<1>5. CASE ReconcileClaim(w)
  BY <1>5, <1>a DEF ReconcileClaim, Resting
<1>6. CASE Execute(w)
  <2> PICK o \in DOMAIN FinalizationOf, t \in Readings \ {work[w].claimedAt} :
         work' = [work EXCEPT ![w].pc = "final_read",
                              ![w].finalization = FinalizationOf[o],
                              ![w].finalizedAt = t]
    BY <1>6 DEF Execute
  <2> DEFINE me == [work[w] EXCEPT !.pc = "final_read", !.finalization = FinalizationOf[o],
                                   !.finalizedAt = t]
  <2>1. UNCHANGED <<job, now, minted, recon>>
    BY <1>6 DEF Execute
  <2>2. /\ work' = [work EXCEPT ![w] = me] /\ work'[w] = me
        /\ me.pc = "final_read" /\ me.attempt = work[w].attempt
        /\ me.claimedAt = work[w].claimedAt /\ me.deadline = work[w].deadline
        /\ me.finalizedAt = t
    BY <1>0 DEF WorkStates
  <2> HIDE DEF me
  <2>3. WorkInv(w)'
    BY <1>0, <1>6, <2>1, <2>2 DEF Execute, WorkInv, Resting, Holding, LeaseRanOut
  <2> QED BY <1>6, <2>1, <2>2, <2>3, QuietProcessing DEF Execute, Holding
<1>7. CASE FinalRead(w)
  <2>1. UNCHANGED <<job, now, minted, recon>>
    BY <1>7 DEF FinalRead
  <2>2. CASE /\ OwnedProcessingJob(job, work[w].attempt)
             /\ MutationTimestampOK(job, work[w].finalizedAt)
             /\ work' = [work EXCEPT ![w].pc = "final_put", ![w].seen = job]
    <3> DEFINE me == [work[w] EXCEPT !.pc = "final_put", !.seen = job]
    <3>1. /\ work' = [work EXCEPT ![w] = me] /\ work'[w] = me
          /\ me.pc = "final_put" /\ me.seen = job /\ me.attempt = work[w].attempt
          /\ me.claimedAt = work[w].claimedAt /\ me.deadline = work[w].deadline
          /\ me.finalizedAt = work[w].finalizedAt
      BY <1>0, <2>2 DEF WorkStates
    <3>2. Older(job, job)
      BY <2>2, OlderOfItself DEF OwnedProcessingJob
    <3> HIDE DEF me
    <3>3. WorkInv(w)'
      BY <1>0, <1>7, <2>1, <2>2, <3>1, <3>2
         DEF FinalRead, WorkInv, Resting, Holding, LeaseRanOut, OwnedProcessingJob
    <3> QED BY <1>7, <2>1, <3>1, <3>3, QuietProcessing DEF FinalRead, Holding
  <2>3. CASE WorkEnds(w, "idle")
    BY <2>1, <2>3, <1>a DEF Resting
  <2> QED BY <1>7, <2>2, <2>3 DEF FinalRead
<1>8. CASE FinalPut(w)
  <2>1. UNCHANGED <<now, minted, recon>>
    BY <1>8 DEF FinalPut
  <2>2. CASE ~FinalizationCondition(job, work[w].seen, work[w].attempt)
    BY <1>8, <2>1, <2>2, <1>a DEF FinalPut, Resting
  <2>3. CASE FinalizationCondition(job, work[w].seen, work[w].attempt)
    <3>1. /\ Forward
          /\ job.status = "PROCESSING"
          /\ job.attempt = work[w].attempt
          /\ work[w].attempt # NoAttempt
          /\ job'.attempt = NoAttempt
          /\ work[w].finalization # "release" => IsTerminal(job')
          /\ JobInv'
      BY <1>8, <2>1, <2>3, FinalEffect DEF FinalPut
    <3>2. PICK pc \in Resting : WorkEnds(w, pc) /\ (pc = "acked" => IsTerminal(job'))
      BY <1>8, <2>3, <3>1 DEF FinalPut, Resting
    <3>3. \A v \in Worker \ {w} : Foreign(v)
      <4> SUFFICES ASSUME NEW v \in Worker \ {w} PROVE Foreign(v)
        OBVIOUS
      <4>1. WorkInv(v) /\ job.attempt # work[v].attempt /\ ~IsTerminal(job)
        BY <3>1 DEF IInv, PairInv, IsTerminal, TerminalStatuses
      <4> QED BY <3>1, <4>1 DEF Foreign, WorkInv
    <3>4. /\ work'[w].attempt = NoAttempt /\ work'[w].pc \notin Holding
          /\ \A v \in Worker \ {w} : work'[v] = work[v]
      BY <1>0, <3>2 DEF WorkEnds, RestingWork, Holding, Resting
    <3>5. WorkInv(w)'
      BY <1>0, <2>1, <3>2, EndedWork
    <3> QED BY <1>0, <2>1, <3>1, <3>3, <3>4, <3>5, ProcessingFrame
  <2> QED BY <2>2, <2>3
<1>9. CASE AbandonProcessing(w)
  BY <1>9, <1>a DEF AbandonProcessing, Resting
<1> QED BY <1>1, <1>2, <1>3, <1>4, <1>5, <1>6, <1>7, <1>8, <1>9 DEF ProcessingStep

\* A reconciling step that does not write the job.
LEMMA QuietReconciliation ==
    ASSUME TypeOK, TypeOK', IInv, UNCHANGED <<job, now, minted, work>>,
           NEW r \in Reconciler, NEW me, recon' = [recon EXCEPT ![r] = me],
           ReconInv(r)'
    PROVE  IInv'
<1>1. \A s \in Reconciler \ {r} : recon'[s] = recon[s]
  BY DEF TypeOK
<1>2. JobInv'
  BY DEF IInv, JobInv, StoredJobRehydrates
<1> QED BY <1>1, <1>2, ReconciliationFrame DEF Forward, Foreign

\* A reconciling invocation that ends, or goes on without a snapshot, relies on
\* nothing but the job being terminal where it acknowledges.
LEMMA EndedRecon ==
    ASSUME TypeOK, NEW r \in Reconciler, NEW pc \in ReconPCs, ReconEnds(r, pc),
           pc \in {"idle", "acked", "observe", "reconcile_dead"},
           pc = "acked" => IsTerminal(job')
    PROVE  ReconInv(r)'
  BY DEF TypeOK, ReconEnds, RestingRecon, ReconInv, IsTerminal

\* Every step of a reconciling invocation preserves the inductive invariant.
LEMMA InvReconciliation ==
    ASSUME TypeOK, TypeOK', IInv, NEW r \in Reconciler, ReconciliationStep(r)
    PROVE  IInv'
<1>0. /\ ReconInv(r) /\ JobInv
      /\ recon[r] \in ReconStates /\ job \in Jobs /\ now \in Nat
      /\ recon \in [Reconciler -> ReconStates]
  BY DEF IInv, TypeOK
<1>a. ASSUME NEW pc \in ReconPCs, ReconEnds(r, pc), pc \in {"idle", "acked", "observe"},
             pc = "acked" => IsTerminal(job), UNCHANGED <<job, now, minted, work>>
      PROVE  IInv'
  BY <1>a, EndedRecon, QuietReconciliation DEF ReconEnds
<1>1. CASE BeginReconciliation(r)
  <2>1. ReconEnds(r, "observe") /\ UNCHANGED <<job, now, minted, work>>
    BY <1>1 DEF BeginReconciliation, ReconEnds
  <2> QED BY <2>1, <1>a DEF ReconPCs
<1>2. CASE ObserveJob(r)
  <2>1. UNCHANGED <<job, now, minted, work>>
    BY <1>2 DEF ObserveJob
  <2>2. CASE \/ ReconEnds(r, "acked") /\ IsTerminal(job)
             \/ ReconEnds(r, "idle")
    BY <2>1, <2>2, <1>a DEF ReconPCs, Resting
  <2>3. CASE /\ job.status \in {"PROCESSING", "PENDING_UPLOAD"}
             /\ recon' = [recon EXCEPT ![r].pc = "judge", ![r].observed = job]
    <3> DEFINE me == [recon[r] EXCEPT !.pc = "judge", !.observed = job]
    <3>1. /\ recon' = [recon EXCEPT ![r] = me] /\ recon'[r] = me
          /\ me.pc = "judge" /\ me.observed = job
      BY <1>0, <2>3 DEF ReconStates
    <3>2. Older(job, job)
      BY <2>3, OlderOfItself
    <3> HIDE DEF me
    <3>3. ReconInv(r)'
      BY <2>1, <3>1, <3>2 DEF ReconInv
    <3> QED BY <2>1, <3>1, <3>3, QuietReconciliation
  <2> QED BY <1>2, <2>2, <2>3 DEF ObserveJob
<1>3. CASE JudgeJob(r)
  <2>1. UNCHANGED <<job, now, minted, work>>
    BY <1>3 DEF JudgeJob
  <2>2. CASE ReconEnds(r, "idle")
    BY <2>1, <2>2, <1>a DEF ReconPCs, Resting
  <2>3. ASSUME NEW t \in Readings,
               \/ recon[r].observed.status = "PENDING_UPLOAD"
               \/ IsLeaseExpired(recon[r].observed, t),
               recon' = [recon EXCEPT ![r].pc = "dead_read", ![r].markedAt = t]
        PROVE  IInv'
    <3> DEFINE me == [recon[r] EXCEPT !.pc = "dead_read", !.markedAt = t]
    <3>1. /\ recon' = [recon EXCEPT ![r] = me] /\ recon'[r] = me
          /\ me.pc = "dead_read" /\ me.observed = recon[r].observed /\ me.markedAt = t
      BY <1>0, <2>3 DEF ReconStates
    <3>2. t <= now + Skew
      BY <1>0, ReadingsType
    <3> HIDE DEF me
    <3>3. ReconInv(r)'
      BY <1>0, <1>3, <2>1, <2>3, <3>1, <3>2 DEF JudgeJob, ReconInv, IsLeaseExpired
    <3> QED BY <2>1, <3>1, <3>3, QuietReconciliation
  <2> QED BY <1>3, <2>2, <2>3 DEF JudgeJob
<1>4. CASE DeadRead(r)
  <2>1. UNCHANGED <<job, now, minted, work>>
    BY <1>4 DEF DeadRead
  <2>2. CASE ReconEnds(r, "idle")
    BY <2>1, <2>2, <1>a DEF ReconPCs, Resting
  <2>3. CASE ReconGoes(r, "reconcile_dead")
    <3>1. /\ recon' = [recon EXCEPT ![r] = [recon[r] EXCEPT !.pc = "reconcile_dead"]]
          /\ recon'[r].pc = "reconcile_dead"
      BY <1>0, <2>3 DEF ReconGoes, ReconStates
    <3>2. ReconInv(r)'
      BY <3>1 DEF ReconInv
    <3> QED BY <2>1, <3>1, <3>2, QuietReconciliation
  <2>4. CASE /\ DeadDecides(job, recon[r].observed.updatedAt)
             /\ DeadTimestampOK(job, recon[r].markedAt)
             /\ recon' = [recon EXCEPT ![r].pc = "dead_put", ![r].seen = job]
    <3> DEFINE me == [recon[r] EXCEPT !.pc = "dead_put", !.seen = job]
    <3>1. /\ recon' = [recon EXCEPT ![r] = me] /\ recon'[r] = me
          /\ me.pc = "dead_put" /\ me.observed = recon[r].observed
          /\ me.seen = job /\ me.markedAt = recon[r].markedAt
      BY <1>0, <2>4 DEF ReconStates
    <3>2. Older(job, job)
      BY <2>4, OlderOfItself DEF DeadDecides
    <3> HIDE DEF me
    <3>3. ReconInv(r)'
      BY <1>0, <1>4, <2>1, <2>4, <3>1, <3>2 DEF DeadRead, ReconInv
    <3> QED BY <2>1, <3>1, <3>3, QuietReconciliation
  <2> QED BY <1>4, <2>2, <2>3, <2>4 DEF DeadRead
<1>5. CASE DeadPut(r)
  <2>1. UNCHANGED <<now, minted, work>>
    BY <1>5 DEF DeadPut
  <2>2. CASE ~DeadCondition(job, recon[r].seen)
    <3>1. /\ recon' = [recon EXCEPT ![r] = [recon[r] EXCEPT !.pc = "reconcile_dead"]]
          /\ recon'[r].pc = "reconcile_dead" /\ job' = job
      BY <1>0, <1>5, <2>2 DEF DeadPut, ReconGoes, ReconStates
    <3>2. ReconInv(r)'
      BY <3>1 DEF ReconInv
    <3> QED BY <2>1, <3>1, <3>2, QuietReconciliation
  <2>3. CASE DeadCondition(job, recon[r].seen)
    <3>1. /\ Forward /\ IsTerminal(job') /\ job'.attempt = NoAttempt /\ JobInv'
      BY <1>5, <2>1, <2>3, DeadEffect DEF DeadPut
    <3>2. \A v \in Worker : Foreign(v)
      BY <3>1 DEF IInv, WorkInv, Foreign
    <3>3. \A s \in Reconciler \ {r} : recon'[s] = recon[s]
      BY <1>0, <1>5 DEF DeadPut, ReconEnds, ReconGoes
    <3>4. recon'[r].pc \in {"idle", "acked", "reconcile_dead"}
      BY <1>0, <1>5, <2>3 DEF DeadPut, ReconEnds, ReconGoes, RestingRecon, ReconStates
    <3>5. ReconInv(r)'
      BY <3>1, <3>4 DEF ReconInv, IsTerminal
    <3> QED BY <2>1, <3>1, <3>2, <3>3, <3>5, ReconciliationFrame
  <2> QED BY <2>2, <2>3
<1>6. CASE ReconcileDead(r)
  BY <1>6, <1>a DEF ReconcileDead, ReconPCs, Resting
<1>7. CASE AbandonReconciliation(r)
  BY <1>7, <1>a DEF AbandonReconciliation, ReconPCs, Resting
<1> QED BY <1>1, <1>2, <1>3, <1>4, <1>5, <1>6, <1>7 DEF ReconciliationStep

\* The passing of time preserves the inductive invariant: Lambda stops an
\* invocation at its deadline.
LEMMA InvTick == ASSUME TypeOK, IInv, Tick PROVE IInv'
<1>0. /\ now \in Nat /\ now' = now + 1 /\ UNCHANGED <<job, minted, work, recon>>
      /\ work \in [Worker -> WorkStates] /\ recon \in [Reconciler -> ReconStates]
  BY DEF Tick, TypeOK
<1>1. JobInv'
  BY <1>0 DEF IInv, JobInv, StoredJobRehydrates
<1>2. ASSUME NEW w \in Worker PROVE WorkInv(w)'
  <2>1. /\ WorkInv(w) /\ work[w].deadline \in Nat /\ work[w].claimedAt \in Nat
        /\ work[w].pc \notin Resting => now < work[w].deadline
    BY DEF IInv, TypeOK, WorkStates, Tick
  <2>2. LeaseRanOut(w) => LeaseRanOut(w)'
    BY <1>0, <2>1, ConstantsAssumption, LeaseAssumption DEF LeaseRanOut
  <2> QED BY <1>0, <2>1, <2>2, ConstantsAssumption DEF WorkInv
<1>3. ASSUME NEW v \in Worker, NEW w \in Worker PROVE PairInv(v, w)'
  <2>1. /\ PairInv(v, w) /\ work[v].claimedAt \in Nat /\ work[w].claimedAt \in Nat
    BY DEF IInv, TypeOK, WorkStates
  <2> QED BY <1>0, <2>1, ConstantsAssumption, LeaseAssumption DEF PairInv, LeaseRanOut
<1>4. ASSUME NEW r \in Reconciler PROVE ReconInv(r)'
  <2>1. ReconInv(r) /\ recon[r].markedAt \in Nat
    BY DEF IInv, TypeOK, ReconStates
  <2> QED BY <1>0, <2>1, ConstantsAssumption DEF ReconInv
<1> QED BY <1>1, <1>2, <1>3, <1>4 DEF IInv

\* The invariant the theorems below rest on.
THEOREM Invariance == Spec => [](TypeOK /\ IInv)
<1>1. TypeOK /\ IInv /\ [Next]_vars => TypeOK' /\ IInv'
  <2> SUFFICES ASSUME TypeOK, IInv, [Next]_vars PROVE TypeOK' /\ IInv'
    OBVIOUS
  <2>1. CASE \E w \in Worker : ProcessingStep(w)
    BY <2>1, TypeProcessing, InvProcessing
  <2>2. CASE \E r \in Reconciler : ReconciliationStep(r)
    BY <2>2, TypeReconciliation, InvReconciliation
  <2>3. CASE Tick
    BY <2>3, InvTick DEF Tick, TypeOK
  <2>4. CASE UNCHANGED vars
    BY <2>4 DEF vars, TypeOK, IInv, JobInv, StoredJobRehydrates, WorkInv, PairInv, ReconInv,
                LeaseRanOut
  <2> QED BY <2>1, <2>2, <2>3, <2>4 DEF Next
<1> QED BY <1>1, TypeInit, InvInit, PTL DEF Spec

---------------------------------------------------------------------------
(* The safety invariants *)

\* Every item the pipeline stores passes the validation of rehydrate, so no
\* put makes a later get_job of the job raise.
THEOREM StoredJobIsReadable == Spec => []StoredJobRehydrates
<1>1. IInv => StoredJobRehydrates
  BY DEF IInv, JobInv
<1> QED BY <1>1, Invariance, PTL

\* An invocation of either Lambda that acknowledged its delivery leaves a job
\* that is terminal, and stays so.
THEOREM AcknowledgedJobIsTerminal == Spec => []AckOnlyWhenTerminal
<1>1. IInv => AckOnlyWhenTerminal
  BY DEF IInv, WorkInv, ReconInv, AckOnlyWhenTerminal
<1> QED BY <1>1, Invariance, PTL

\* claim_job hands out a lease only when the one before it has run out, for
\* any number of competing invocations and any clock skew.
THEOREM LeaseExclusion == Spec => []ActiveLeaseIsExclusive
<1>1. TypeOK /\ IInv => ActiveLeaseIsExclusive
  <2> SUFFICES ASSUME TypeOK, IInv, NEW v \in Worker, NEW w \in Worker,
                      HoldsActiveLease(v), HoldsActiveLease(w), v # w
               PROVE  FALSE
    BY DEF ActiveLeaseIsExclusive
  <2>1. /\ work[v].claimedAt \in Nat /\ work[w].claimedAt \in Nat /\ now \in Nat
    BY DEF TypeOK, WorkStates
  <2>2. LeaseRanOut(v) \/ LeaseRanOut(w)
    BY DEF HoldsActiveLease, IInv, PairInv
  <2> QED BY <2>1, <2>2, ConstantsAssumption, LeaseAssumption
          DEF HoldsActiveLease, LeaseRanOut
<1> QED BY <1>1, Invariance, PTL

\* The (status, updated_at) comparison of the conditional puts is as good as
\* a version number: it never takes a newer item for the snapshot.
THEOREM VersionSoundness == Spec => []VersionTokenIsSound
<1>1. TypeOK /\ IInv => VersionTokenIsSound
  <2> SUFFICES ASSUME TypeOK, IInv PROVE VersionTokenIsSound
    OBVIOUS
  <2>1. ASSUME NEW w \in Worker, work[w].pc \in {"claim_put", "final_put"}
        PROVE  SameVersion(work[w].seen)
    <3>1. work[w].seen \in Jobs /\ job \in Jobs /\ Older(work[w].seen, job)
      BY <2>1 DEF TypeOK, WorkStates, IInv, WorkInv
    <3> QED BY <3>1, OlderIsSound DEF SameVersion
  <2>2. ASSUME NEW r \in Reconciler, recon[r].pc = "dead_put"
        PROVE  SameVersion(recon[r].seen)
    <3>1. recon[r].seen \in Jobs /\ job \in Jobs /\ Older(recon[r].seen, job)
      BY <2>2 DEF TypeOK, ReconStates, IInv, ReconInv
    <3> QED BY <3>1, OlderIsSound DEF SameVersion
  <2> QED BY <2>1, <2>2 DEF VersionTokenIsSound
<1> QED BY <1>1, Invariance, PTL

\* An item that nobody wrote since it was read satisfies the condition of the
\* put that follows the read, so a conflict is always someone else's doing.
THEOREM ConflictsAreChanges == Spec => []ConflictMeansChange
<1>1. TypeOK /\ IInv => ConflictMeansChange
  <2> SUFFICES ASSUME TypeOK, IInv PROVE ConflictMeansChange
    OBVIOUS
  <2>1. ASSUME NEW w \in Worker, work[w].pc = "claim_put", work[w].seen = job
        PROVE  ClaimCondition(job, work[w].seen, work[w].claimedAt)
    <3>1. job.leaseExpiresAt \in Nat /\ work[w].claimedAt \in Nat
      BY DEF TypeOK, WorkStates, Jobs
    <3>2. ClaimDecidesPut(job, work[w].claimedAt)
      BY <2>1 DEF IInv, WorkInv
    <3>3. job.status = "PROCESSING" => SortsUpTo(Iso(job.leaseExpiresAt), Iso(work[w].claimedAt))
      BY <3>1, <3>2, TextsSortAsInstants DEF ClaimDecidesPut, IsLeaseExpired
    <3> QED BY <2>1, <3>3 DEF ClaimCondition
  <2>2. ASSUME NEW w \in Worker, work[w].pc = "final_put", work[w].seen = job
        PROVE  FinalizationCondition(job, work[w].seen, work[w].attempt)
    <3>1. OwnedProcessingJob(job, work[w].attempt)
      BY <2>2 DEF IInv, WorkInv
    <3> QED BY <2>2, <3>1 DEF FinalizationCondition, OwnedProcessingJob
  <2>3. ASSUME NEW r \in Reconciler, recon[r].seen = job
        PROVE  DeadCondition(job, recon[r].seen)
    BY <2>3 DEF DeadCondition
  <2> QED BY <2>1, <2>2, <2>3 DEF ConflictMeansChange
<1> QED BY <1>1, Invariance, PTL

\* If the deployed Lambda timeout stays below the lease duration by twice the
\* clock skew, no two invocations are ever between claim and finalization.
THEOREM SingleHolder == TimeoutBelowLease => (Spec => []OneHolder)
<1> SUFFICES ASSUME TimeoutBelowLease PROVE Spec => []OneHolder
  OBVIOUS
<1>1. TypeOK /\ IInv => OneHolder
  <2> SUFFICES ASSUME TypeOK, IInv, NEW v \in Worker, NEW w \in Worker,
                      work[v].pc \in Holding, work[w].pc \in Holding, v # w
               PROVE  FALSE
    BY DEF OneHolder
  <2>1. LeaseRanOut(v) \/ LeaseRanOut(w)
    BY DEF IInv, PairInv
  <2>2. \A u \in {v, w} : ~LeaseRanOut(u)
    <3> SUFFICES ASSUME NEW u \in {v, w} PROVE ~LeaseRanOut(u)
      OBVIOUS
    <3>1. now <= work[u].deadline /\ work[u].deadline <= work[u].claimedAt + Skew + Timeout
      BY DEF IInv, WorkInv, Holding, Resting
    <3>2. /\ work[u].claimedAt \in Nat /\ work[u].deadline \in Nat /\ now \in Nat
      BY DEF TypeOK, WorkStates
    <3> QED BY <3>1, <3>2, ConstantsAssumption, LeaseAssumption
            DEF LeaseRanOut, TimeoutBelowLease
  <2> QED BY <2>1, <2>2
<1> QED BY <1>1, Invariance, PTL

---------------------------------------------------------------------------
(* The action properties *)

\* The three ways the item is written, with what the invariant knows of each.
WritesClaim(w) ==
    /\ work[w].pc = "claim_put" /\ work[w].claimedAt >= job.updatedAt
    /\ job.status \in {"PENDING_UPLOAD", "PROCESSING"}
    /\ work[w].attempt \notin {job.attempt, NoAttempt}
    /\ job' = ClaimedJob(job, work[w].attempt, work[w].claimedAt)

WritesFinalization(w) ==
    /\ work[w].pc = "final_put" /\ work[w].finalizedAt >= job.updatedAt
    /\ job.status = "PROCESSING"
    /\ job.attempt = work[w].attempt
    /\ job' = FinalizedJob(job, work[w].finalization, work[w].attempt, work[w].finalizedAt)

WritesDeath(r) ==
    /\ recon[r].pc = "dead_put"
    /\ job.status = "PROCESSING" => recon[r].markedAt >= job.updatedAt
    /\ job.status = "PROCESSING" \/ (job.status = "PENDING_UPLOAD" /\ job.attempts >= 1)
    /\ job.updatedAt = recon[r].observed.updatedAt
    /\ job' = MarkDead(job, recon[r].markedAt)

\* The writes of a processing invocation are its claim and its finalization.
LEMMA ProcessingWrites ==
    ASSUME TypeOK, IInv, NEW w \in Worker, ProcessingStep(w)
    PROVE  job' = job \/ WritesClaim(w) \/ WritesFinalization(w)
<1>1. CASE ClaimPut(w)
  <2>1. CASE ClaimCondition(job, work[w].seen, work[w].claimedAt)
    BY <1>1, <2>1, ClaimEffect DEF ClaimPut, WritesClaim
  <2> QED BY <1>1, <2>1 DEF ClaimPut
<1>2. CASE FinalPut(w)
  <2>1. CASE FinalizationCondition(job, work[w].seen, work[w].attempt)
    BY <1>2, <2>1, FinalEffect DEF FinalPut, WritesFinalization
  <2> QED BY <1>2, <2>1 DEF FinalPut
<1> QED BY <1>1, <1>2 DEF ProcessingStep, BeginProcessing, GetJob, ClaimRead,
           ReconcileClaim, Execute, FinalRead, AbandonProcessing

\* The one write of a reconciling invocation marks the job dead.
LEMMA ReconciliationWrites ==
    ASSUME TypeOK, IInv, NEW r \in Reconciler, ReconciliationStep(r)
    PROVE  job' = job \/ WritesDeath(r)
<1>1. CASE DeadPut(r)
  <2>1. CASE DeadCondition(job, recon[r].seen)
    BY <1>1, <2>1, DeadEffect DEF DeadPut, WritesDeath
  <2> QED BY <1>1, <2>1 DEF DeadPut
<1> QED BY <1>1 DEF ReconciliationStep, BeginReconciliation, ObserveJob, JudgeJob,
           DeadRead, ReconcileDead, AbandonReconciliation

\* Every change of the item is one of the three writes.
LEMMA JobWrites ==
    ASSUME TypeOK, IInv, [Next]_vars
    PROVE  \/ job' = job
           \/ \E w \in Worker : WritesClaim(w) \/ WritesFinalization(w)
           \/ \E r \in Reconciler : WritesDeath(r)
<1>1. CASE \E w \in Worker : ProcessingStep(w)
  BY <1>1, ProcessingWrites
<1>2. CASE \E r \in Reconciler : ReconciliationStep(r)
  BY <1>2, ReconciliationWrites
<1> QED BY <1>1, <1>2 DEF Next, Tick, vars

\* No duplicate delivery, stale worker or reconciliation rewrites a job that
\* succeeded, failed or died.
THEOREM TerminalFinality == Spec => TerminalJobIsFinal
<1>1. TypeOK /\ IInv /\ [Next]_vars => [IsTerminal(job) => UNCHANGED job]_vars
  BY JobWrites DEF WritesClaim, WritesFinalization, WritesDeath, IsTerminal, TerminalStatuses
<1> QED BY <1>1, Invariance, PTL DEF Spec, TerminalJobIsFinal

\* Dead-letter reconciliation kills a claimed job only for the attempt that it
\* observed and after its lease, save for a claim that bears the timestamp of
\* the release it follows (the condition of mark_dead).
THEOREM ReconciliationSparesLeases == Spec => DeadSparesActiveLease
<1> DEFINE Spares == \A r \in Reconciler :
              KillsAttempt(r) =>
                  \/ job.attempt = recon[r].observed.attempt /\ now + Skew >= job.leaseExpiresAt
                  \/ TiedWithRelease(r)
<1>1. TypeOK /\ IInv /\ [Next]_vars => Spares
  <2> SUFFICES ASSUME TypeOK, IInv, [Next]_vars, NEW r \in Reconciler, KillsAttempt(r)
               PROVE  \/ /\ job.attempt = recon[r].observed.attempt
                         /\ now + Skew >= job.leaseExpiresAt
                      \/ TiedWithRelease(r)
    OBVIOUS
  <2>1. ReconciliationStep(r)
    <3>1. ~\E w \in Worker : ProcessingStep(w)
      BY DEF KillsAttempt, ProcessingStep, BeginProcessing, GetJob, ClaimRead, ClaimPut,
             ReconcileClaim, Execute, FinalRead, FinalPut, AbandonProcessing
    <3>2. ASSUME NEW s \in Reconciler, ReconciliationStep(s) PROVE s = r
      BY <3>2 DEF KillsAttempt, TypeOK, ReconciliationStep, BeginReconciliation, ObserveJob,
             JudgeJob, DeadRead, DeadPut, ReconcileDead, AbandonReconciliation, ReconEnds,
             ReconGoes
    <3> QED BY <3>1, <3>2 DEF Next, Tick, vars, KillsAttempt
  <2>2. WritesDeath(r)
    BY <2>1, ReconciliationWrites DEF KillsAttempt
  <2>3. /\ recon[r].observed \in Jobs /\ recon[r].markedAt \in Nat
        /\ job \in Jobs /\ now \in Nat
    BY DEF TypeOK, ReconStates
  <2>4. /\ Older(recon[r].observed, job)
        /\ recon[r].markedAt <= now + Skew
        /\ recon[r].observed.status = "PROCESSING" =>
             recon[r].markedAt >= recon[r].observed.leaseExpiresAt
    BY <2>2 DEF IInv, ReconInv, IsLeaseExpired, WritesDeath
  <2>5. CASE recon[r].observed.status = "PENDING_UPLOAD"
    BY <2>2, <2>5 DEF TiedWithRelease, WritesDeath
  <2>6. CASE recon[r].observed.status = "PROCESSING"
    <3>1. recon[r].observed = job
      BY <2>2, <2>3, <2>4, <2>6, OlderIsSound DEF WritesDeath, KillsAttempt
    <3> QED BY <2>3, <2>4, <2>6, <3>1, ConstantsAssumption DEF Jobs
  <2> QED BY <2>4, <2>5, <2>6 DEF Older
<1>2. TypeOK /\ IInv /\ [Next]_vars => [Spares]_vars
  BY <1>1
<1> QED BY <1>2, Invariance, PTL DEF Spec, DeadSparesActiveLease

---------------------------------------------------------------------------
(* The timestamps *)

\* The timestamps that the writes put are later than those they replace, but
\* for the death of a released job.
LEMMA StampedWrites ==
    ASSUME TypeOK, IInv, ClockInv, [Next]_vars
    PROVE  \/ job'.updatedAt = job.updatedAt
           \/ job.updatedAt <= job'.updatedAt /\ job'.updatedAt <= now + Skew
           \/ /\ job.status = "PENDING_UPLOAD" /\ job'.status = "DEAD"
              /\ job.updatedAt <= job'.updatedAt + 2 * Skew /\ job'.updatedAt <= now + Skew
<1>1. ASSUME NEW w \in Worker, WritesClaim(w)
      PROVE  job.updatedAt <= job'.updatedAt /\ job'.updatedAt <= now + Skew
  <2>1. job'.updatedAt = work[w].claimedAt /\ work[w].claimedAt <= now + Skew
    BY <1>1 DEF WritesClaim, ClaimedJob, StartProcessing, IInv, WorkInv, Resting
  <2> QED BY <1>1, <2>1 DEF WritesClaim
<1>2. ASSUME NEW w \in Worker, WritesFinalization(w)
      PROVE  job.updatedAt <= job'.updatedAt /\ job'.updatedAt <= now + Skew
  <2>1. job'.updatedAt = work[w].finalizedAt
    BY <1>2 DEF WritesFinalization, FinalizedJob, MarkSucceeded, MarkFailed, ReleaseForRetry,
                EndAttempt
  <2>2. work[w].finalizedAt <= now + Skew
    BY <1>2 DEF WritesFinalization, ClockInv
  <2> QED BY <1>2, <2>1, <2>2 DEF WritesFinalization
<1>3. ASSUME NEW r \in Reconciler, WritesDeath(r)
      PROVE  /\ job'.status = "DEAD" /\ job'.updatedAt <= now + Skew
             /\ job.status = "PROCESSING" => job.updatedAt <= job'.updatedAt
             /\ job.updatedAt <= job'.updatedAt + 2 * Skew
             /\ job.status \in {"PENDING_UPLOAD", "PROCESSING"}
  <2>1. job'.updatedAt = recon[r].markedAt /\ job'.status = "DEAD"
    BY <1>3 DEF WritesDeath, MarkDead, EndAttempt
  <2>2. recon[r].markedAt <= now + Skew
    BY <1>3 DEF WritesDeath, IInv, ReconInv
  <2>3. recon[r].observed.updatedAt <= recon[r].markedAt + 2 * Skew
    BY <1>3 DEF WritesDeath, ClockInv
  <2> QED BY <1>3, <2>1, <2>2, <2>3 DEF WritesDeath
<1> QED BY <1>1, <1>2, <1>3, JobWrites

\* The bounds hold initially: a new job bears a clock reading.
LEMMA ClockInit == Init => ClockInv
<1> SUFFICES ASSUME Init PROVE ClockInv
  OBVIOUS
<1>1. job.updatedAt <= now + Skew
  <2>1. NoJob.updatedAt = 0 /\ \A t : NewJob(t).updatedAt = t
    BY DEF NoJob, NewJob
  <2>2. now = 0 /\ now \in Nat
    BY DEF Init
  <2> QED BY <2>1, <2>2, ConstantsAssumption, ReadingsType DEF Init
<1> QED BY <1>1 DEF Init, ClockInv, RestingWork, RestingRecon

\* A processing invocation stamps its finalization with a clock reading.
LEMMA ClockProcessing ==
    ASSUME TypeOK, IInv, ClockInv, job'.updatedAt <= now + Skew,
           NEW w \in Worker, ProcessingStep(w)
    PROVE  ClockInv'
<1> USE DEF TypeOK
<1>0. now' = now /\ recon' = recon
  BY DEF ProcessingStep, BeginProcessing, GetJob, ClaimRead, ClaimPut, ReconcileClaim,
         Execute, FinalRead, FinalPut, AbandonProcessing
<1>1. \A v \in Worker \ {w} : work'[v] = work[v]
  BY DEF ProcessingStep, BeginProcessing, GetJob, ClaimRead, ClaimPut, ReconcileClaim,
         Execute, FinalRead, FinalPut, AbandonProcessing, WorkGoes, WorkEnds
<1>2. work'[w].pc \in {"final_read", "final_put"} => work'[w].finalizedAt <= now + Skew
  <2>0. work[w] \in WorkStates
    OBVIOUS
  <2>1. CASE Execute(w)
    BY <2>0, <2>1, ReadingsType DEF Execute, WorkStates
  <2>2. CASE FinalRead(w)
    BY <2>0, <2>2 DEF FinalRead, WorkEnds, RestingWork, WorkStates, ClockInv
  <2>3. CASE BeginProcessing(w)
    BY <2>0, <2>3 DEF BeginProcessing, RestingWork, WorkStates
  <2>4. CASE GetJob(w) \/ ClaimRead(w) \/ ClaimPut(w)
    BY <2>0, <2>4 DEF GetJob, ClaimRead, ClaimPut, WorkEnds, WorkGoes, RestingWork, WorkStates
  <2>5. CASE ReconcileClaim(w) \/ FinalPut(w) \/ AbandonProcessing(w)
    BY <2>0, <2>5 DEF ReconcileClaim, FinalPut, AbandonProcessing, WorkEnds, RestingWork
  <2> QED BY <2>1, <2>2, <2>3, <2>4, <2>5 DEF ProcessingStep
<1> QED BY <1>0, <1>1, <1>2 DEF ClockInv

\* A reconciling invocation reads its clock after the job, so that the reading
\* is at most two clock errors behind what it observed.
LEMMA ClockReconciliation ==
    ASSUME TypeOK, IInv, ClockInv, job'.updatedAt <= now + Skew,
           NEW r \in Reconciler, ReconciliationStep(r)
    PROVE  ClockInv'
<1> USE DEF TypeOK
<1>0. now' = now /\ work' = work
  BY DEF ReconciliationStep, BeginReconciliation, ObserveJob, JudgeJob, DeadRead, DeadPut,
         ReconcileDead, AbandonReconciliation
<1>1. \A q \in Reconciler \ {r} : recon'[q] = recon[q]
  BY DEF ReconciliationStep, BeginReconciliation, ObserveJob, JudgeJob, DeadRead, DeadPut,
         ReconcileDead, AbandonReconciliation, ReconGoes, ReconEnds
<1>2. /\ recon'[r].pc = "judge" => recon'[r].observed.updatedAt <= now + Skew
      /\ recon'[r].pc \in {"dead_read", "dead_put"} =>
           recon'[r].observed.updatedAt <= recon'[r].markedAt + 2 * Skew
  <2>0. recon[r] \in ReconStates
    OBVIOUS
  <2>1. CASE ObserveJob(r)
    BY <2>0, <2>1 DEF ObserveJob, ReconEnds, RestingRecon, ReconStates, ClockInv
  <2>2. CASE JudgeJob(r)
    <3>0. recon[r].observed.updatedAt <= now + Skew
      BY <2>2 DEF JudgeJob, ClockInv
    <3>1. ASSUME NEW t \in Readings PROVE recon[r].observed.updatedAt <= t + 2 * Skew
      <4>1. /\ recon[r].observed.updatedAt \in Nat /\ now \in Nat /\ Skew \in Nat
            /\ t \in Nat /\ now <= t + Skew
        BY <2>0, ReadingsType, ConstantsAssumption DEF ReconStates, Jobs
      <4> QED BY <3>0, <4>1
    <3> QED BY <2>0, <2>2, <3>1 DEF JudgeJob, ReconEnds, RestingRecon, ReconStates
  <2>3. CASE DeadRead(r)
    BY <2>0, <2>3 DEF DeadRead, ReconEnds, ReconGoes, RestingRecon, ReconStates, ClockInv
  <2>4. CASE BeginReconciliation(r) \/ DeadPut(r) \/ ReconcileDead(r) \/ AbandonReconciliation(r)
    BY <2>0, <2>4 DEF BeginReconciliation, DeadPut, ReconcileDead, AbandonReconciliation,
       ReconEnds, ReconGoes, RestingRecon, ReconStates
  <2> QED BY <2>1, <2>2, <2>3, <2>4 DEF ReconciliationStep
<1> QED BY <1>0, <1>1, <1>2 DEF ClockInv

\* Time only makes the bounds wider.
LEMMA ClockTick == ASSUME TypeOK, ClockInv, Tick PROVE ClockInv'
<1>1. /\ job.updatedAt \in Nat /\ now \in Nat /\ Skew \in Nat
      /\ \A w \in Worker : work[w].finalizedAt \in Nat
      /\ \A r \in Reconciler : recon[r].observed.updatedAt \in Nat
  BY ConstantsAssumption DEF TypeOK, WorkStates, ReconStates, Jobs
<1>2. \A n \in Nat : n <= now + Skew => n <= now' + Skew
  BY <1>1 DEF Tick
<1> QED BY <1>1, <1>2 DEF Tick, ClockInv

\* The clocks bound the timestamps.
LEMMA ClockInvariance == Spec => []ClockInv
<1>1. TypeOK /\ IInv /\ ClockInv /\ [Next]_vars => ClockInv'
  <2> SUFFICES ASSUME TypeOK, IInv, ClockInv, [Next]_vars PROVE ClockInv'
    OBVIOUS
  <2>1. job'.updatedAt <= now + Skew
    BY StampedWrites DEF ClockInv
  <2>2. CASE \E w \in Worker : ProcessingStep(w)
    BY <2>1, <2>2, ClockProcessing
  <2>3. CASE \E r \in Reconciler : ReconciliationStep(r)
    BY <2>1, <2>3, ClockReconciliation
  <2>4. CASE Tick
    BY <2>4, ClockTick
  <2>5. CASE UNCHANGED vars
    BY <2>5 DEF vars, ClockInv
  <2> QED BY <2>2, <2>3, <2>4, <2>5 DEF Next
<1> QED BY <1>1, ClockInit, Invariance, PTL DEF Spec

\* No write is stamped earlier than the one before it, but for the death of a
\* released job, which goes back by at most twice the clocks' error.
THEOREM TimestampsAdvance == Spec => UpdatedAtGoesBackOnlyAtDeath
<1> DEFINE Advances == job'.updatedAt < job.updatedAt =>
               /\ job.status = "PENDING_UPLOAD" /\ job'.status = "DEAD"
               /\ job.updatedAt <= job'.updatedAt + 2 * Skew
<1>1. TypeOK /\ IInv /\ ClockInv /\ [Next]_vars => Advances
  <2> SUFFICES ASSUME TypeOK, IInv, ClockInv, [Next]_vars PROVE Advances
    OBVIOUS
  <2>1. job.updatedAt \in Nat /\ job'.updatedAt \in Nat
    BY TypeStep DEF TypeOK, Jobs
  <2> QED BY <2>1, StampedWrites
<1>2. TypeOK /\ IInv /\ ClockInv /\ [Next]_vars => [Advances]_vars
  BY <1>1
<1> QED BY <1>2, Invariance, ClockInvariance, PTL DEF Spec, UpdatedAtGoesBackOnlyAtDeath

---------------------------------------------------------------------------
(* Refinement *)

\* The attempt identifiers generated stay within the range of the abstract ones.
LEMMA MintedIsBounded == Spec => [](minted <= MaxAttempts)
<1> DEFINE Bounded == minted \in Nat /\ minted <= MaxAttempts
<1>1. Init => Bounded
  BY ConstantsAssumption DEF Init
<1>2. Bounded /\ [Next]_vars => Bounded'
  <2> SUFFICES ASSUME Bounded, [Next]_vars PROVE Bounded'
    OBVIOUS
  <2>1. ASSUME NEW w \in Worker, GetJob(w) PROVE Bounded'
    BY <2>1, ConstantsAssumption DEF GetJob
  <2>2. ASSUME NEW w \in Worker, ProcessingStep(w), ~GetJob(w) PROVE minted' = minted
    BY <2>2 DEF ProcessingStep, BeginProcessing, ClaimRead, ClaimPut,
           ReconcileClaim, Execute, FinalRead, FinalPut, AbandonProcessing
  <2>3. ASSUME NEW r \in Reconciler, ReconciliationStep(r) PROVE minted' = minted
    BY <2>3 DEF ReconciliationStep, BeginReconciliation, ObserveJob, JudgeJob, DeadRead,
           DeadPut, ReconcileDead, AbandonReconciliation
  <2> QED BY <2>1, <2>2, <2>3 DEF Next, Tick, vars
<1> QED BY <1>1, <1>2, PTL DEF Spec

\* The initial states map to initial states of the lifecycle.
LEMMA LifeInitially == Init => Lifecycle!LifeInit
<1>1. \A t : /\ NewJob(t).status = "PENDING_UPLOAD" /\ NewJob(t).attempts = 0
             /\ NewJob(t).attempt = 0 /\ NewJob(t).result = 0
  BY DEF NewJob, NoJob, NoAttempt
<1>2. NoJob.status = "ABSENT" /\ NoJob.attempts = 0 /\ NoJob.attempt = 0 /\ NoJob.result = 0
  BY DEF NoJob, NoAttempt
<1> QED BY <1>1, <1>2 DEF Init, Lifecycle!LifeInit

\* A step that changes the item is a step of the lifecycle.
LEMMA LifeSteps ==
    ASSUME TypeOK, IInv, minted <= MaxAttempts, [Next]_vars,
           job' # job
    PROVE  Lifecycle!LifeNext
<1>0. job \in Jobs /\ minted \in Nat
  BY DEF TypeOK
<1>r. job.status \in {"PENDING_UPLOAD", "PROCESSING"} => job.result = NoAttempt
  BY DEF IInv, JobInv, StoredJobRehydrates, ReadsBack, Rehydrates
<1>1. ASSUME NEW w \in Worker, WritesClaim(w) PROVE Lifecycle!LifeNext
  <2>1. work[w].attempt \in 1 .. MaxAttempts
    <3>1. work[w].attempt \in Nat /\ work[w].attempt <= minted
      BY DEF TypeOK, WorkStates, IInv, WorkInv
    <3> QED BY <1>0, <1>1, <3>1, ConstantsAssumption DEF WritesClaim, NoAttempt
  <2>2. /\ job'.status = "PROCESSING" /\ job'.attempts = job.attempts + 1
        /\ job'.attempt = work[w].attempt /\ job'.result = job.result
    BY <1>1, <1>r DEF WritesClaim, ClaimedJob, StartProcessing
  <2> QED BY <1>1, <2>1, <2>2 DEF WritesClaim, Lifecycle!LifeNext, Lifecycle!Claim
<1>2. ASSUME NEW w \in Worker, WritesFinalization(w) PROVE Lifecycle!LifeNext
  <2>0. work[w].finalization \in Finalizations /\ job.status = "PROCESSING"
        /\ job.attempt = work[w].attempt
    BY <1>2 DEF TypeOK, WorkStates, WritesFinalization
  <2>1. CASE work[w].finalization = "complete"
    <3>1. /\ job'.status = "SUCCEEDED" /\ job'.attempts = job.attempts
          /\ job'.attempt = 0 /\ job'.result = job.attempt
      BY <1>2, <2>0, <2>1 DEF WritesFinalization, FinalizedJob, MarkSucceeded, EndAttempt,
         NoAttempt
    <3> QED BY <2>0, <3>1 DEF Lifecycle!LifeNext, Lifecycle!Succeed
  <2>2. CASE work[w].finalization = "fail"
    <3>1. /\ job'.status = "FAILED" /\ job'.attempts = job.attempts
          /\ job'.attempt = 0 /\ job'.result = job.result
      BY <1>2, <1>r, <2>0, <2>2 DEF WritesFinalization, FinalizedJob, MarkFailed, EndAttempt,
         NoAttempt
    <3> QED BY <2>0, <3>1 DEF Lifecycle!LifeNext, Lifecycle!Fail
  <2>3. CASE work[w].finalization = "release"
    <3>1. /\ job'.status = "PENDING_UPLOAD" /\ job'.attempts = job.attempts
          /\ job'.attempt = 0 /\ job'.result = job.result
      BY <1>2, <1>r, <2>0, <2>3 DEF WritesFinalization, FinalizedJob, ReleaseForRetry,
         EndAttempt, NoAttempt
    <3> QED BY <2>0, <3>1 DEF Lifecycle!LifeNext, Lifecycle!Release
  <2> QED BY <2>0, <2>1, <2>2, <2>3 DEF Finalizations
<1>3. ASSUME NEW r \in Reconciler, WritesDeath(r) PROVE Lifecycle!LifeNext
  <2>1. /\ job'.status = "DEAD" /\ job'.attempts = job.attempts
        /\ job'.attempt = 0 /\ job'.result = job.result
    BY <1>3, <1>r DEF WritesDeath, MarkDead, EndAttempt, NoAttempt
  <2> QED BY <1>3, <2>1 DEF WritesDeath, Lifecycle!LifeNext, Lifecycle!Die
<1> QED BY <1>1, <1>2, <1>3, JobWrites

\* The code's protocol of separate reads and conditional puts, with leases,
\* skewed clocks, crashes and lost replies, implements the lifecycle in which
\* every operation is atomic.
THEOREM Refinement == Spec => ImplementsLifecycle
<1>1. TypeOK /\ IInv /\ minted <= MaxAttempts /\ [Next]_vars
        => [Lifecycle!LifeNext]_(Lifecycle!life)
  BY LifeSteps DEF Lifecycle!life
<1> QED BY <1>1, LifeInitially, Invariance, MintedIsBounded, PTL
        DEF Spec, ImplementsLifecycle, Lifecycle!LifeSpec
===========================================================================
