------------------------ MODULE DocumentProcessing -------------------------
(***************************************************************************)
(* One document job worked on by concurrent Lambda invocations.            *)
(*                                                                         *)
(* A worker is an execution slot of the processing Lambda: an invocation   *)
(* runs ProcessUploadedDocument.execute for one delivery of the upload     *)
(* event.  A reconciler is an execution slot of the dead-letter Lambda: an *)
(* invocation runs ReconcileDeadLetteredDocument.execute.  Deliveries are  *)
(* at least once and come at any moment, so a slot that rests may start an *)
(* invocation whenever it likes; which deliveries the queues really make   *)
(* is the business of module DocumentPipeline.                             *)
(*                                                                         *)
(* Every access to the DynamoDB item is an action of its own, and so is    *)
(* every reading of a clock: whatever another invocation does may come     *)
(* between them.  An invocation may be abandoned in any of its steps (a    *)
(* crash, the Lambda timeout, a failed call to DynamoDB, an exception      *)
(* nobody expects), and the reply to a put that took effect may get lost.  *)
(***************************************************************************)
EXTENDS DocumentJobRepository

CONSTANTS
    Worker,        \* execution slots of the processing Lambda
    Reconciler,    \* execution slots of the dead-letter Lambda
    Timeout,       \* the processing Lambda's timeout
    Skew,          \* how far a host's clock may be off
    MaxTime,       \* bound of the model: the last instant
    MaxAttempts    \* bound of the model: attempt identifiers generated

ASSUME ConstantsAssumption ==
    /\ Timeout \in Nat \ {0}
    /\ Skew \in Nat
    /\ MaxTime \in Nat
    /\ MaxAttempts \in Nat

VARIABLES
    job,      \* the item stored in DynamoDB
    now,      \* real time
    minted,   \* attempt identifiers generated so far
    work,     \* the local state of each processing invocation
    recon     \* the local state of each reconciling invocation

vars == <<job, now, minted, work, recon>>

\* Where a slot rests: its last invocation acknowledged the delivery, or it
\* never ran or reported its delivery for redelivery.
Resting == {"idle", "acked"}

\* The claim has been acquired and the invocation has not ended.
Holding == {"execute", "final_read", "final_put"}

WorkPCs == Resting \union Holding
             \union {"get", "claim_read", "claim_put", "reconcile_claim"}

ReconPCs == Resting
              \union {"observe", "judge", "dead_read", "dead_put", "reconcile_dead"}

\* claimedAt and attempt are the claim's, seen the job as the repository
\* operation under way read it, finalization and finalizedAt the transition
\* that ends the attempt, deadline the instant Lambda stops the invocation.
WorkStates == [pc : WorkPCs, deadline : Nat, claimedAt : Nat, attempt : Nat,
               seen : Jobs, finalization : Finalizations, finalizedAt : Nat]

RestingWork(pc) ==
    [pc |-> pc, deadline |-> 0, claimedAt |-> 0, attempt |-> NoAttempt,
     seen |-> NoJob, finalization |-> "release", finalizedAt |-> 0]

\* observed is the snapshot the decision to reconcile is taken on, seen the
\* job as mark_dead read it again.
ReconStates == [pc : ReconPCs, observed : Jobs, markedAt : Nat, seen : Jobs]

RestingRecon(pc) ==
    [pc |-> pc, observed |-> NoJob, markedAt |-> 0, seen |-> NoJob]

\* The types of the variables.
TypeOK ==
    /\ job \in Jobs
    /\ now \in Nat
    /\ minted \in Nat
    /\ work \in [Worker -> WorkStates]
    /\ recon \in [Reconciler -> ReconStates]

\* What a host's clock may read.
Readings == {t \in 0 .. now + Skew : t + Skew >= now}

\* The event names a job that CreateDocumentJob stored, or none.
Init ==
    /\ now = 0
    /\ job \in {NoJob} \union {NewJob(t) : t \in Readings}
    /\ minted = 0
    /\ work = [w \in Worker |-> RestingWork("idle")]
    /\ recon = [r \in Reconciler |-> RestingRecon("idle")]

---------------------------------------------------------------------------
(* The processing invocation *)

WorkGoes(w, pc) == work' = [work EXCEPT ![w].pc = pc]

\* The invocation ends; nothing of its local state survives.
WorkEnds(w, pc) == work' = [work EXCEPT ![w] = RestingWork(pc)]

\* StartDocumentProcessing.execute reads the clock before it reads the job.
BeginProcessing(w) ==
    /\ work[w].pc \in Resting
    /\ \E t \in Readings :
         work' = [work EXCEPT ![w] =
                    [RestingWork("get") EXCEPT !.claimedAt = t,
                                               !.deadline = now + Timeout]]
    /\ UNCHANGED <<job, now, minted, recon>>

\* Only a job that is pending, or whose claim's lease expired by the clock
\* reading, is worth a claim.
MayClaim(at) ==
    \/ job.status = "PENDING_UPLOAD"
    \/ job.status = "PROCESSING" /\ IsLeaseExpired(job, at)

GetJob(w) ==
    /\ work[w].pc = "get"
    /\ \/ /\ IsTerminal(job)                    \* effect_already_applied
          /\ WorkEnds(w, "acked")
          /\ UNCHANGED minted
       \/ /\ ~IsTerminal(job)                   \* not found, or already active
          /\ ~MayClaim(work[w].claimedAt)
          /\ WorkEnds(w, "idle")
          /\ UNCHANGED minted
       \/ /\ MayClaim(work[w].claimedAt)
          /\ minted < MaxAttempts
          /\ minted' = minted + 1
          /\ work' = [work EXCEPT ![w].pc = "claim_read", ![w].attempt = minted + 1]
    /\ UNCHANGED <<job, now, recon>>

\* claim_job, up to the put.
ClaimRead(w) ==
    /\ work[w].pc = "claim_read"
    /\ \/ /\ ClaimDecidesPut(job, work[w].claimedAt)
          /\ work' = [work EXCEPT ![w].pc = "claim_put", ![w].seen = job]
       \/ /\ ClaimConflicts(job, work[w].claimedAt)
          /\ WorkGoes(w, "reconcile_claim")
       \/ /\ ClaimRaises(job, work[w].claimedAt)
          /\ WorkEnds(w, "idle")
    /\ UNCHANGED <<job, now, minted, recon>>

\* The put of claim_job.  When a put took effect the caller learns so, or
\* learns nothing (the connection broke), or meets a failed condition: the
\* SDK sent the request again and the second one met the effect of the first.
\* Either translation of a failed condition leads to
\* the same reconciliation.
ClaimPut(w) ==
    /\ work[w].pc = "claim_put"
    /\ \/ /\ ClaimCondition(job, work[w].seen, work[w].claimedAt)
          /\ job' = ClaimedJob(work[w].seen, work[w].attempt, work[w].claimedAt)
          /\ \/ work' = [work EXCEPT ![w].pc = "execute", ![w].seen = NoJob]
             \/ WorkEnds(w, "idle")             \* the reply is lost
             \/ WorkGoes(w, "reconcile_claim")  \* the put is sent twice
       \/ /\ ~ClaimCondition(job, work[w].seen, work[w].claimedAt)
          /\ WorkGoes(w, "reconcile_claim")
          /\ UNCHANGED job
    /\ UNCHANGED <<now, minted, recon>>

\* Mutant: losing the claim to an active owner ends the delivery well.
ReconcileClaimTrustsOwner(w) ==
    /\ work[w].pc = "reconcile_claim"
    /\ WorkEnds(w, IF job.status \in TerminalStatuses \union {"PROCESSING"} THEN "acked" ELSE "idle")
    /\ UNCHANGED <<job, now, minted, recon>>

\* _reconcile_claim_conflict: only a terminal job ends the delivery well.
ReconcileClaim(w) ==
    /\ work[w].pc = "reconcile_claim"
    /\ WorkEnds(w, IF IsTerminal(job) THEN "acked" ELSE "idle")
    /\ UNCHANGED <<job, now, minted, recon>>

\* How loading the document and extracting it can end, and the transition
\* ProcessUploadedDocument asks of the repository for each.
FinalizationOf ==
    [missing_etag         |-> "fail",
     document_not_found   |-> "fail",
     document_invalid     |-> "fail",
     document_unavailable |-> "release",
     blank_document       |-> "fail",
     response_invalid     |-> "fail",
     provider_unavailable |-> "release",
     extracted            |-> "complete"]

\* Loads the document, invokes the provider, and reads the clock again to
\* stamp the transition.  The claim's put lies between the two readings, so
\* they differ (by either sign when the clock is stepped).
Execute(w) ==
    /\ work[w].pc = "execute"
    /\ \E outcome \in DOMAIN FinalizationOf, t \in Readings \ {work[w].claimedAt} :
         work' = [work EXCEPT ![w].pc = "final_read",
                              ![w].finalization = FinalizationOf[outcome],
                              ![w].finalizedAt = t]
    /\ UNCHANGED <<job, now, minted, recon>>

\* complete_job, fail_job or release_retryable_claim, up to the put.  The
\* job has moved on to another owner or state, or the domain refuses the
\* timestamp: all three are reported for redelivery.
FinalRead(w) ==
    /\ work[w].pc = "final_read"
    /\ \/ /\ OwnedProcessingJob(job, work[w].attempt)
          /\ MutationTimestampOK(job, work[w].finalizedAt)
          /\ work' = [work EXCEPT ![w].pc = "final_put", ![w].seen = job]
       \/ /\ \/ ~OwnedProcessingJob(job, work[w].attempt)
             \/ ~MutationTimestampOK(job, work[w].finalizedAt)
          /\ WorkEnds(w, "idle")
    /\ UNCHANGED <<job, now, minted, recon>>

\* The put.  A released claim is followed by the dependency error that caused
\* the release, so only a recorded result or failure acknowledges.
FinalPut(w) ==
    /\ work[w].pc = "final_put"
    /\ \/ /\ FinalizationCondition(job, work[w].seen, work[w].attempt)
          /\ job' = FinalizedJob(work[w].seen, work[w].finalization,
                                 work[w].attempt, work[w].finalizedAt)
          /\ \/ WorkEnds(w, IF work[w].finalization = "release" THEN "idle" ELSE "acked")
             \/ WorkEnds(w, "idle")             \* the reply is lost, or sent twice
       \/ /\ ~FinalizationCondition(job, work[w].seen, work[w].attempt)
          /\ WorkEnds(w, "idle")
          /\ UNCHANGED job
    /\ UNCHANGED <<now, minted, recon>>

\* A crash, the timeout, a DynamoDB error on a call that took no effect, or
\* an unexpected exception.  A claim that is held stays in the item.
AbandonProcessing(w) ==
    /\ work[w].pc \notin Resting
    /\ WorkEnds(w, "idle")
    /\ UNCHANGED <<job, now, minted, recon>>

---------------------------------------------------------------------------
(* The reconciling invocation *)

ReconGoes(r, pc) == recon' = [recon EXCEPT ![r].pc = pc]

ReconEnds(r, pc) == recon' = [recon EXCEPT ![r] = RestingRecon(pc)]

BeginReconciliation(r) ==
    /\ recon[r].pc \in Resting
    /\ recon' = [recon EXCEPT ![r] = RestingRecon("observe")]
    /\ UNCHANGED <<job, now, minted, work>>

\* The authoritative read: a missing job and one that never was attempted
\* are refused, a terminal one is accepted as it is.
ObserveJob(r) ==
    /\ recon[r].pc = "observe"
    /\ \/ /\ IsTerminal(job)
          /\ ReconEnds(r, "acked")
       \/ /\ \/ job.status = "ABSENT"
             \/ job.status = "PENDING_UPLOAD" /\ job.attempts < 1
          /\ ReconEnds(r, "idle")
       \/ /\ \/ job.status = "PROCESSING"
             \/ job.status = "PENDING_UPLOAD" /\ job.attempts >= 1
          /\ recon' = [recon EXCEPT ![r].pc = "judge", ![r].observed = job]
    /\ UNCHANGED <<job, now, minted, work>>

\* _require_reconciliation_eligibility: the clock is read after the job.
JudgeJob(r) ==
    /\ recon[r].pc = "judge"
    /\ \E t \in Readings :
         \/ /\ recon[r].observed.status = "PROCESSING"
            /\ ~IsLeaseExpired(recon[r].observed, t)
            /\ ReconEnds(r, "idle")
         \/ /\ \/ recon[r].observed.status = "PENDING_UPLOAD"
               \/ IsLeaseExpired(recon[r].observed, t)
            /\ recon' = [recon EXCEPT ![r].pc = "dead_read", ![r].markedAt = t]
    /\ UNCHANGED <<job, now, minted, work>>

\* mark_dead, up to the put.
DeadRead(r) ==
    /\ recon[r].pc = "dead_read"
    /\ \/ /\ ~DeadDecides(job, recon[r].observed.updatedAt)
          /\ ReconGoes(r, "reconcile_dead")
       \/ /\ DeadDecides(job, recon[r].observed.updatedAt)
          /\ ~DeadTimestampOK(job, recon[r].markedAt)
          /\ ReconEnds(r, "idle")
       \/ /\ DeadDecides(job, recon[r].observed.updatedAt)
          /\ DeadTimestampOK(job, recon[r].markedAt)
          /\ recon' = [recon EXCEPT ![r].pc = "dead_put", ![r].seen = job]
    /\ UNCHANGED <<job, now, minted, work>>

DeadPut(r) ==
    /\ recon[r].pc = "dead_put"
    /\ \/ /\ DeadCondition(job, recon[r].seen)
          /\ job' = MarkDead(recon[r].seen, recon[r].markedAt)
          /\ \/ ReconEnds(r, "acked")
             \/ ReconEnds(r, "idle")            \* the reply is lost
             \/ ReconGoes(r, "reconcile_dead")  \* the put is sent twice
       \/ /\ ~DeadCondition(job, recon[r].seen)
          /\ ReconGoes(r, "reconcile_dead")
          /\ UNCHANGED job
    /\ UNCHANGED <<now, minted, work>>

\* _reconcile_state_conflict
ReconcileDead(r) ==
    /\ recon[r].pc = "reconcile_dead"
    /\ ReconEnds(r, IF IsTerminal(job) THEN "acked" ELSE "idle")
    /\ UNCHANGED <<job, now, minted, work>>

AbandonReconciliation(r) ==
    /\ recon[r].pc \notin Resting
    /\ ReconEnds(r, "idle")
    /\ UNCHANGED <<job, now, minted, work>>

---------------------------------------------------------------------------
(* Time.  Lambda stops an invocation at its deadline. *)

Tick ==
    /\ now < MaxTime
    /\ \A w \in Worker : work[w].pc \notin Resting => now < work[w].deadline
    /\ now' = now + 1
    /\ UNCHANGED <<job, minted, work, recon>>

ProcessingStep(w) ==
    \/ BeginProcessing(w) \/ GetJob(w) \/ ClaimRead(w) \/ ClaimPut(w)
    \/ ReconcileClaim(w) \/ Execute(w) \/ FinalRead(w) \/ FinalPut(w)
    \/ AbandonProcessing(w)

ReconciliationStep(r) ==
    \/ BeginReconciliation(r) \/ ObserveJob(r) \/ JudgeJob(r) \/ DeadRead(r)
    \/ DeadPut(r) \/ ReconcileDead(r) \/ AbandonReconciliation(r)

Next ==
    \/ \E w \in Worker : ProcessingStep(w)
    \/ \E r \in Reconciler : ReconciliationStep(r)
    \/ Tick

Spec == Init /\ [][Next]_vars

---------------------------------------------------------------------------
(* Properties *)

\* Every item that is ever stored can be read back, as the very job it was
\* made of: it is converted to texts and None and back, and rehydrate
\* validates it on every get_job, so a put of an inconsistent item would make
\* every later operation on the job raise.
StoredJobRehydrates == job.status # "ABSENT" => ReadsBack(job)

\* A condition that fails means that the item was written since it was read,
\* which is what the reconciliations of a conflict presume: what the code
\* decides after a read, on instants, agrees with what DynamoDB evaluates at
\* the put, on texts.
ConflictMeansChange ==
    /\ \A w \in Worker :
         /\ work[w].pc = "claim_put" /\ work[w].seen = job
              => ClaimCondition(job, work[w].seen, work[w].claimedAt)
         /\ work[w].pc = "final_put" /\ work[w].seen = job
              => FinalizationCondition(job, work[w].seen, work[w].attempt)
    /\ \A r \in Reconciler :
         recon[r].pc = "dead_put" /\ recon[r].seen = job => DeadCondition(job, recon[r].seen)

\* A delivery is acknowledged only when its job has reached a terminal
\* status: a message that leaves the queue for good never strands a job that
\* is pending or claimed.
AckOnlyWhenTerminal ==
    /\ \A w \in Worker : work[w].pc = "acked" => IsTerminal(job)
    /\ \A r \in Reconciler : recon[r].pc = "acked" => IsTerminal(job)

\* A terminal job is never written again, by whatever duplicate delivery,
\* stale worker or reconciliation.
TerminalJobIsFinal == [][IsTerminal(job) => UNCHANGED job]_vars

\* Holds a claim whose lease has not run out on any clock.
HoldsActiveLease(w) ==
    /\ work[w].pc \in Holding
    /\ now + Skew < work[w].claimedAt + Lease

\* Two invocations never both hold an active lease on the job.
ActiveLeaseIsExclusive ==
    \A v, w \in Worker : HoldsActiveLease(v) /\ HoldsActiveLease(w) => v = w

\* A repository operation that is about to put a job it read compares status
\* and updated_at with the stored item.  The comparison is free of ABA: an
\* item that agrees with a snapshot in these two attributes is the snapshot.
SameVersion(seen) ==
    seen.status = job.status /\ seen.updatedAt = job.updatedAt => seen = job

VersionTokenIsSound ==
    /\ \A w \in Worker : work[w].pc \in {"claim_put", "final_put"} =>
                           SameVersion(work[w].seen)
    /\ \A r \in Reconciler : recon[r].pc = "dead_put" => SameVersion(recon[r].seen)

\* With the Lambda timeout below the lease duration, by a margin for the
\* clocks, an invocation never outlives its lease: at most one invocation at
\* a time is between its claim and its end.  sqs.tf, lambda.tf and the
\* settings agree on this only by their values.
OneHolder ==
    \A v, w \in Worker :
        work[v].pc \in Holding /\ work[w].pc \in Holding => v = w

TimeoutBelowLease == Timeout + 2 * Skew < Lease

\* The step in which reconciler r marks a claimed job dead.
KillsAttempt(r) ==
    /\ job.status = "PROCESSING" /\ job'.status = "DEAD"
    /\ recon'[r] # recon[r]

\* The release that r observed and a later claim bear the same timestamp.
TiedWithRelease(r) ==
    /\ recon[r].observed.status = "PENDING_UPLOAD"
    /\ recon[r].observed.updatedAt = job.updatedAt

\* Reconciliation marks a claimed job dead only for the attempt it observed,
\* and only when that attempt's lease has expired.  There is one exception:
\* mark_dead compares updated_at but not the status with the observed
\* snapshot, and a claim may bear the very timestamp of the release before it.
DeadSparesActiveLease ==
    [][\A r \in Reconciler :
          KillsAttempt(r) =>
              \/ job.attempt = recon[r].observed.attempt /\ now + Skew >= job.leaseExpiresAt
              \/ TiedWithRelease(r)]_vars

\* However the clocks of the hosts disagree, every write is stamped no earlier
\* than the one before it, with one exception: the reconciliation of a released
\* job, which rehydrates it and checks created_at alone.  Even that goes back by
\* no more than two clocks can differ.
UpdatedAtGoesBackOnlyAtDeath ==
    [][job'.updatedAt < job.updatedAt =>
           /\ job.status = "PENDING_UPLOAD" /\ job'.status = "DEAD"
           /\ job.updatedAt <= job'.updatedAt + 2 * Skew]_vars

\* docs/architecture/dead-letter-job-reconciliation.md: "a stale observed
\* snapshot cannot kill a newly acquired attempt".
StaleSnapshotKillsNoNewAttempt ==
    [][\A r \in Reconciler :
          KillsAttempt(r) => job.attempt = recon[r].observed.attempt]_vars

\* docs/architecture/system-design.md: "A duplicate or losing invocation
\* exits successfully after determining that another worker owns or completed
\* the job."  Here the claim is lost to an attempt that is not the invocation's
\* own, and that holds its lease.
LosingInvocationSucceeds ==
    [][\A w \in Worker :
          /\ ReconcileClaim(w)
          /\ job.status = "PROCESSING" /\ job.attempt # work[w].attempt
          /\ ~IsLeaseExpired(job, work[w].claimedAt)
          => work'[w].pc = "acked"]_vars

---------------------------------------------------------------------------
(* The inductive invariant behind these properties.  Its heart is Older: as *)
(* long as a job is not terminal, every write of the item moves the pair    *)
(* (updated_at, status) strictly forward, so a snapshot is either the item  *)
(* or has a smaller pair.                                                   *)

Older(seen, item) ==
    /\ seen.status \in {"PENDING_UPLOAD", "PROCESSING"}
    /\ \/ IsTerminal(item)
       \/ seen = item
       \/ seen.updatedAt < item.updatedAt
       \/ /\ seen.updatedAt = item.updatedAt
          /\ seen.status = "PENDING_UPLOAD" /\ item.status = "PROCESSING"

\* The stored item.
JobInv ==
    /\ StoredJobRehydrates
    /\ job.attempt <= minted
    /\ job.status = "PROCESSING" => job.leaseExpiresAt = job.updatedAt + Lease

LeaseRanOut(w) == now + Skew >= work[w].claimedAt + Lease

\* What an invocation may rely on at each of its steps.
WorkInv(w) ==
    /\ work[w].attempt <= minted
    /\ work[w].pc = "acked" => IsTerminal(job)
    /\ work[w].pc \notin Resting =>
         /\ work[w].claimedAt <= now + Skew
         /\ now <= work[w].deadline
         /\ work[w].deadline <= work[w].claimedAt + Skew + Timeout
    /\ work[w].pc \notin Resting \union {"get"} => work[w].attempt # NoAttempt
    /\ work[w].pc \in {"claim_read", "claim_put"} => job.attempt # work[w].attempt
    /\ work[w].pc = "claim_put" =>
         Older(work[w].seen, job) /\ ClaimDecidesPut(work[w].seen, work[w].claimedAt)
    /\ work[w].pc \in Holding =>
         /\ job.attempt = work[w].attempt => job.updatedAt = work[w].claimedAt
         /\ job.attempt = work[w].attempt \/ IsTerminal(job) \/ LeaseRanOut(w)
    /\ work[w].pc \in {"final_read", "final_put"} =>
         work[w].finalizedAt # work[w].claimedAt
    /\ work[w].pc = "final_put" =>
         /\ Older(work[w].seen, job)
         /\ OwnedProcessingJob(work[w].seen, work[w].attempt)
         /\ work[w].seen.updatedAt = work[w].claimedAt
         /\ MutationTimestampOK(work[w].seen, work[w].finalizedAt)

\* Attempts are told apart by their identifiers, and of two holders one has
\* outlived its lease.
PairInv(v, w) ==
    v # w =>
      /\ work[v].attempt # NoAttempt => work[v].attempt # work[w].attempt
      /\ work[v].pc \in Holding /\ work[w].pc \in Holding => LeaseRanOut(v) \/ LeaseRanOut(w)

\* What a reconciliation may rely on at each of its steps.
ReconInv(r) ==
    /\ recon[r].pc = "acked" => IsTerminal(job)
    /\ recon[r].pc \in {"judge", "dead_read", "dead_put"} => Older(recon[r].observed, job)
    /\ recon[r].pc \in {"dead_read", "dead_put"} =>
         /\ recon[r].markedAt <= now + Skew
         /\ recon[r].observed.status = "PROCESSING" =>
              IsLeaseExpired(recon[r].observed, recon[r].markedAt)
    /\ recon[r].pc = "dead_put" =>
         /\ Older(recon[r].seen, job)
         /\ DeadDecides(recon[r].seen, recon[r].observed.updatedAt)
         /\ DeadTimestampOK(recon[r].seen, recon[r].markedAt)

\* The inductive invariant.
IInv ==
    /\ JobInv
    /\ \A w \in Worker : WorkInv(w)
    /\ \A v, w \in Worker : PairInv(v, w)
    /\ \A r \in Reconciler : ReconInv(r)

\* What is known of the timestamps beyond that: none is ahead of the clocks,
\* and a reconciliation reads its clock after the job.
ClockInv ==
    /\ job.updatedAt <= now + Skew
    /\ \A w \in Worker :
         work[w].pc \in {"final_read", "final_put"} => work[w].finalizedAt <= now + Skew
    /\ \A r \in Reconciler :
         /\ recon[r].pc = "judge" => recon[r].observed.updatedAt <= now + Skew
         /\ recon[r].pc \in {"dead_read", "dead_put"} =>
              recon[r].observed.updatedAt <= recon[r].markedAt + 2 * Skew

---------------------------------------------------------------------------
(* Refinement of the abstract lifecycle *)

Lifecycle == INSTANCE JobLifecycle
    WITH Attempt <- 1 .. MaxAttempts, status <- job.status, attempts <- job.attempts,
         owner <- job.attempt, result <- job.result

\* The three-access protocol of the code implements the atomic lifecycle.
ImplementsLifecycle == Lifecycle!LifeSpec
===========================================================================
