----------------------- MODULE DocumentJobRepository -----------------------
(***************************************************************************)
(* The DynamoDB repository of document jobs.  Every mutation of the        *)
(* repository is two database accesses: a consistent read of the item,     *)
(* after which the new item is computed in memory, and a conditional put   *)
(* of that new item.  Between the two, anything may happen to the item.    *)
(*                                                                         *)
(* For each mutation this module gives the decision taken after the read   *)
(* (go on, conflict, or a domain exception that escapes), the condition    *)
(* expression DynamoDB evaluates against the stored item at the put, and   *)
(* the item the put writes.  "seen" is the job as read, "item" the stored  *)
(* item at the moment of the put.                                          *)
(*                                                                         *)
(* A job and its item are one to one (ToItem, FromItem), so items are       *)
(* written as the jobs they stand for.  The conditions compare timestamps   *)
(* as texts.                                                               *)
(*                                                                         *)
(* No operation of the repository deletes an item, so a job that was read  *)
(* once is found by every later read.                                      *)
(***************************************************************************)
EXTENDS DocumentJob, ItemTimestamps

CONSTANT Lease          \* PROCESSING_LEASE_DURATION_SECONDS

ASSUME LeaseAssumption == Lease \in Nat \ {0}

---------------------------------------------------------------------------
(* The item of a job *)

\* The attributes of an active attempt are None without one.
NoText == [second |-> 0, mark |-> "none", fraction |-> 0]

\* document_job_to_item.  An attempt starts when its claim is stamped, so
\* active_attempt_started_at is updated_at; the keys and the correlation
\* context never change.
ToItem(job) ==
    [status   |-> job.status,
     attempts |-> job.attempts,
     active_attempt_id |-> job.attempt,
     active_attempt_lease_expires_at |->
         IF job.attempt = NoAttempt THEN NoText ELSE Iso(job.leaseExpiresAt),
     created_at |-> Iso(job.createdAt),
     updated_at |-> Iso(job.updatedAt),
     processing_result |-> job.result,
     error_reason |-> job.reason]

\* document_job_from_item, but for the checks of rehydrate.
FromItem(item) ==
    [status   |-> item.status,
     attempts |-> item.attempts,
     attempt  |-> item.active_attempt_id,
     leaseExpiresAt |-> IF item.active_attempt_id = NoAttempt THEN 0
                        ELSE FromIso(item.active_attempt_lease_expires_at),
     createdAt |-> FromIso(item.created_at),
     updatedAt |-> FromIso(item.updated_at),
     result   |-> item.processing_result,
     reason   |-> item.error_reason]

\* _parse_active_attempt: all attributes of the attempt are there, or none.
AttemptIsComplete(item) ==
    (item.active_attempt_id = NoAttempt) <=> (item.active_attempt_lease_expires_at = NoText)

\* What get_job makes of the item of a job is that job.
ReadsBack(job) ==
    /\ AttemptIsComplete(ToItem(job))
    /\ FromItem(ToItem(job)) = job
    /\ Rehydrates(job)

---------------------------------------------------------------------------
(* claim_job *)

\* Mutant: a pending job is claimed whatever its timestamp.
ClaimDecidesAnyTime(seen, claimedAt) ==
    \/ seen.status = "PENDING_UPLOAD"
    \/ seen.status = "PROCESSING" /\ IsLeaseExpired(seen, claimedAt)

\* The read found a pending job, or a processing job whose lease expired.
ClaimDecidesPut(seen, claimedAt) ==
    \/ seen.status = "PENDING_UPLOAD" /\ MutationTimestampOK(seen, claimedAt)
    \/ seen.status = "PROCESSING" /\ IsLeaseExpired(seen, claimedAt)

\* start_processing raises InvalidDomainValueError: the pending job was
\* updated after the claim's own timestamp was taken.
ClaimRaises(seen, claimedAt) ==
    seen.status = "PENDING_UPLOAD" /\ ~MutationTimestampOK(seen, claimedAt)

\* JobClaimConflictError or JobStateConflictError.
ClaimConflicts(seen, claimedAt) ==
    \/ seen.status = "PROCESSING" /\ ~IsLeaseExpired(seen, claimedAt)
    \/ IsTerminal(seen)

\* Mutant: the claim's put compares the status alone.
ClaimConditionStatusOnly(item, seen, claimedAt) == item.status = seen.status

ClaimCondition(item, seen, claimedAt) ==
    /\ item.status = seen.status
    /\ Iso(item.updatedAt) = Iso(seen.updatedAt)
    /\ seen.status = "PROCESSING" => SortsUpTo(Iso(item.leaseExpiresAt), Iso(claimedAt))

\* Mutant: the lease is subtracted.
ClaimedJobBackwards(seen, attempt, claimedAt) ==
    StartProcessing(seen, attempt, claimedAt - Lease, claimedAt)

\* start_processing of a pending job, or the rehydrated successor of an
\* expired claim: both carry the same fields.
ClaimedJob(seen, attempt, claimedAt) ==
    StartProcessing(seen, attempt, claimedAt + Lease, claimedAt)

---------------------------------------------------------------------------
(* complete_job, fail_job and release_retryable_claim *)

Finalizations == {"complete", "fail", "release"}

\* _get_owned_processing_job: otherwise JobStateConflictError or
\* JobAttemptMismatchError.
OwnedProcessingJob(seen, attempt) ==
    seen.status = "PROCESSING" /\ seen.attempt = attempt

\* Mutant: the put that ends an attempt does not compare its owner or version.
FinalizationConditionStatusOnly(item, seen, attempt) == item.status = "PROCESSING"

FinalizationCondition(item, seen, attempt) ==
    /\ item.status = "PROCESSING"
    /\ item.attempt = attempt
    /\ Iso(item.updatedAt) = Iso(seen.updatedAt)

FinalizedJob(seen, finalization, attempt, finalizedAt) ==
    IF finalization = "complete"  THEN MarkSucceeded(seen, attempt, finalizedAt)
    ELSE IF finalization = "fail" THEN MarkFailed(seen, finalizedAt)
    ELSE ReleaseForRetry(seen, finalizedAt)

---------------------------------------------------------------------------
(* mark_dead *)

\* Mutant: the job may have been updated since it was observed.
DeadDecidesAnyVersion(seen, expectedUpdatedAt) ==
    \/ seen.status = "PROCESSING"
    \/ seen.status = "PENDING_UPLOAD" /\ seen.attempts >= 1

\* The job must not have been updated since it was observed, and it must be
\* claimed, or pending after at least one attempt.  The status it was
\* observed in is not compared.
DeadDecides(seen, expectedUpdatedAt) ==
    /\ seen.updatedAt = expectedUpdatedAt
    /\ \/ seen.status = "PROCESSING"
       \/ seen.status = "PENDING_UPLOAD" /\ seen.attempts >= 1

\* A claimed job takes the domain's mark_dead, which refuses a timestamp
\* older than updated_at; a pending one is rehydrated, which only refuses a
\* timestamp older than created_at.
DeadTimestampOK(seen, markedAt) ==
    \/ seen.status = "PROCESSING" /\ MutationTimestampOK(seen, markedAt)
    \/ seen.status = "PENDING_UPLOAD" /\ markedAt >= seen.createdAt

\* Mutant: the attempts are taken for a version number.
DeadConditionAttemptsOnly(item, seen) == item.attempts = seen.attempts

DeadCondition(item, seen) ==
    /\ item.status = seen.status
    /\ item.attempts = seen.attempts
    /\ Iso(item.updatedAt) = Iso(seen.updatedAt)
===========================================================================
