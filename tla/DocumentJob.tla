---------------------------- MODULE DocumentJob ----------------------------
(***************************************************************************)
(* The document-job aggregate of src/clouddoc/domain: the lifecycle        *)
(* statuses, the transition table and the mutations a job accepts.  A job  *)
(* is a record; a mutation is an operator from the job to the mutated job, *)
(* and the exceptions it may raise are predicates of their own, so that a  *)
(* specification decides where an exception goes.                          *)
(*                                                                         *)
(* Times are natural numbers (one unit is the microsecond resolution of a  *)
(* Python datetime, or any coarser unit a model chooses).  Attempt         *)
(* identifiers are positive naturals, 0 standing for None.  The extraction *)
(* a job stores is named by the attempt that produced it.                  *)
(***************************************************************************)
EXTENDS Integers

NoAttempt == 0
NoReason == "none"

TerminalStatuses == {"SUCCEEDED", "FAILED", "DEAD"}
Statuses == {"PENDING_UPLOAD", "PROCESSING"} \union TerminalStatuses

Reasons == {NoReason, "processing_failed", "processing_retries_exhausted"}

\* "ABSENT" is what get_job answers with None: no item under the job's key.
Jobs == [status         : Statuses \union {"ABSENT"},
         attempts       : Nat,
         attempt        : Nat,
         leaseExpiresAt : Nat,
         createdAt      : Nat,
         updatedAt      : Nat,
         result         : Nat,
         reason         : Reasons]

NoJob == [status |-> "ABSENT", attempts |-> 0, attempt |-> NoAttempt,
          leaseExpiresAt |-> 0, createdAt |-> 0, updatedAt |-> 0,
          result |-> NoAttempt, reason |-> NoReason]

\* A job as CreateDocumentJob builds it.
NewJob(at) ==
    [NoJob EXCEPT !.status = "PENDING_UPLOAD", !.createdAt = at, !.updatedAt = at]

IsTerminal(job) == job.status \in TerminalStatuses

IsLeaseExpired(job, at) == at >= job.leaseExpiresAt

\* _ensure_mutation_timestamp: an earlier timestamp raises InvalidDomainValueError.
MutationTimestampOK(job, at) == at >= job.updatedAt

---------------------------------------------------------------------------
(* The mutations.  Each leaves the job with exactly the fields its new      *)
(* status may carry.                                                        *)

StartProcessing(job, attempt, leaseExpiresAt, at) ==
    [status         |-> "PROCESSING",
     attempts       |-> job.attempts + 1,
     attempt        |-> attempt,
     leaseExpiresAt |-> leaseExpiresAt,
     createdAt      |-> job.createdAt,
     updatedAt      |-> at,
     result         |-> NoAttempt,
     reason         |-> NoReason]

\* Mutants: the claim's fields survive its end; the end is not stamped.
EndAttemptKeepsClaim(job, status, result, reason, at) ==
    [job EXCEPT !.status = status, !.updatedAt = at, !.result = result,
                !.reason = reason]
EndAttemptUnstamped(job, status, result, reason, at) ==
    [job EXCEPT !.status = status, !.attempt = NoAttempt, !.leaseExpiresAt = 0,
                !.result = result, !.reason = reason]

\* What the four ways to end an attempt have in common.
EndAttempt(job, status, result, reason, at) ==
    [status         |-> status,
     attempts       |-> job.attempts,
     attempt        |-> NoAttempt,
     leaseExpiresAt |-> 0,
     createdAt      |-> job.createdAt,
     updatedAt      |-> at,
     result         |-> result,
     reason         |-> reason]

MarkSucceeded(job, result, at) == EndAttempt(job, "SUCCEEDED", result, NoReason, at)

MarkFailed(job, at) == EndAttempt(job, "FAILED", NoAttempt, "processing_failed", at)

ReleaseForRetry(job, at) == EndAttempt(job, "PENDING_UPLOAD", NoAttempt, NoReason, at)

MarkDead(job, at) ==
    EndAttempt(job, "DEAD", NoAttempt, "processing_retries_exhausted", at)

---------------------------------------------------------------------------
\* The validation of rehydrate: what a stored job must look like for any
\* later read of it not to raise InvalidDomainValueError.
Rehydrates(job) ==
    /\ job.updatedAt >= job.createdAt
    /\ (job.attempt # NoAttempt) <=> (job.status = "PROCESSING")
    /\ (job.result # NoAttempt) <=> (job.status = "SUCCEEDED")
    /\ (job.reason # NoReason) <=> (job.status \in {"FAILED", "DEAD"})
    /\ (job.status # "PENDING_UPLOAD") => (job.attempts >= 1)
    /\ (job.status = "PROCESSING") => (job.leaseExpiresAt > job.updatedAt)
===========================================================================
