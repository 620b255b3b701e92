# CloudDoc document pipeline: specification and proofs

A TLA+ development kept beside `src/`. It covers the path of one document from
the request that creates its job to the terminal status of that job: the job
API, the bucket, the queues, the processing and the dead-letter Lambda
functions, and the DynamoDB item on which they all meet. Beside it stands the
controlled deployment of the infrastructure by the Terraform workflows and
scripts.

## 1. Inventory

### Components

| Component | State it keeps | Operations |
|---|---|---|
| document-job aggregate (`domain/document_job.py`, `processing_attempt.py`, `job_status.py`, `state_transitions.py`) | status, attempts, active attempt with its lease, `updated_at`, result, error reason | `start_processing`, `mark_succeeded`, `mark_failed`, `release_for_retry`, `mark_dead`, `rehydrate` |
| DynamoDB repository (`repositories/dynamodb_document_job_repository.py`) | one item per job | `create_job`, `get_job`, `claim_job`, `complete_job`, `fail_job`, `release_retryable_claim`, `mark_dead` |
| processing workflow (`application/start_document_processing.py`, `process_uploaded_document.py`) | local state of an invocation | clock, read, claim, load, extract, finalize; reconciliation of a lost claim |
| dead-letter reconciliation (`application/reconcile_dead_lettered_document.py`) | local state of an invocation | observe, eligibility, `mark_dead`, reconciliation of a conflict |
| record-batch handlers (`handlers/process_uploaded_document.py`, `reconcile_dead_lettered_document.py`) | the failures of one batch | parse, process, report |
| queues and Lambda settings (`infra/terraform/sqs.tf`, `event_sources.tf`, `lambda.tf`) | processing, dead-letter and quarantine queue | delivery, visibility, redrive, timeouts |
| job API (`handlers/create_job.py`, `get_job.py`, `application/create_document_job.py`, `get_document_job.py`, `infrastructure/s3_uploads.py`, `schemas/job_views.py`) | requests under way | `POST /jobs`, `GET /jobs/{job_id}` |
| document loading (`infrastructure/s3_documents.py`, `application/document_ports.py`, `infra/terraform/s3.tf`) | versions of the object | upload, expiry, `load` |
| upload-event parser (`delivery/events`, `schemas/document_keys.py`) | none | body of a message to a list of events |
| result persistence (`schemas/persistence_models.py`, `ai_output.py`) | the item of a job | job to item and back, timestamps to texts and back, validation |
| Bedrock provider (`providers/bedrock_ai_provider.py`) | none | `extract`: response or error to result, invalid response, timeout, throttling, configuration, unavailable |
| Terraform deployment (`scripts/terraform_workflow.py`, `terraform_plan_attestation.py`, `validate_terraform_deployment_request.py`, `.github/workflows`) | plan runs with their attestations, the running deployment, saved plans | plan, attest, review, deploy (validate, plan again, compare, apply, converge), local plan and apply |
| mock provider, settings, observability, bootstrap, packaging | none that a job depends on | see section 8 |

### How they interact

`POST /jobs` signs an upload URL, stores a pending job, then answers. The
client puts its document into the bucket, as often as it likes; S3 notifies the
processing queue of every upload. The event source mapping hands messages to
the processing Lambda in batches. For every upload event of a message the
Lambda reads the clock and the job, claims the job with a conditional put that
starts a lease, loads the announced version of the document, calls the
provider, reads the clock again, and ends the attempt with a second conditional
put. What failed is named in `batchItemFailures` and becomes visible again when
its visibility timeout is over; after three receives it is redriven to the
dead-letter queue, whose Lambda marks an attempted job dead unless its lease is
active; after three receives more the message is in quarantine. `GET` reads the
item consistently at any time. The item is the only state that the components
share, and no component locks it.

The infrastructure itself is changed by two workflows that share nothing but
GitHub's records, the Terraform state and AWS. A plan run leaves an attestation
of what it would change, without values; a deployment, dispatched with the
number of that run, plans again and applies its own plan if the two change sets
agree. An operator's shell may plan and apply with the same script.

### What is hard here

* **Concurrency.** Standard queues deliver at least once, an upload URL may be
  used again, and a reconciliation may meet a worker. Every repository
  mutation is a read, a computation in memory and a conditional put; the
  conditions must carry the exclusion, the freedom from ABA and the finality of
  terminal states.
* **Failure.** An invocation may end anywhere. A put may take effect and its
  reply get lost, or the SDK may send it twice. A held claim is freed by its
  lease alone.
* **Time.** `claimed_at` is read before the job, `finalized_at` long after it,
  by clocks of different hosts; lease, Lambda timeout and visibility timeout
  are set in different files and must fit each other.
* **Numbers.** A result is validated in one form, stored in another, and
  validated again in a third whenever it is read.
* **Review and reality.** Between the reviewed plan, the plan a deployment makes
  and its apply, main and the infrastructure move on; an apply may fail at any
  resource and be tried again with the same plan run.
* **Ordering.** Uploads overtake events, the URL is signed before the job is
  stored, attempts overlap.

### What makes each component correct

* aggregate and repository: what is stored can be read back
  (`StoredJobRehydrates`), `status` with `updated_at` is a sound version token
  (`VersionTokenIsSound`), a terminal job is final (`TerminalJobIsFinal`);
* workflow: leases exclude each other (`ActiveLeaseIsExclusive`, `OneHolder`),
  an acknowledged delivery has a terminal job (`AckOnlyWhenTerminal`), the
  whole implements an atomic lifecycle (`ImplementsLifecycle`), a put is
  refused only to an item that has changed (`ConflictMeansChange`), and the
  timestamps of the item advance whatever the clocks do
  (`UpdatedAtGoesBackOnlyAtDeath`);
* reconciliation: it kills only the attempt that it observed, and only after the
  lease (`DeadSparesActiveLease`);
* handlers: no event is lost (`DeletedMeansApplied`), failures are isolated
  (`RetriedMeansFailed`), the answer is usable (`AnswerIsUsable`);
* parser: an accepted event is about the object of the job it names
  (`EventsNameTheirObject`);
* queues: no message is dropped for unfinished work
  (`DeletedOnlyWhenTerminal`), a retry does not meet its own claim
  (`OwnClaimNeverBlocks`), work is bounded (`AttemptsAreBounded`), no message
  goes round for ever (`EveryStepIsProgress`), an unfinished job is never left
  without a message (`UnfinishedJobKeepsAMessage`), hence messages and attempted
  jobs settle (`EveryMessageSettles`, `AttemptedJobSettles`);
* job API: URLs are exclusive (`UploadUrlIsExclusive`), documents have jobs
  (`UploadHasItsJob`), clients read what was written (`ReadsFollowWrites`,
  `ViewsNeverGoBack`);
* loading: results and failures concern the announced document
  (`ResultIsOfItsDocument`, `BlamesTheRightDocument`);
* provider: a job fails for refused responses only, and no response is asked
  for twice (`AnswersDecide`);
* results: what readers are shown is what the provider returned
  (`ShownIsExtracted`), and a stored result is readable but for one case
  (`UnreadableOnlyWhenWidened`);
* deployment: what was reviewed is what changes (`ChangesAsReviewed`), nothing
  is destroyed without consent (`DestroysOnlyWithConsent`), work that is done is
  not applied again (`AppliedOnce`), success means convergence
  (`SuccessMeansConverged`).

## 2. Plan

Modules in the order of their importance.

1. `DocumentJob`, `DocumentJobRepository`, `DocumentProcessing`, with
   `JobLifecycle` as the abstract specification: the shared item under
   concurrency. **Done.**
2. `RecordBatch`: what a handler does with a batch. **Done.**
3. `DocumentPipeline`: queues, visibility, redrive, liveness. **Done.**
4. `ControlPlane`: the job API. **Done.**
5. `DocumentLoading`: uploads, versions, attempts. **Done.**
6. `ExtractionResult` with `ProviderAnswers`: the provider's answer, its
   validation, and its numbers on their way to DynamoDB and back. **Done.**
7. `Deployment`: plan runs, attestations and controlled deployments. **Done.**
8. `UploadEvents`: the parser's decision table, composed with `RecordBatch`.
   **Done.**
9. `ItemTimestamps`: the timestamps of the item as texts, on which the
   conditions of the repository are evaluated. **Done.**
10. `PlanAttestation`: what an attestation tells apart of a plan, composed with
    `Deployment`. **Done.**

`DocumentPipeline` and `DocumentLoading` are built from the actions of
`JobLifecycle`; it is `DocumentProcessing` that earns these actions, by its
refinement. That the pipeline has identifiers enough for all its claims, so that
it implements the lifecycle too, is a theorem (`PipelineImplementsLifecycle`).
What could be
added: a batch of several messages inside `DocumentPipeline` (the modules meet
at "reported or acknowledged", which `RecordBatch` justifies for each message),
and the package of the Lambda functions in `Deployment`.

## 3. Modules

| Module | Models |
|---|---|
| `DocumentJob` | the aggregate: a job is a record, a mutation an operator, an exception a predicate |
| `ItemTimestamps` | the texts `isoformat` writes, their order in DynamoDB, and what they are read as |
| `DocumentJobRepository` | the item of a job, and each mutation's decision after its read, its condition expression and the item it puts |
| `DocumentProcessing` | processing and reconciling invocations on one item, one action per access and clock reading |
| `JobLifecycle` | the abstract promise: atomic claim, release, succeed, fail, die |
| `UploadEvents` | the parser: keys, S3 records and bodies, accepted or rejected |
| `RecordBatch` | the loop of both handlers over the records and events of a batch |
| `DocumentPipeline` | messages, queues and invocations with their timers, around `JobLifecycle` |
| `ControlPlane` | the two API operations, clients, uploads |
| `DocumentLoading` | uploads, versions, notifications and attempts, around `JobLifecycle` |
| `ProviderAnswers` | the errors and responses of the provider's call, and what the workflow does with them |
| `ExtractionResult` | one result: parsing, validation, conversion to decimals and back, reading |
| `PlanAttestation` | what is attested of a plan, and the comparison of attestations |
| `Deployment` | plan runs, deployments, the shell, Terraform's applies and changes by hand |
| `*_proofs` | theorems about the module of that name |
| `MC*` | what the configurations instantiate, with symmetry sets where they are used |

### Code and model

*Job.* `Jobs` has the attributes of the DynamoDB item that a condition or a
validation looks at. `attempt` and `result` name the attempt, `0` is `None`;
status `ABSENT` is the `None` of `get_job`. `EndAttempt` is `_transition_to`
with the clearing of the attempt that all four mutations do; `Rehydrates` is
`_validate_rehydrated_state`. `JobLifecycle!LifeNext` has the edges of
`is_transition_allowed` (with the takeover of an expired claim, which the
repository does by rehydrating).

*Repository.* `claim_job`, the three finalizations and `mark_dead` each become
`...Decides` / `OwnedProcessingJob` (the branch after the read),
`...Condition` (the `ConditionExpression`) and the item written. A decision
compares instants, a condition the texts of an item: `ToItem` and `FromItem` are
`document_job_to_item` and `document_job_from_item`, `Iso` is `isoformat`. A text
is its seconds, the character after them and the digits of the fraction; a
second has `TicksPerSecond` instants.
`DeadTimestampOK` shows that a claimed job is marked by the domain's
`mark_dead` and a released one by `rehydrate`, with different checks of time.

*Processing.* The steps of an invocation are the values of `work[w].pc`:
`get` (`_get_job`), `claim_read` and `claim_put` (`claim_job`),
`reconcile_claim`, `execute` (load and provider), `final_read` and `final_put`.
A put that meets its condition ends three ways: its reply arrives, its reply is
lost, or the SDK's second request meets the effect of the first. An invocation
leaves its last step for `acked` when `execute` returns and for `idle` when it
raises. `AbandonProcessing` stops it anywhere. `Tick` cannot pass an
invocation's deadline: that is the Lambda timeout.

*Batch.* The queue records, `_extract_message_id`, the parser's verdict, the
events and `_append_failure`; `Deleted` is Lambda's reading of the answer. A body
is the list of its S3 records, and a field of a record the class its value is in;
`IsUpload` is `_parse_s3_record`, `IsCanonical`
`extract_job_id_from_document_object_key`. Keys are paths of segments with white
space at one end or at neither. The filters of the bucket's notification
(`Notifies`) say which records exist: the parser strips a key before it reads the
job from it and keeps the key unstripped, and it is `filter_prefix` and
`filter_suffix` that keep the two from parting. `StartDocumentProcessing`
compares them again, the dead-letter workflow does not.

*Pipeline.* A message has a place, a receive count, the rest of its visibility
timeout and of the invocation's timeout. `StartClaims` and `StartEnds` are
`StartDocumentProcessing`, `FinishOwned` and `FinishLost` the finalization for
the owner of the claim and for an attempt that lost it, `Reconcile` the
dead-letter workflow with its three verdicts.

*API.* `call[c].pc` steps through sign, put (`attribute_not_exists`), read
(`ConsistentRead=True`) and respond. The generator may repeat identifiers: the
code's conditional put is what keeps jobs apart, not the randomness of UUIDs.

*Loading.* A content stands for bytes together with their ETag and size.
`RefuseReference` is the check of the event before `GetObject`,
`LoadDocument` the loader with `_validate_response_identity` and
`_require_version_id`, `Extract` the request and the provider. The retention rule
has two parts: `Expire` hides the current version behind a delete marker, and it
can still be had by its version identifier until `ExpireNoncurrent` deletes it;
`IsFound` is the difference this makes to `GetObject`. `Notifications`
are what S3 may say of an upload: the parser takes the ETag and the version
identifier for optional, so both may be missing.

*Results.* A number is a form (integer or float), a count of significant digits
and the place of the last one; which digits they are, and the sign, make no
difference to any check. `Width` is how `model_dump_json` writes it,
`IsStorable` what boto3's decimal context and DynamoDB take, `ToDecimal` and
`FromDecimal` are `_to_dynamodb_value` and `_from_dynamodb_value`: DynamoDB
keeps the value and forgets the form. The rest of a result is a size and
whether it is in order. `Category` is the provider's table of exceptions and
codes, in the order of its `except` clauses; `HasText` is `_extract_response_text`
and `IsObject` the strict JSON parsing. `StatusAfter` is what the workflow makes
of a category: only an invalid response fails the job. A JSON text that is too
deep for `json.loads` raises a `RecursionError`, which is an `Abandon`.

*Deployment.* `step` walks through `command_deploy`: `validate`
(`validate_workflow_run`, `load_reviewed_attestation`), `plan`, `compare`
(`compare_deployment_attestations`), `apply`, `converge` (the plan after the
apply, `CheckConvergence`) and `verdict` (what its exit code, `remaining`, decides).
Plan and verdict are two steps: whatever happens before the plan is for it to
find, whatever happens after it goes unseen. A configuration of a
resource is a value, `KindOf` what a plan says of an old and a new one. Of that
an attestation keeps, for each resource, `Attested`: its sanitized address, the
normalised action and the reason; the counts and the two flags follow. Two kinds
of change share an action (a replacement and the recreation of a tainted
resource) and differ in the reason. `Matches` is the comparison of two
attestations, of bags of such entries rather than of change sets.
`DispatchDeploy` takes the head of main or the plan run's commit: the latter
stands for a deployment that waited in the concurrency group and for a re-run.
The concurrency group admits one deployment, and `step` is that one's: that it
is alone is the guard of `DispatchDeploy` and checked with the types; what two
deployments at once would do to each other is not modelled.
`AttestPlan` is the whole plan job, whose plan of the infrastructure is one
moment. Terraform is external: `TakesLock` to `EndApply` are an apply that holds
the state lock, changes one resource at a time, and makes plans stale by writing
the state; `Remains` is what a failed change may leave. `drifted` and `done` are
history variables of the properties. `drifted` starts anew at both of the
deployment's plans, so that at its end it tells whether somebody else changed a
resource or an output after the last of them.

## 4. Runs

| Run | What it shows |
|---|---|
| `processing` | the safety of the shared item, with conditions evaluated on texts, and the refinement, with the Lambda timeout beyond the lease, so that claims are outlived and taken over |
| `skewed` | with the deployed order (timeout and twice the skew below the lease) and clocks one unit off either way and stepping back: a single invocation holds the job, and `updated_at` goes back only at the death of a released job |
| `batch` | batches with repeated and missing identifiers, bodies with every class of value in every field, and events that fail midway |
| `pipeline` | two messages for one job, deployed ratios: a retry does not meet its own claim, and if the reconciler does not fail, an attempted job keeps a message until it is terminal, which it becomes |
| `outlived` | the same with a Lambda timeout beyond the lease and a visibility timeout too short for both: invocations lose their claims, no message is dropped, claims are bounded, every step of a message is progress, and every message ends acknowledged or in quarantine, also when the reconciler fails |
| `control` | two clients, two identifiers, failures between any two accesses, the pipeline at work |
| `documents` | two uploads announced with or without version and ETag: a result is never another document's, and a document announced by version is blamed only for what it is |
| `results` | two numbers around every limit and every answer of the provider: no value is lost, a job fails only for a refused response and never for an error of the call, and a stored result is unreadable only if an integral float grew |
| `deployment` | two plan runs and deployments of either, with merges, failed changes, changes by hand and the shell: the four properties of a deployment |
| `stale_snapshot`, `losing_invocation`, `unreadable_result` | three statements of the documentation that the code does not keep (section 7) |

`CHECK_DEADLOCK FALSE` appears in `batch.cfg` only: an invocation that has
answered is over. Elsewhere something can always happen.

### Bounds

* Two workers and one reconciler: the exclusion properties speak of pairs, and
  the version token is broken, if at all, by one writer and one writer in
  between. `MaxAttempts = 3` allows a claim, a takeover and a claim after a
  release. `Lease = 2`, `MaxTime = 4` allow a lease to end, a second claim and
  its end; `TicksPerSecond = 2` puts instants with and without a fraction in every
  second; `Timeout = 3` makes invocations outlive leases. `skewed` takes the
  smallest lease above a timeout of 1 and twice a skew of 1, and `MaxTime = 4`
  for that lease to end; every step has up to three clock readings. The theorems have no
  bounds: `MaxTime` and `MaxAttempts` are arbitrary there.
* Three records over two identifiers: a duplicate and a neighbour; two events:
  one before and one after a failure. These bodies have a sound and an unsound
  record, for the loop; single messages have each S3 record that is sound but for
  its key, or but for its other fields, for the parser. Keys are canonical, have
  a segment too few, too many, blank, spaced or misplaced, or are padded.
* The pipeline scales the deployed durations (lease 300 s, Lambda timeouts
  120 s and 30 s, visibility 720 s and 180 s, three receives) to 5, 2, 1, 12, 3:
  the order, and which sums exceed which, are kept. Its `Attempt` has the
  `2 * 3` claims that the receives allow. `outlived` takes 2, 3, 1, 4, 3, where
  neither the Lambda timeout is below the lease nor do both fit the visibility.
* Two clients collide on one of two identifiers; one claim per job
  (`MaxAttempts = 1`) already gives every status.
* Two uploads, two attempts, and a content of every kind: two sound ones to
  be confused, a blank, an undecodable and a too long one. An attempt for each
  of two events is what it takes to confuse their documents.
* Two numbers per result of up to two digits with exponents from -5 to 5, and
  limits in the order of the real ones (positional notation 16, precision 38,
  magnitude 126, floats 309) at 3, 4, 5, 6: there are numbers on both sides of
  every limit, in both forms. Nine bytes hold some pairs and not others.

* Two plan runs, for one to come between the other's review and deployment;
  two commits and two resources, of which the first commit creates both and the
  second replaces one, deletes the other and changes an output, so every kind of
  change occurs, updates by way of drift. `MaxMeddling = 1` change by hand or
  plan of the shell; with more the theorems speak.

Symmetry is used for workers, clients, identifiers, plan runs, fields and sound
contents, never with a liveness property. None of these is ordered,
distinguished by a definition or chosen with `CHOOSE`. Attempts are numbers and
are not permuted.

### Fairness

The runs of safety assume none. `FairPipeline` assumes weak fairness of
`Queues(m)` (SQS and the event source mapping deliver what is visible), of
`Run(m)` (an invocation ends: by itself or by its timeout) and of `Tick` (time
passes). Nothing is assumed of uploads, nor that an invocation ever succeeds:
`Crash` satisfies the fairness of `Run`. `pipeline`, which checks
`AttemptedJobSettles`, assumes that the dead-letter Lambda does not fail
(`ReconcilerCrashes = FALSE`); with failures the message ends in quarantine and
the job stays, which is what the quarantine queue is for. `outlived` lets it
fail.

## 5. Assumptions

* Two readings of a clock around the claim's put differ (`Execute` excludes
  `claimedAt`): timestamps have microseconds and a put takes longer. If a clock
  stepped back to exactly the same microsecond, a released job would look like
  the pending job before the claim but for its attempts.
* Clocks are within `Skew` of real time.
* DynamoDB evaluates a condition atomically with its put, and a consistent read
  returns the last item written.
* Attempt identifiers (UUIDs) are distinct; job identifiers need not be.
* DynamoDB orders strings by their characters; `isoformat` writes the seconds of
  all timestamps at the same width (years have four digits).
* The bucket is the only sender of the processing queue, and sends what its
  filters let through; `unquote_plus` undoes S3's encoding of keys.
* No two resources of the configuration share a sanitized address
  (`AddressesAreDistinct`): none has a string index, an ARN or an account number
  in its address. Two theorems and the run need it; the scripts do not check it.
* DynamoDB stores numbers of 38 digits between 1e-130 and 9.99e125, and boto3
  raises rather than rounds; `model_dump_json` writes floats of magnitude -4 to
  16 without exponent.
* A duplicate delivery of SQS while a message is in flight is a second
  `Message`. Retention (four and fourteen days), scaling limits and throttling
  of the event source mapping are left out.
* The presigned URL fixes the content type; equal contents have equal ETags.

## 6. Proofs

Everything listed here is proved by TLAPS without an unproved leaf, for all
values of the constants that satisfy the `ASSUME`s of its module.

*`DocumentProcessing_proofs`.* `TypeCorrect`, then `Invariance`: `Spec => []IInv`.
The invariants of the runs are not inductive: that a put meets its condition
says nothing unless a snapshot is known to be older than the item. `IInv` is
the strengthening. Its heart is `Older`: until the job is terminal, every write
moves the pair (`updated_at`, status) strictly forward, where at equal
timestamps a pending job precedes a claimed one; so a snapshot that agrees with
the item in both *is* the item. The order needs that a claim is not stamped
before the release it follows (`MutationTimestampOK`), that a takeover is
stamped after the lease, and that an end of an attempt is not stamped like its
claim. `WorkInv` and `ReconInv` say what an invocation relies on at each step,
`PairInv` that of two holders one has outlived its lease. From it:
`StoredJobIsReadable`, `AcknowledgedJobIsTerminal`, `LeaseExclusion`,
`VersionSoundness`, `TerminalFinality`, `ReconciliationSparesLeases`; under
`TimeoutBelowLease` (`Timeout + 2 * Skew < Lease`) also `SingleHolder`; and
`Refinement`, with a step of its own for each action: the puts map to the
operations of the lifecycle, the rest to stuttering. `ConflictsAreChanges`: a put
that was decided on is refused only if the item has changed since it was read,
which the reconciliations of conflicts take for granted.
`ReconciliationSparesLeases` is exact: the attempt killed is the one observed and
its lease is over, or the claim bears the timestamp of the observed release.
`TimestampsAdvance` needs `ClockInv` besides `IInv`: no timestamp is ahead of the
clocks, and a reconciliation reads its clock after the job, so that the reading
is at most two clock errors behind what was observed. The claim of a pending job
and every finalization check the order themselves, a takeover is ordered by the
lease; only the rehydration of a released job as dead checks nothing, and there
the two errors are the bound (`skewed` reaches it).

*`ItemTimestamps_proofs`.* `TextsReadBack` and `TextsSortAsInstants`: a text is
read as the instant it was written for, and DynamoDB's order of texts is the
order of instants, for any resolution. The case that matters is a text without
a fraction, whose `+` must sort before the `.` of its neighbours in the same
second. `DocumentProcessing_proofs` uses both, so that its theorems hold for
conditions on texts.

*`RecordBatch_proofs`.* `LoopInvariance` (`LoopInv`: where the loops stand, what
was applied, who is to blame), and from it `NoEventIsLost`,
`FailureIsIsolated`, `AnswerUsability`, and `EventsConcernTheirJob`: a key that
passes the filters and is canonical once stripped had nothing to strip.
`BatchTypes` is type correctness.

*`DocumentPipeline_proofs`.* `PipelineInvariance` and, for any timeouts,
`NoMessageIsLost`. If moreover `LeaseFits` (`Timeout + Lease <= Visibility`,
which the deployed values satisfy: 120 + 300 <= 720), a message stays hidden as
long as the claim made for it is leased, by the invariant that the rest of the
visibility timeout exceeds the rest of the Lambda timeout by a lease when the
claim is made; hence `RetryFindsLeaseExpired`. `ClaimsAreBounded` counts: the
set of the receives of the processing queue that are used up (`Spent`) never
shrinks, a claim adds the receive it was made with, and the set is a subset of
the messages times the receives.

Liveness itself is beyond the prover, but what it rests on is proved.
`StepsAreCounted`: `StepsLeft` bounds the steps a message has yet to make, from
its receives, its queue and the phase of its invocation; every step but the
clock's brings it down, whoever else takes steps and however invocations end. So
a message whose steps are fair settles. `WorkKeepsItsMessage`: an attempted job
that is not terminal has a message still to be processed or reconciled. This
takes `LeaseFits` and a dead-letter Lambda that does not fail, and a stronger
invariant (`KeeperInv`): it is the message of the last claim that keeps the job
(`Keeps`), in the processing queue or on its way to its first reconciliation,
which finds the lease over and the job eligible. The other messages may be
refused and end in the quarantine; the keeper cannot, and a claim hands its part
on to the message it was made for. `StationInv` says which phases go with which
queue. `PipelineImplementsLifecycle`: the bound on the claims is what makes
identifiers suffice for finitely many messages, and with them every step maps to
a step of `JobLifecycle` or to a stutter.

*`ControlPlane_proofs`.* `ControlInvariance`: what a client holds or was
answered is an earlier version of the stored job. Hence `UploadUrlsAreExclusive`,
`UploadsHaveTheirJobs`, `ReadsAfterWrites`, `MonotonicViews`.

*`DocumentLoading_proofs`.* `LoadingInvariance`: an event and a loaded text say
what the bucket said. Hence `ResultsMatchDocuments`, with or without a
version identifier, and `BlameIsRight` for events that have one.

*`Deployment_proofs`.* `DeploymentTypes`, then `DeployInvariance`. None of the
four properties is inductive: a comparison of change sets says nothing of the
infrastructure unless it is known what the compared plan saw. `PlanIsFresh`
says that until the state is written a plan creates only what is absent, that
it describes the infrastructure unless somebody drifted, and that it leaves
alone what its plan run has done (`DoneIsInPlace`); `ApplyIsReviewed` carries
this through the apply, and `VerdictIsFresh` says that a convergence check that
found nothing left nothing to change, in resources and outputs, as long as nobody
else has changed anything since. `AttestationsDetermineChanges` says that equal bags of
attested resources come from equal change sets if addresses are distinct, which
the comparison needs to be worth anything. From these `DeploymentsChangeWhatWasReviewed`,
`DestructionNeedsConsent`, `PlanRunsApplyOnce`, `SuccessIsConvergence`.

*`ExtractionResult_proofs`.* `ResultTypeCorrect`, `ResultInvariance` and
`AnswersDecideJobs`, proved together; `ShownValuesAreExtracted` from
the lemma that reading a stored number keeps its value;
`PlainResultsAreReadable`: without integral floats a result is read back as it
was accepted. `OnlyWidenedNumbersGrow` says which numbers may be longer when
they are read, and `OnlyWidenedResultsAreRefused` carries this to whole results:
if no number grows, the sum over the fields does not, so the limit that was met
is met again. The sum is a fold over the set of fields, and the prover takes no
induction scheme; the lemma on sums argues by a smallest counterexample among the
finite sets (the strict subset order is well-founded), from which one element is
removed. It is for this that `Field` is assumed finite: a response is.

The invariants `IInv`, `ClockInv`, `PipelineInv`, `KeeperInv`, `ControlInv`,
`LoadingInv`, `LoopInv`, `ResultInv` and `DeployInv` are what these proofs
establish; the runs check the properties that follow from them.

Only model-checked: `AttemptedJobSettles` and `EveryMessageSettles`, since
fairness is beyond the prover. Every other property of the passing runs is the
statement of a theorem.

## 7. Where code and documentation differ

* `stale_snapshot`. `docs/architecture/dead-letter-job-reconciliation.md:583`
  says that a stale observed snapshot cannot kill a newly acquired attempt.
  `mark_dead` compares `updated_at` and not the observed status, so it can when
  the next claim bears the timestamp of the release that was observed. It takes
  two hosts that read the same microsecond, and `DeadSparesActiveLease` shows
  that this tie is the only case.
* `losing_invocation`. `docs/architecture/system-design.md:465` says that a
  losing invocation exits successfully. It does when the job is completed; when
  another worker owns it, the workflow raises and the delivery is retried.
  In the trace two invocations read the pending job, and the one whose put comes
  second ends with an error though the other holds its lease.
  `DeletedOnlyWhenTerminal` depends on the code's behaviour: acknowledging would
  drop the message although the owner may yet release the job.

* `unreadable_result`. `docs/architecture/data-model.md:179` holds the conversion
  of numbers appropriate. It makes an integer of every integral decimal, so the
  float `1e125` (five characters) comes back with 126 digits; the size limit of
  32 KiB, checked again at every read, may then refuse a result that was
  accepted and stored, and `get_job` raises for a job that has succeeded.
  `UnreadableOnlyWhenWidened` shows that such floats are the only cause.

## 8. Not modelled

* items that the code has not written (`document_job_from_item` refuses them),
  and `parse_sqs_wrapped_s3_event`, which no handler calls;
* the exceptions of the parser and the categories of a refused response are not
  told apart further than handlers and workflow do; the events that the provider
  emits about its calls;
* settings and composition: no state after start-up; their values are the
  constants of the models;
* logging, envelopes, request contexts: no state depends on them;
* S3 answers that are malformed are not told from unsound documents; the expiry
  of an upload URL is not modelled (a client may stop uploading at any time);
* of the deployment: the refusal of malformed plans and attestations, modules and
  replace paths in an attestation, the summary for readers, identity tokens and
  roles, the package of the Lambda functions (the manifest of a local plan binds
  the plan and not the package it names), re-runs of a plan run under the same
  number, deposed objects;
* bootstrap, packaging and the checks of pull requests: no part of the running
  system.

Three things the deployment leaves open, which no property forbids. A commit
that changes only outputs is reported as a verified no-op, since attestations
list resources alone (`terraform_workflow.py:1750`), so the outputs in the state
stay as they were; `SuccessMeansConverged` has the outputs in it for a success
after an apply only, whose last plan compares them by its exit code. An update that failed half-way is an update in the next plan
too: a retry with the same plan run passes, though the message asks for a new
one (`:1772`). And change sets have no values: a re-run of an older commit's
deployment passes if the shape of its changes is that of its review.

A job that no attempt ever claimed stays pending for ever: its messages end in
quarantine and the reconciler refuses it on purpose. So does the pending job of
a creation whose answer was lost. No property forbids either.

## 9. Running

    tlc -workers 2 -config processing.cfg MCDocumentProcessing.tla
    tlapm DocumentProcessing_proofs.tla

`PROJECT.json` lists the runs, for each property a mutation of the model that
breaks it, the source lines behind every definition, the hazards and the
theorems.
