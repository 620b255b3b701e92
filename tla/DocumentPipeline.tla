-------------------------- MODULE DocumentPipeline -------------------------
(***************************************************************************)
(* The queues and Lambda functions around one document job: the messages   *)
(* S3 sends for the upload (S3 and SQS both deliver at least once, so      *)
(* there may be several), the processing queue with its processor, the     *)
(* dead-letter queue with its reconciler, and the quarantine queue.        *)
(*                                                                         *)
(* The job itself is JobLifecycle, with its operations atomic; module      *)
(* DocumentProcessing shows that the code implements it.  What this module *)
(* adds is when the operations are attempted: the retries of a message,    *)
(* the visibility timeouts that space them, the lease that refuses them,   *)
(* and the redrive policies that end them.                                 *)
(*                                                                         *)
(* Durations run in timers that a tick of the clock lowers.  A message     *)
(* that is visible, unlike a running invocation, may wait for any time.    *)
(***************************************************************************)
EXTENDS JobLifecycle, FiniteSets

CONSTANTS
    Message,              \* the notifications of the upload
    Lease,                \* PROCESSING_LEASE_DURATION_SECONDS
    Timeout,              \* timeout of the processing Lambda
    ReconcileTimeout,     \* timeout of the dead-letter Lambda
    Visibility,           \* visibility timeout of the processing queue
    DeadVisibility,       \* visibility timeout of the dead-letter queue
    MaxReceives,          \* maxReceiveCount of both redrive policies
    ReconcilerCrashes     \* whether the dead-letter Lambda may fail

ASSUME PipelineAssumption ==
    /\ {Lease, Timeout, ReconcileTimeout, Visibility, DeadVisibility, MaxReceives}
         \subseteq Nat \ {0}
    /\ Timeout < Visibility
    /\ ReconcileTimeout < DeadVisibility
    /\ ReconcilerCrashes \in BOOLEAN

VARIABLES
    lease,    \* time left to the lease of the claim, 0 without a claim
    queue     \* each message: where it is, and the invocation it is in

pipeline == <<status, attempts, owner, result, lease, queue>>

Terminal == status \in {"SUCCEEDED", "FAILED", "DEAD"}

Places == {"unsent", "processing", "dead_letter", "quarantine", "deleted"}

\* hidden is the rest of the visibility timeout, left the rest of the Lambda
\* timeout, attempt the last claim made on behalf of the message.
Messages == [place : Places, receives : 0 .. MaxReceives, hidden : Nat,
             run : {"none", "starting", "holding", "reconciling"}, left : Nat,
             attempt : Nat]

\* The types of the variables.
PipelineTypeOK ==
    /\ status \in {"ABSENT", "PENDING_UPLOAD", "PROCESSING", "SUCCEEDED", "FAILED", "DEAD"}
    /\ attempts \in Nat /\ owner \in Nat /\ result \in Nat
    /\ lease \in 0 .. Lease
    /\ queue \in [Message -> Messages]

PipelineInit ==
    /\ LifeInit
    /\ lease = 0
    /\ queue = [m \in Message |-> [place |-> "unsent", receives |-> 0, hidden |-> 0,
                                   run |-> "none", left |-> 0, attempt |-> 0]]

\* The document is uploaded, and S3 notifies the queue.
Send(m) ==
    /\ queue[m].place = "unsent"
    /\ queue' = [queue EXCEPT ![m].place = "processing"]
    /\ UNCHANGED <<life, lease>>

Waits(m, place) ==
    queue[m].place = place /\ queue[m].run = "none" /\ queue[m].hidden = 0

\* Mutants: the visibility timeout is the Lambda's; receives are not bounded;
\* receives are not counted.
DeliverBriefly(m) ==
    /\ Waits(m, "processing")
    /\ queue[m].receives < MaxReceives
    /\ queue' = [queue EXCEPT ![m].receives = @ + 1, ![m].hidden = Timeout,
                              ![m].run = "starting", ![m].left = Timeout]
    /\ UNCHANGED <<life, lease>>
DeliverUnbounded(m) ==
    /\ Waits(m, "processing")
    /\ queue' = [queue EXCEPT ![m].receives = @ + 1, ![m].hidden = Visibility,
                              ![m].run = "starting", ![m].left = Timeout]
    /\ UNCHANGED <<life, lease>>
DeliverOnceMore(m) ==
    /\ Waits(m, "processing")
    /\ queue[m].receives <= MaxReceives
    /\ queue' = [queue EXCEPT ![m].receives = IF @ = MaxReceives THEN @ ELSE @ + 1,
                              ![m].hidden = Visibility,
                              ![m].run = "starting", ![m].left = Timeout]
    /\ UNCHANGED <<life, lease>>

\* The event source mapping receives the message and invokes the processor.
Deliver(m) ==
    /\ Waits(m, "processing")
    /\ queue[m].receives < MaxReceives
    /\ queue' = [queue EXCEPT ![m].receives = @ + 1, ![m].hidden = Visibility,
                              ![m].run = "starting", ![m].left = Timeout]
    /\ UNCHANGED <<life, lease>>

\* Mutant: the dead-letter target of a queue is the processing queue.
RedriveToSource(m, from, to) ==
    /\ Waits(m, from)
    /\ queue[m].receives = MaxReceives
    /\ queue' = [queue EXCEPT ![m].place = "processing", ![m].receives = 0]
    /\ UNCHANGED <<life, lease>>

\* The message is received once too often: SQS moves it instead.
Redrive(m, from, to) ==
    /\ Waits(m, from)
    /\ queue[m].receives = MaxReceives
    /\ queue' = [queue EXCEPT ![m].place = to, ![m].receives = 0]
    /\ UNCHANGED <<life, lease>>

DeliverDead(m) ==
    /\ Waits(m, "dead_letter")
    /\ queue[m].receives < MaxReceives
    /\ queue' = [queue EXCEPT ![m].receives = @ + 1, ![m].hidden = DeadVisibility,
                              ![m].run = "reconciling", ![m].left = ReconcileTimeout]
    /\ UNCHANGED <<life, lease>>

---------------------------------------------------------------------------
(* How an invocation ends: the handler names the record in               *)
(* batchItemFailures (or the invocation fails as a whole), and the message *)
(* becomes visible again when its visibility timeout is over; or it does   *)
(* not, and Lambda deletes the message.                                    *)

Reported(m) == [queue EXCEPT ![m].run = "none", ![m].left = 0]

Acknowledged(m) ==
    [queue EXCEPT ![m].run = "none", ![m].left = 0, ![m].hidden = 0,
                  ![m].place = "deleted"]

\* A claim's identifier is as fresh as the number of claims.
ThisAttempt == attempts + 1

StartClaims(m) ==
    /\ queue[m].run = "starting"
    /\ status = "PENDING_UPLOAD" \/ (status = "PROCESSING" /\ lease = 0)
    /\ Claim(ThisAttempt)
    /\ lease' = Lease
    /\ queue' = [queue EXCEPT ![m].run = "holding", ![m].attempt = ThisAttempt]

\* Mutant: a message that finds another worker active is acknowledged.
StartEndsTrusting(m) ==
    /\ queue[m].run = "starting"
    /\ \/ (Terminal \/ (status = "PROCESSING" /\ lease > 0)) /\ queue' = Acknowledged(m)
       \/ status = "ABSENT" /\ queue' = Reported(m)
    /\ UNCHANGED <<life, lease>>

\* The effect was applied already, another worker is active, or the job
\* does not exist.
StartEnds(m) ==
    /\ queue[m].run = "starting"
    /\ \/ Terminal /\ queue' = Acknowledged(m)
       \/ status = "PROCESSING" /\ lease > 0 /\ queue' = Reported(m)
       \/ status = "ABSENT" /\ queue' = Reported(m)
    /\ UNCHANGED <<life, lease>>

\* The claim's owner records a result or a failure, or releases the claim
\* because a dependency was unavailable.  The reply to the put may be lost.
FinishOwned(m) ==
    /\ queue[m].run = "holding"
    /\ queue[m].attempt = owner
    /\ \/ (Succeed \/ Fail) /\ queue' = Acknowledged(m)
       \/ (Succeed \/ Fail \/ Release) /\ queue' = Reported(m)
    /\ lease' = 0

\* The claim was lost, and whatever the invocation found is dropped.
FinishLost(m) ==
    /\ queue[m].run = "holding"
    /\ queue[m].attempt # owner
    /\ queue' = Reported(m)
    /\ UNCHANGED <<life, lease>>

\* Mutant: a job whose claim was released is not eligible.
ReconcileClaimed(m) ==
    /\ queue[m].run = "reconciling"
    /\ \/ Terminal /\ queue' = Acknowledged(m) /\ UNCHANGED <<life, lease>>
       \/ /\ \/ status \in {"ABSENT", "PENDING_UPLOAD"}
             \/ status = "PROCESSING" /\ lease > 0
          /\ queue' = Reported(m)
          /\ UNCHANGED <<life, lease>>
       \/ /\ status = "PROCESSING" /\ lease = 0
          /\ Die
          /\ queue' = Acknowledged(m)
          /\ lease' = 0

Reconcile(m) ==
    /\ queue[m].run = "reconciling"
    /\ \/ /\ Terminal
          /\ queue' = Acknowledged(m)
          /\ UNCHANGED <<life, lease>>
       \/ /\ \/ status = "ABSENT"
             \/ status = "PENDING_UPLOAD" /\ attempts < 1
             \/ status = "PROCESSING" /\ lease > 0
          /\ queue' = Reported(m)
          /\ UNCHANGED <<life, lease>>
       \/ /\ status = "PROCESSING" => lease = 0
          /\ Die
          /\ queue' = Acknowledged(m) \/ queue' = Reported(m)
          /\ lease' = 0

\* A failure before the claim or after it: an exception, a crash, the timeout.
Crash(m) ==
    /\ \/ queue[m].run \in {"starting", "holding"}
       \/ queue[m].run = "reconciling" /\ ReconcilerCrashes
    /\ queue' = Reported(m)
    /\ UNCHANGED <<life, lease>>

Lowered(timer) == IF timer = 0 THEN 0 ELSE timer - 1

\* Lambda lets no invocation run beyond its timeout.
Tick ==
    /\ \A m \in Message : queue[m].run # "none" => queue[m].left > 0
    /\ lease' = Lowered(lease)
    /\ queue' = [m \in Message |->
                   [queue[m] EXCEPT !.hidden = Lowered(@), !.left = Lowered(@)]]
    /\ UNCHANGED life

Run(m) ==
    StartClaims(m) \/ StartEnds(m) \/ FinishOwned(m) \/ FinishLost(m) \/ Reconcile(m)
      \/ Crash(m)

Queues(m) ==
    \/ Deliver(m) \/ DeliverDead(m)
    \/ Redrive(m, "processing", "dead_letter") \/ Redrive(m, "dead_letter", "quarantine")

PipelineNext == (\E m \in Message : Send(m) \/ Queues(m) \/ Run(m)) \/ Tick

PipelineSpec == PipelineInit /\ [][PipelineNext]_pipeline

\* SQS delivers what is visible, an invocation ends (Lambda sees to it), and
\* time passes.  Nothing makes a client upload, or an invocation succeed.
Fairness ==
    /\ \A m \in Message : WF_pipeline(Queues(m)) /\ WF_pipeline(Run(m))
    /\ WF_pipeline(Tick)

FairPipeline == PipelineSpec /\ Fairness

---------------------------------------------------------------------------
(* Properties *)

\* A message leaves the queues for good only when its job is terminal; it is
\* never deleted for a job that still has work to be done.
DeletedOnlyWhenTerminal ==
    \A m \in Message : queue[m].place = "deleted" => Terminal

\* When a message is delivered again, the claim that its last delivery made
\* has run out: a crashed invocation does not make its own retry fail.  The
\* visibility timeout in sqs.tf and the lease in lambda.tf agree on this only
\* by their values.
OwnClaimNeverBlocks ==
    \A m \in Message :
        /\ queue[m].run \in {"starting", "reconciling"}
        /\ owner # 0 /\ queue[m].attempt = owner
        => lease = 0

\* The redrive policy bounds the claims, hence the calls of the AI provider
\* that are paid for: each takes a receive of its own.
AttemptsAreBounded == attempts <= MaxReceives * Cardinality(Message)

\* Every message that is sent is acknowledged or reaches the quarantine.
EveryMessageSettles ==
    \A m \in Message : queue[m].place = "processing"
                         ~> queue[m].place \in {"deleted", "quarantine"}

\* A job that was claimed once becomes terminal, whatever happens to the
\* processor, as long as the reconciler works: neither crashes nor
\* competing messages leave it pending or claimed for ever.
AttemptedJobSettles == (attempts >= 1) ~> Terminal

\* The steps that a message has yet to make, at most: three for each receive
\* that is left, delivery, claim and end, and one to leave each queue.
Phases == [none |-> 0, holding |-> 1, starting |-> 2, reconciling |-> 2]

StepsLeft(me) ==
    LET left == 3 * (MaxReceives - me.receives) + Phases[me.run] + 1 IN
    CASE me.place = "unsent" -> 2 * (3 * MaxReceives + 1) + 1
      [] me.place = "processing" -> left + 3 * MaxReceives + 1
      [] me.place = "dead_letter" -> left
      [] OTHER -> 0

\* What the settling of messages rests on: nothing but the clock happens to a
\* message without bringing it nearer to its end, whatever else goes on in the
\* queues and however invocations end, and the steps are counted beforehand.
EveryStepIsProgress ==
    [][\A m \in Message :
         \/ StepsLeft(queue'[m]) \in 0 .. StepsLeft(queue[m]) - 1
         \/ queue'[m] = [queue[m] EXCEPT !.hidden = queue'[m].hidden,
                                         !.left = queue'[m].left]]_pipeline

\* What the settling of jobs rests on: while a job that was claimed is pending or
\* claimed, a message of it is still to be processed or reconciled.  Lost
\* claims, reported deliveries and redrives never use up the last one.
UnfinishedJobKeepsAMessage ==
    attempts >= 1 /\ ~Terminal =>
        \E m \in Message : queue[m].place \in {"processing", "dead_letter"}

---------------------------------------------------------------------------
(* The inductive invariant behind these properties.  If the visibility      *)
(* timeout covers the Lambda timeout and a lease, a message stays hidden    *)
(* for as long as the claim made for it is leased: when the claim is made,  *)
(* the rest of the visibility timeout still exceeds the rest of the Lambda  *)
(* timeout by a lease.                                                      *)

LeaseFits == Timeout + Lease <= Visibility

\* The owner of the job is an attempt that was made.
OwnerInv ==
    /\ owner # 0 => status = "PROCESSING"
    /\ owner <= attempts

\* What may be relied on of a message at each of its stations.
MessageInv(m) ==
    /\ queue[m].place = "deleted" => Terminal /\ queue[m].run = "none"
    /\ queue[m].attempt <= attempts
    /\ queue[m].run \in {"starting", "holding"} =>
         queue[m].left + Visibility <= queue[m].hidden + Timeout
    /\ LeaseFits /\ owner # 0 /\ queue[m].attempt = owner =>
         /\ lease <= queue[m].hidden
         /\ queue[m].run \in {"starting", "reconciling"} => lease = 0

\* The inductive invariant behind these properties.
PipelineInv == OwnerInv /\ \A m \in Message : MessageInv(m)

\* Which invocations a message may be in, at each place.
StationInv(me) ==
    /\ me.place = "unsent" => me.run = "none" /\ me.receives = 0
    /\ me.run \in {"starting", "holding"} => me.place = "processing"
    /\ me.run = "starting" => me.receives >= 1
    /\ me.run = "reconciling" => me.place = "dead_letter"

\* The message of the last claim keeps the job: it is not quarantined, for its
\* first reconciliation, at the latest, finds the lease run out and the job
\* eligible.
Keeps(m) ==
    /\ queue[m].attempt = attempts
    /\ \/ queue[m].place = "processing"
       \/ queue[m].place = "dead_letter" /\ (queue[m].run = "none" => queue[m].receives = 0)

\* With a dead-letter Lambda that does not fail, and LeaseFits.
KeeperInv ==
    /\ owner \in {0, attempts}
    /\ status = "PROCESSING" => owner # 0
    /\ status = "ABSENT" => attempts = 0
    /\ attempts >= 1 /\ ~Terminal => \E m \in Message : Keeps(m)
============================================================================
