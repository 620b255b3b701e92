---------------------------- MODULE ControlPlane ----------------------------
(***************************************************************************)
(* The two API operations, POST /jobs and GET /jobs/{job_id}, around the   *)
(* table of jobs, with the clients that call them and upload documents.    *)
(*                                                                         *)
(* A client makes one request at a time.  An invocation may fail between   *)
(* any two of its accesses; the client then gets an error and cannot tell  *)
(* whether its job was stored.  The identifiers are UUIDs; the code relies *)
(* on a conditional put, not on their being distinct, and so does this     *)
(* module, whose generator may repeat itself.                              *)
(*                                                                         *)
(* What the processing pipeline does to a stored job meanwhile is the      *)
(* lifecycle of module JobLifecycle, seen through the fields a view shows. *)
(***************************************************************************)
EXTENDS Naturals

CONSTANTS
    Client,
    JobId,         \* identifiers the generator draws from
    NoClient,      \* who created a job that does not exist
    NoJobId,       \* the job of a request that names none
    MaxAttempts    \* bound of the model: claims of one job

ASSUME ControlPlaneAssumption ==
    /\ NoClient \notin Client
    /\ NoJobId \notin JobId
    /\ MaxAttempts \in Nat

VARIABLES
    table,       \* the stored jobs
    call,        \* each client's request under way
    uploads,     \* the jobs for which a client holds an upload URL
    views,       \* views[c][j]: what client c was last answered about job j
    uploaded     \* the jobs whose document is in the bucket

controlPlane == <<table, call, uploads, views, uploaded>>

Terminal == {"SUCCEEDED", "FAILED", "DEAD"}

\* status and attempts are what a view shows; creator is the correlation
\* context, which names the request that stored the job.
StoredJobs == [status : {"ABSENT", "PENDING_UPLOAD", "PROCESSING"} \union Terminal,
               attempts : Nat, creator : Client \union {NoClient}]

Absent == [status |-> "ABSENT", attempts |-> 0, creator |-> NoClient]

Created(c) == [status |-> "PENDING_UPLOAD", attempts |-> 0, creator |-> c]

Calls == [pc : {"idle", "sign", "put", "read", "respond"},
          job : JobId \union {NoJobId}, view : StoredJobs]

Idle == [pc |-> "idle", job |-> NoJobId, view |-> Absent]

\* The types of the variables.
ControlTypeOK ==
    /\ table \in [JobId -> StoredJobs]
    /\ call \in [Client -> Calls]
    /\ uploads \in [Client -> SUBSET JobId]
    /\ views \in [Client -> [JobId -> StoredJobs]]
    /\ uploaded \in SUBSET JobId

ControlInit ==
    /\ table = [j \in JobId |-> Absent]
    /\ call = [c \in Client |-> Idle]
    /\ uploads = [c \in Client |-> {}]
    /\ views = [c \in Client |-> [j \in JobId |-> Absent]]
    /\ uploaded = {}

\* The request is answered.  Errors (400, 404, 409, 500, 503) tell the client
\* nothing it keeps.
Answered(c) == call' = [call EXCEPT ![c] = Idle]

---------------------------------------------------------------------------
(* POST /jobs *)

BeginCreate(c) ==
    /\ call[c].pc = "idle"
    /\ \E j \in JobId : call' = [call EXCEPT ![c] = [Idle EXCEPT !.pc = "sign", !.job = j]]
    /\ UNCHANGED <<table, uploads, views, uploaded>>

\* The upload URL is made before the job is stored.
CreateUpload(c) ==
    /\ call[c].pc = "sign"
    /\ call' = [call EXCEPT ![c].pc = "put"]
    /\ UNCHANGED <<table, uploads, views, uploaded>>

\* 201, with the upload URL.
Succeeds(c) ==
    /\ Answered(c)
    /\ uploads' = [uploads EXCEPT ![c] = @ \union {call[c].job}]

\* Mutants: a job that exists is taken for a retry of the request; a put that
\* failed is ignored.
CreateJobTakingOver(c) ==
    /\ call[c].pc = "put"
    /\ \/ /\ table[call[c].job] = Absent
          /\ table' = [table EXCEPT ![call[c].job] = Created(c)]
          /\ Succeeds(c)
       \/ /\ table[call[c].job] # Absent
          /\ Succeeds(c)
          /\ UNCHANGED table
    /\ UNCHANGED <<views, uploaded>>
CreateJobIgnoringErrors(c) ==
    /\ call[c].pc = "put"
    /\ \/ /\ table[call[c].job] = Absent
          /\ table' = [table EXCEPT ![call[c].job] = Created(c)]
       \/ UNCHANGED table
    /\ Succeeds(c)
    /\ UNCHANGED <<views, uploaded>>

\* The put, conditional on the absence of the item.  When it took effect the
\* reply may get lost, or the SDK sends the request again and meets the item
\* that the first request stored.
CreateJob(c) ==
    /\ call[c].pc = "put"
    /\ \/ /\ table[call[c].job] = Absent
          /\ table' = [table EXCEPT ![call[c].job] = Created(c)]
          /\ \/ Succeeds(c)
             \/ Answered(c) /\ UNCHANGED uploads
       \/ /\ table[call[c].job] # Absent       \* 409
          /\ Answered(c)
          /\ UNCHANGED <<table, uploads>>
    /\ UNCHANGED <<views, uploaded>>

---------------------------------------------------------------------------
(* GET /jobs/{job_id} *)

BeginGet(c) ==
    /\ call[c].pc = "idle"
    /\ \E j \in JobId : call' = [call EXCEPT ![c] = [Idle EXCEPT !.pc = "read", !.job = j]]
    /\ UNCHANGED <<table, uploads, views, uploaded>>

\* Mutant: the read is eventually consistent, and may miss recent puts.
ReadJobStale(c) ==
    /\ call[c].pc = "read"
    /\ \E item \in {Absent, table[call[c].job]} :
         call' = [call EXCEPT ![c].pc = "respond", ![c].view = item]
    /\ UNCHANGED <<table, uploads, views, uploaded>>

\* The strongly consistent read; the answer is on its way.
ReadJob(c) ==
    /\ call[c].pc = "read"
    /\ call' = [call EXCEPT ![c].pc = "respond", ![c].view = table[call[c].job]]
    /\ UNCHANGED <<table, uploads, views, uploaded>>

Respond(c) ==
    /\ call[c].pc = "respond"
    /\ \/ /\ call[c].view = Absent
          /\ Answered(c)                       \* 404
          /\ UNCHANGED views
       \/ /\ call[c].view # Absent
          /\ Answered(c)                       \* 200
          /\ views' = [views EXCEPT ![c][call[c].job] = call[c].view]
    /\ UNCHANGED <<table, uploads, uploaded>>

\* An invocation ends early: a dependency refused a call, the code raised,
\* the process crashed or the timeout of the Lambda came.
FailRequest(c) ==
    /\ call[c].pc # "idle"
    /\ Answered(c)
    /\ UNCHANGED <<table, uploads, views, uploaded>>

---------------------------------------------------------------------------
(* The document and its processing *)

\* Mutant: the URL is signed for the prefix of the keys.
UploadAnywhere(c) ==
    /\ uploads[c] # {}
    /\ \E j \in JobId \union {NoJobId} : uploaded' = uploaded \union {j}
    /\ UNCHANGED <<table, call, uploads, views>>

\* The client may use the URL again, to replace the document.
Upload(c) ==
    /\ \E j \in uploads[c] : uploaded' = uploaded \union {j}
    /\ UNCHANGED <<table, call, uploads, views>>

\* Mutant: the end of an attempt is not guarded by the status.
ProcessJobAgain(j) ==
    /\ j \in uploaded
    /\ \E status \in {"PENDING_UPLOAD"} \union Terminal :
         table' = [table EXCEPT ![j].status = status]
    /\ UNCHANGED <<call, uploads, views, uploaded>>

\* A transition of the lifecycle; the processor is invoked for uploads only.
ProcessJob(j) ==
    /\ j \in uploaded
    /\ \/ /\ table[j].status \in {"PENDING_UPLOAD", "PROCESSING"}
          /\ table[j].attempts < MaxAttempts
          /\ table' = [table EXCEPT ![j].status = "PROCESSING", ![j].attempts = @ + 1]
       \/ /\ table[j].status = "PROCESSING"
          /\ \E status \in {"PENDING_UPLOAD"} \union Terminal :
               table' = [table EXCEPT ![j].status = status]
       \/ /\ table[j].status = "PENDING_UPLOAD" /\ table[j].attempts >= 1
          /\ table' = [table EXCEPT ![j].status = "DEAD"]
    /\ UNCHANGED <<call, uploads, views, uploaded>>

ControlNext ==
    \/ \E c \in Client :
         BeginCreate(c) \/ CreateUpload(c) \/ CreateJob(c)
           \/ BeginGet(c) \/ ReadJob(c) \/ Respond(c) \/ FailRequest(c) \/ Upload(c)
    \/ \E j \in JobId : ProcessJob(j)

ControlSpec == ControlInit /\ [][ControlNext]_controlPlane

---------------------------------------------------------------------------
(* Properties *)

\* Whoever holds an upload URL created the job it is for, even if the
\* generator repeats an identifier: no document is ever uploaded into the
\* job of another client.
UploadUrlIsExclusive ==
    \A c \in Client : \A j \in uploads[c] : table[j].creator = c

\* The URL is signed before the job is stored, and yet a document never
\* reaches the queue before its job reaches the table: the processor never
\* answers an upload with "job was not found".
UploadHasItsJob == \A j \in uploaded : table[j] # Absent

\* A client that was answered 201 for a job is never answered 404 for it, and
\* one that has seen a job never sees less of it.
Precedes(v, w) ==
    /\ v.attempts <= w.attempts
    /\ v # Absent => w # Absent /\ v.creator = w.creator
    /\ v.status \in Terminal => v = w

ReadsFollowWrites ==
    \A c \in Client :
        call[c].pc = "respond" =>
            /\ call[c].job \in uploads[c] => call[c].view # Absent
            /\ Precedes(views[c][call[c].job], call[c].view)

\* What a client was answered never goes back: a terminal status that was
\* shown once is shown for ever, and attempts only grow.
ViewsNeverGoBack ==
    [][\A c \in Client, j \in JobId : Precedes(views[c][j], views'[c][j])]_controlPlane

---------------------------------------------------------------------------
(* The inductive invariant: every view is an earlier version of the job. *)

\* What a call relies on between its steps.
CallInv(c) ==
    /\ call[c].pc # "idle" => call[c].job \in JobId
    /\ call[c].pc = "respond" => Precedes(call[c].view, table[call[c].job])

\* A client has seen nothing that the table has not passed.
ViewInv(c) == \A j \in JobId : Precedes(views[c][j], table[j])

\* The inductive invariant behind these properties.
ControlInv ==
    /\ UploadUrlIsExclusive
    /\ UploadHasItsJob
    /\ ReadsFollowWrites
    /\ \A c \in Client : CallInv(c) /\ ViewInv(c)
============================================================================
