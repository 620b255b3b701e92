-------------------------- MODULE DocumentLoading --------------------------
(***************************************************************************)
(* The document of one job: its uploads to the bucket, the notifications   *)
(* that announce them, and what each processing attempt loads, extracts    *)
(* and stores.                                                             *)
(*                                                                         *)
(* The upload URL may be used several times, so an attempt works for one   *)
(* of several events of the same job, while the bucket moves on.  The job  *)
(* is the one of JobLifecycle, its operations atomic; an attempt that has  *)
(* lost its claim goes on, and its last write is refused.                  *)
(*                                                                         *)
(* A content stands for the bytes of a document.  Size and ETag are        *)
(* functions of it, and the presigned URL fixes the content type, so a     *)
(* content is also what a notification says of them; equal contents have   *)
(* equal ETags.                                                            *)
(***************************************************************************)
EXTENDS JobLifecycle, Sequences

CONSTANTS
    Content,        \* what clients upload
    Sound,          \* the contents that are UTF-8 text, and not too long
    Blank,          \* those of them that are blank
    TooLong,        \* the contents beyond the size limit
    NoETag,         \* the ETag of a notification that has none
    NoText,         \* nothing loaded
    MaxUploads      \* bound of the model

ASSUME LoadingAssumption ==
    /\ Attempt \subseteq Nat \ {0}
    /\ Sound \subseteq Content /\ Blank \subseteq Sound
    /\ TooLong \subseteq Content \ Sound
    /\ NoETag \notin Content /\ NoText \notin Content
    /\ MaxUploads \in Nat

VARIABLES
    bucket,     \* the versions of the object, in the order of their uploads
    expired,    \* those that the lifecycle rule has deleted
    marked,     \* how many uploads the last delete marker came after
    events,     \* the notifications sent
    work        \* the local state of each attempt

loading == <<status, attempts, owner, result, bucket, expired, marked, events, work>>

NoVersion == 0

\* version is the versionId, upload (which the event does not carry) the
\* upload it announces.
EventSpace == [etag : Content \union {NoETag}, version : Nat, upload : Nat]

NoEvent == [etag |-> NoETag, version |-> NoVersion, upload |-> 0]

Failures == {"none", "invalid_document_reference", "document_not_found",
             "document_validation_failed", "invalid_provider_request",
             "ai_provider_invalid_response"}

WorkSpace == [pc : {"unused", "load", "extract", "finish", "ended"}, event : EventSpace,
              text : Content \union {NoText}, reason : Failures,
              finalization : {"complete", "fail", "release"}]

Unused == [pc |-> "unused", event |-> NoEvent, text |-> NoText, reason |-> "none",
           finalization |-> "release"]

\* The types of the variables.
LoadingTypeOK ==
    /\ status \in {"ABSENT", "PENDING_UPLOAD", "PROCESSING", "SUCCEEDED", "FAILED", "DEAD"}
    /\ attempts \in Nat
    /\ owner \in Attempt \union {0}
    /\ result \in Attempt \union {0}
    /\ bucket \in Seq(Content)
    /\ expired \in SUBSET Nat
    /\ marked \in Nat
    /\ events \in SUBSET EventSpace
    /\ work \in [Attempt -> WorkSpace]

LoadingInit ==
    /\ LifeInit
    /\ status = "PENDING_UPLOAD"
    /\ bucket = <<>>
    /\ expired = {}
    /\ marked = 0
    /\ events = {}
    /\ work = [a \in Attempt |-> Unused]

---------------------------------------------------------------------------
(* The bucket *)

\* What the bucket may say of an upload.  s3.tf turns versioning on, but the
\* parser takes ETag and version identifier for optional.
Notifications(content, upload) ==
    {[etag |-> etag, version |-> version, upload |-> upload] :
        etag \in {content, NoETag}, version \in {upload, NoVersion}}

Upload(content) ==
    /\ Len(bucket) < MaxUploads
    /\ bucket' = Append(bucket, content)
    /\ \E e \in Notifications(content, Len(bucket) + 1) : events' = events \union {e}
    /\ UNCHANGED <<life, expired, marked, work>>

\* The object is there when no delete marker is newer than its versions.
IsCurrent == marked < Len(bucket)

\* documents-retention: the current version expires.  The object gets a delete
\* marker, and its last version can still be had by its identifier.
Expire ==
    /\ IsCurrent
    /\ marked' = Len(bucket)
    /\ UNCHANGED <<life, bucket, expired, events, work>>

\* A noncurrent version expires: it is deleted.
ExpireNoncurrent(upload) ==
    /\ upload \in DOMAIN bucket
    /\ IsCurrent => upload < Len(bucket)
    /\ expired' = expired \union {upload}
    /\ UNCHANGED <<life, bucket, marked, events, work>>

---------------------------------------------------------------------------
(* An attempt *)

\* start_processing acquires the claim for one of the events, the lease of
\* an earlier claim having expired.
StartAttempt(a) ==
    /\ work[a].pc = "unused"
    /\ Claim(a)
    /\ \E e \in events :
         work' = [work EXCEPT ![a] = [Unused EXCEPT !.pc = "load", !.event = e]]
    /\ UNCHANGED <<bucket, expired, marked, events>>

\* Mutant: reason and status are swapped.
FailsSwapped(a, reason) ==
    work' = [work EXCEPT ![a].pc = "finish", ![a].finalization = reason, ![a].reason = "fail"]

Fails(a, reason) ==
    work' = [work EXCEPT ![a].pc = "finish", ![a].finalization = "fail", ![a].reason = reason]

Releases(a) ==
    work' = [work EXCEPT ![a].pc = "finish", ![a].finalization = "release"]

\* Mutant: GetObject asks for the current version.
RequestedCurrent(e) == Len(bucket)

\* The version that GetObject is asked for.
Requested(e) == IF e.version # NoVersion THEN e.version ELSE Len(bucket)

\* GetObject finds that version, or without an identifier the current one.
IsFound(e) == IF e.version # NoVersion THEN e.version \notin expired ELSE IsCurrent

\* Mutant: only the version is compared.
IdentityOfVersion(e, upload) == e.version \in {NoVersion, upload}

\* _validate_response_identity and _require_version_id
IsIdentity(e, upload) ==
    /\ bucket[upload] = e.etag
    /\ e.version \in {NoVersion, upload}

\* A notification without an ETag, or of too long a document, is refused
\* before the bucket is asked.
RefuseReference(a) ==
    /\ work[a].pc = "load"
    /\ \/ /\ work[a].event.etag = NoETag
          /\ Fails(a, "invalid_document_reference")
       \/ /\ work[a].event.etag \in TooLong
          /\ Fails(a, "document_validation_failed")
    /\ UNCHANGED <<life, bucket, expired, marked, events>>

\* Loading the document: the transient errors of S3 release the claim, every
\* other outcome but a sound document of the announced identity is final.
LoadDocument(a) ==
    LET e == work[a].event IN
    /\ work[a].pc = "load"
    /\ e.etag \notin TooLong \union {NoETag}
    /\ \/ Releases(a)
       \/ /\ ~IsFound(e)
          /\ Fails(a, "document_not_found")
       \/ /\ IsFound(e)
          /\ ~IsIdentity(e, Requested(e)) \/ bucket[Requested(e)] \notin Sound
          /\ Fails(a, "document_validation_failed")
       \/ /\ IsFound(e)
          /\ IsIdentity(e, Requested(e)) /\ bucket[Requested(e)] \in Sound
          /\ work' = [work EXCEPT ![a].pc = "extract", ![a].text = bucket[Requested(e)]]
    /\ UNCHANGED <<life, bucket, expired, marked, events>>

\* A blank document makes no request.  The provider answers, answers nonsense,
\* or is unavailable.
Extract(a) ==
    /\ work[a].pc = "extract"
    /\ \/ /\ work[a].text \in Blank
          /\ Fails(a, "invalid_provider_request")
       \/ /\ work[a].text \notin Blank
          /\ \/ work' = [work EXCEPT ![a].pc = "finish", ![a].finalization = "complete"]
             \/ Fails(a, "ai_provider_invalid_response")
             \/ Releases(a)
    /\ UNCHANGED <<life, bucket, expired, marked, events>>

Ends(a) == work' = [work EXCEPT ![a].pc = "ended"]

\* complete_job, fail_job or release_retryable_claim, for the owner only.
Finish(a) ==
    /\ work[a].pc = "finish"
    /\ \/ /\ owner = a
          /\ \/ work[a].finalization = "complete" /\ Succeed
             \/ work[a].finalization = "fail" /\ Fail
             \/ work[a].finalization = "release" /\ Release
       \/ /\ owner # a
          /\ UNCHANGED life
    /\ Ends(a)
    /\ UNCHANGED <<bucket, expired, marked, events>>

\* The invocation crashes, or loses the connection to the table.
AbandonAttempt(a) ==
    /\ work[a].pc \in {"load", "extract", "finish"}
    /\ Ends(a)
    /\ UNCHANGED <<life, bucket, expired, marked, events>>

\* The dead-letter reconciliation gives up the job.
GiveUp == Die /\ UNCHANGED <<bucket, expired, marked, events, work>>

LoadingNext ==
    \/ \E content \in Content : Upload(content)
    \/ Expire
    \/ \E upload \in 1 .. MaxUploads : ExpireNoncurrent(upload)
    \/ \E a \in Attempt :
         StartAttempt(a) \/ RefuseReference(a) \/ LoadDocument(a) \/ Extract(a) \/ Finish(a)
           \/ AbandonAttempt(a)
    \/ GiveUp

LoadingSpec == LoadingInit /\ [][LoadingNext]_loading

---------------------------------------------------------------------------
(* Properties *)

\* The stored extraction is that of the document which the event of its own
\* attempt announced, whatever was uploaded before or after it, and whichever
\* other attempts ran meanwhile.
ResultIsOfItsDocument ==
    status = "SUCCEEDED" =>
        /\ work[result].text = bucket[work[result].event.upload]
        /\ work[result].text \in Sound \ Blank

\* A job fails because of its document only when the very document that was
\* announced is unsound, or is gone: a client that replaces its upload is not
\* blamed for the replacement.  This takes the event's version identifier,
\* which only a versioned bucket gives.
BlamesTheRightDocument ==
    \A a \in Attempt :
        LET upload == work[a].event.upload IN
        work[a].event.version # NoVersion =>
        /\ work[a].reason = "document_validation_failed" => bucket[upload] \notin Sound
        /\ work[a].reason = "document_not_found" => upload \in expired
        /\ work[a].reason = "invalid_provider_request" => bucket[upload] \in Blank

---------------------------------------------------------------------------
(* The inductive invariant *)

\* An event says of its upload what the bucket said.
EventInv(e) ==
    /\ e.upload \in DOMAIN bucket
    /\ e.etag \in {bucket[e.upload], NoETag}
    /\ e.version \in {e.upload, NoVersion}

\* What an attempt relies on at each of its steps.
AttemptInv(a) ==
    LET e == work[a].event IN
    /\ work[a].pc # "unused" => EventInv(e)
    /\ work[a].text # NoText =>
         work[a].pc # "unused" /\ work[a].text = bucket[e.upload] /\ work[a].text \in Sound
    /\ work[a].pc = "extract" => work[a].text # NoText
    /\ work[a].pc = "finish" /\ work[a].finalization = "complete" =>
         work[a].text \notin Blank \union {NoText}
    /\ work[a].reason # "none" => work[a].pc # "unused"

\* The inductive invariant behind these properties.
LoadingInv ==
    /\ \A e \in events : EventInv(e)
    /\ \A a \in Attempt : AttemptInv(a)
    /\ status = "PROCESSING" => owner \in Attempt
    /\ status = "SUCCEEDED" =>
         result \in Attempt /\ work[result].text \notin Blank \union {NoText}
    /\ BlamesTheRightDocument
============================================================================
