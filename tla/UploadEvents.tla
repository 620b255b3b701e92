---------------------------- MODULE UploadEvents ---------------------------
(***************************************************************************)
(* What the body of an SQS message says, and what the parser of            *)
(* delivery/events makes of it: a sequence of upload events, or a          *)
(* rejection of the whole body.  The handlers do not tell the exceptions   *)
(* of the parser apart, so a rejection is one verdict, in whatever order   *)
(* the checks are made.                                                    *)
(*                                                                         *)
(* A field is the class its value is in.  An object key is the path it     *)
(* splits into at its slashes, and the side on which it has white space;   *)
(* S3 encodes keys and unquote_plus decodes them, so this is the key of    *)
(* the object itself.  A field that is missing, blank or of another type   *)
(* is "invalid"; a missing key is the empty one.                           *)
(***************************************************************************)
EXTENDS Naturals, Sequences

CONSTANT Job        \* job identifiers: path segments without white space

Empty == ""
Spaced == "a b"     \* a segment with white space in it

Segments == Job \union {"documents", "source.txt", "my-source.txt", Empty, Spaced}

ASSUME SegmentAssumption == Empty \notin Job /\ Spaced \notin Job

Keys == [space : {"none", "before", "after"}, path : Seq(Segments)]

\* build_document_object_key
DocumentKey(job) == [space |-> "none", path |-> <<"documents", job, "source.txt">>]

\* Mutant: filter_prefix is missing.
NotifiesAnyPrefix(key) ==
    /\ key.space # "after"
    /\ key.path # <<>> /\ key.path[Len(key.path)] \in {"source.txt", "my-source.txt"}

\* filter_prefix and filter_suffix of the bucket's notification.
Notifies(key) ==
    /\ key.space = "none"
    /\ Len(key.path) >= 2
    /\ key.path[1] = "documents"
    /\ key.path[Len(key.path)] \in {"source.txt", "my-source.txt"}

\* extract_job_id_from_document_object_key, which strips the key first: a
\* path of three segments, of which the second is a job identifier.
IsCanonical(key) ==
    /\ Len(key.path) = 3
    /\ key.path[1] = "documents"
    /\ key.path[3] = "source.txt"
    /\ key.path[2] \notin {Empty, Spaced}

JobIdOf(key) == key.path[2]

---------------------------------------------------------------------------
(* S3 records and bodies *)

Optionals == {"none", "text", "invalid"}

\* An entry of Records that is no object is one whose fields are invalid.
S3Records == [eventName : {"created", "other", "invalid"},
              bucket : {"documents", "other", "invalid"},
              key : Keys,
              size : {"zero", "positive", "negative", "boolean", "invalid"},
              eTag : Optionals, sequencer : Optionals, versionId : Optionals]

\* _parse_s3_record, with the validators of UploadedDocumentEvent: whether
\* the record makes an event.
IsUpload(r) ==
    /\ r.eventName = "created"
    /\ r.bucket = "documents"
    /\ IsCanonical(r.key)
    /\ r.size \in {"zero", "positive"}
    /\ {r.eTag, r.sequencer, r.versionId} \subseteq {"none", "text"}

\* A body is the list Records of its notification.  It is empty also for a
\* body that is no JSON object or has no such list, like the test event S3
\* sends when a notification is configured.
Bodies == Seq(S3Records)

\* parse_sqs_record_with_s3_notification: one bad record spoils its body, of
\* which no event is then processed.
IsAccepted(body) == body # <<>> /\ \A e \in DOMAIN body : IsUpload(body[e])
============================================================================
