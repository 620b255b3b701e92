---------------------------- MODULE RecordBatch ----------------------------
(***************************************************************************)
(* The handle function that the processing Lambda and the dead-letter      *)
(* Lambda share line by line: it walks over the SQS records of one         *)
(* invocation, parses each into upload events, hands every event to the    *)
(* processor, and answers with the identifiers of the messages that failed.*)
(* Lambda deletes the messages of the batch that the answer does not name; *)
(* an invocation that raises, or is stopped, deletes nothing.              *)
(*                                                                         *)
(* A record is its message identifier, which may be unusable, and its      *)
(* body; module UploadEvents says which bodies the parser accepts.         *)
(***************************************************************************)
EXTENDS UploadEvents

CONSTANTS
    MessageId,     \* usable message identifiers
    NoMessageId,   \* a missing, empty or ill-typed messageId
    Batch          \* the batches Lambda may hand over

QueueRecords == [id : MessageId \union {NoMessageId}, body : Bodies]

ASSUME BatchAssumption ==
    /\ NoMessageId \notin MessageId
    /\ Batch \subseteq Seq(QueueRecords)

VARIABLES
    batch,       \* the records of the invocation
    pc,
    record,      \* the records taken up so far: the index of the current one
    event,       \* the index of the current event in it
    failures,    \* failed_message_ids
    applied      \* the events, by record, that the processor accepted

batchVars == <<batch, pc, record, event, failures, applied>>

Body(i) == batch[i].body

AppliedOK == \A p \in applied : p[1] \in DOMAIN batch /\ p[2] \in DOMAIN Body(p[1])

\* The types of the variables.
BatchTypeOK ==
    /\ batch \in Seq(QueueRecords)
    /\ pc \in {"extract", "next", "parse", "process", "returned", "raised"}
    /\ record \in 0 .. Len(batch)
    /\ event \in Nat
    /\ failures \in Seq(MessageId)
    /\ AppliedOK

\* The bucket alone may send to the queue, and notifies of the keys that
\* pass its filters.
Sendable(b) == \A i \in DOMAIN b : \A e \in DOMAIN b[i].body : Notifies(b[i].body[e].key)

BatchInit ==
    /\ batch \in {b \in Batch : Sendable(b)}
    /\ pc = "extract"
    /\ record = 0
    /\ event = 0
    /\ failures = <<>>
    /\ applied = {}

IdsOf(s) == {s[i] : i \in DOMAIN s}

\* Mutant: the identifiers are not looked up.
AppendedTwice(id) == Append(failures, id)

\* _append_failure, which reports an identifier once.
Appended(id) == IF id \in IdsOf(failures) THEN failures ELSE Append(failures, id)

\* _extract_queue_records: an event without a list of Records is refused.
ExtractQueueRecords ==
    /\ pc = "extract"
    /\ pc' \in {"next", "raised"}
    /\ UNCHANGED <<batch, record, event, failures, applied>>

\* _extract_message_id: without it the failure of a record could not be
\* reported, so the whole invocation is refused.
TakeRecord ==
    /\ pc = "next"
    /\ record < Len(batch)
    /\ record' = record + 1
    /\ pc' = IF batch[record'].id = NoMessageId THEN "raised" ELSE "parse"
    /\ UNCHANGED <<batch, event, failures, applied>>

\* Mutant: a body that is rejected is skipped as if it held no events.
ParseRecordSkipping ==
    /\ pc = "parse"
    /\ \/ ~IsAccepted(Body(record)) /\ pc' = "next" /\ UNCHANGED event
       \/ IsAccepted(Body(record)) /\ event' = 1 /\ pc' = "process"
    /\ UNCHANGED <<batch, record, failures, applied>>

\* parse_sqs_record_with_s3_notification
ParseRecord ==
    /\ pc = "parse"
    /\ \/ /\ ~IsAccepted(Body(record))
          /\ failures' = Appended(batch[record].id)
          /\ pc' = "next"
          /\ UNCHANGED event
       \/ /\ IsAccepted(Body(record))
          /\ event' = 1
          /\ pc' = "process"
          /\ UNCHANGED failures
    /\ UNCHANGED <<batch, record, applied>>

\* Mutant: the loop over the events runs one too far.
ProcessorAcceptsBeyond ==
    /\ pc = "process"
    /\ applied' = applied \union {<<record, event>>}
    /\ \/ event > Len(Body(record)) /\ pc' = "next" /\ UNCHANGED event
       \/ event <= Len(Body(record)) /\ event' = event + 1 /\ UNCHANGED pc
    /\ UNCHANGED <<batch, record, failures>>

ProcessorAccepts ==
    /\ pc = "process"
    /\ applied' = applied \union {<<record, event>>}
    /\ \/ event = Len(Body(record)) /\ pc' = "next" /\ UNCHANGED event
       \/ event < Len(Body(record)) /\ event' = event + 1 /\ UNCHANGED pc
    /\ UNCHANGED <<batch, record, failures>>

\* Mutant: the failure is reported under the first record of the batch.
ProcessorRaisesForFirst ==
    /\ pc = "process"
    /\ failures' = Appended(batch[1].id)
    /\ pc' = "next"
    /\ UNCHANGED <<batch, record, event, applied>>

\* An expected or an unexpected exception; the events after it are skipped.
ProcessorRaises ==
    /\ pc = "process"
    /\ failures' = Appended(batch[record].id)
    /\ pc' = "next"
    /\ UNCHANGED <<batch, record, event, applied>>

Return ==
    /\ pc = "next"
    /\ record = Len(batch)
    /\ pc' = "returned"
    /\ UNCHANGED <<batch, record, event, failures, applied>>

\* Lambda stops the invocation: a crash or the timeout.
StopInvocation ==
    /\ pc \notin {"returned", "raised"}
    /\ pc' = "raised"
    /\ UNCHANGED <<batch, record, event, failures, applied>>

BatchNext ==
    \/ ExtractQueueRecords \/ TakeRecord \/ ParseRecord
    \/ ProcessorAccepts \/ ProcessorRaises \/ Return \/ StopInvocation

BatchSpec == BatchInit /\ [][BatchNext]_batchVars

---------------------------------------------------------------------------
(* Properties *)

\* What ReportBatchItemFailures makes of the answer.
Deleted(i) == pc = "returned" /\ batch[i].id \notin IdsOf(failures)

Applied(i) ==
    /\ IsAccepted(Body(i))
    /\ \A e \in DOMAIN Body(i) : <<i, e>> \in applied

\* No upload event is lost: a message is deleted only when all its events
\* were accepted, whatever failed before or after it in the batch.
DeletedMeansApplied == \A i \in DOMAIN batch : Deleted(i) => Applied(i)

\* A failure is isolated: a message is delivered again only when it failed
\* itself (or a record that bears the same identifier did).
RetriedMeansFailed ==
    pc = "returned" =>
        \A i \in DOMAIN batch :
            ~Deleted(i) => \E j \in DOMAIN batch : batch[j].id = batch[i].id /\ ~Applied(j)

\* The answer is one Lambda can use: distinct identifiers of the batch.
AnswerIsUsable ==
    /\ \A i, j \in DOMAIN failures : failures[i] = failures[j] => i = j
    /\ \A i \in DOMAIN failures : \E j \in 1 .. record : failures[i] = batch[j].id

\* An event bears the key of an object and the identifier of a job; the
\* parser derives the one from the other after stripping white space, and the
\* dead-letter handler looks at the identifier only.  Whatever the queues
\* deliver, the object of an accepted event is that of the very job.
EventsNameTheirObject ==
    \A p \in applied :
        LET key == Body(p[1])[p[2]].key IN key = DocumentKey(JobIdOf(key))

---------------------------------------------------------------------------
(* The invariant of the loop *)

\* The records the loop is done with.
Handled == IF pc \in {"parse", "process"} THEN record - 1 ELSE record

\* Where the loops stand.
Cursor ==
    /\ record <= Len(batch)
    /\ pc = "extract" => record = 0 /\ failures = <<>>
    /\ pc = "returned" => record = Len(batch)
    /\ pc \in {"parse", "process"} => record >= 1 /\ batch[record].id \in MessageId
    /\ pc = "process" => event \in DOMAIN Body(record) /\ IsAccepted(Body(record))

\* What was applied, and of the current record in particular.
AppliedSoFar ==
    /\ pc = "process" => \A e \in 1 .. event - 1 : <<record, e>> \in applied
    /\ \A p \in applied :
         p[1] <= Handled \/ (pc = "process" /\ p[1] = record /\ p[2] < event)

\* A record that is done with was applied or reported, and a report has a
\* failed record to blame.
Accounted ==
    pc # "raised" =>
        \A i \in 1 .. Handled : Applied(i) \/ batch[i].id \in IdsOf(failures)

Blamed ==
    \A f \in IdsOf(failures) : \E j \in 1 .. Handled : batch[j].id = f /\ ~Applied(j)

Distinct == \A i, j \in DOMAIN failures : failures[i] = failures[j] => i = j

\* The processor gets events of accepted bodies, which were sent.
Uploads ==
    /\ Sendable(batch)
    /\ \A p \in applied : IsAccepted(Body(p[1]))

\* The invariant of the loop.
LoopInv == Cursor /\ AppliedSoFar /\ Accounted /\ Blamed /\ Distinct /\ Uploads
============================================================================
