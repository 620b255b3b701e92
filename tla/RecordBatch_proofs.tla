------------------------ MODULE RecordBatch_proofs -------------------------
(***************************************************************************)
(* The loop of the batch handler, for batches of any size: its invariant   *)
(* and what the answer means for the messages of the batch.                *)
(***************************************************************************)
EXTENDS RecordBatch, TLAPS

\* The types in a form the steps can use.
LEMMA BatchShape ==
    ASSUME BatchTypeOK
    PROVE  /\ Len(batch) \in Nat /\ DOMAIN batch = 1 .. Len(batch)
           /\ \A i \in 1 .. Len(batch) :
                /\ batch[i].id \in MessageId \union {NoMessageId}
                /\ Body(i) \in Seq(S3Records) /\ Len(Body(i)) \in Nat
                /\ DOMAIN Body(i) = 1 .. Len(Body(i))
                /\ IsAccepted(Body(i)) => Len(Body(i)) >= 1
<1>1. \A i \in 1 .. Len(batch) : batch[i] \in QueueRecords
  BY DEF BatchTypeOK
<1>2. \A b \in Seq(S3Records) : b # <<>> => Len(b) >= 1
  OBVIOUS
<1> QED BY <1>1, <1>2 DEF BatchTypeOK, QueueRecords, Bodies, Body, IsAccepted

\* Reporting a message keeps the identifiers distinct and adds this one.
LEMMA AppendedReports ==
    ASSUME NEW id \in MessageId, failures \in Seq(MessageId)
    PROVE  /\ Appended(id) \in Seq(MessageId)
           /\ IdsOf(Appended(id)) = IdsOf(failures) \union {id}
           /\ (\A i, j \in DOMAIN failures : failures[i] = failures[j] => i = j)
                => \A i, j \in DOMAIN Appended(id) :
                      Appended(id)[i] = Appended(id)[j] => i = j
<1>1. CASE id \in IdsOf(failures)
  BY <1>1 DEF Appended, IdsOf
<1>2. CASE id \notin IdsOf(failures)
  <2> DEFINE s == Append(failures, id)
  <2>1. /\ s \in Seq(MessageId) /\ Len(s) = Len(failures) + 1
        /\ DOMAIN s = 1 .. Len(failures) + 1 /\ DOMAIN failures = 1 .. Len(failures)
        /\ Len(failures) \in Nat
        /\ \A i \in 1 .. Len(failures) : s[i] = failures[i]
        /\ s[Len(failures) + 1] = id
    OBVIOUS
  <2>2. Appended(id) = s
    BY <1>2 DEF Appended
  <2> HIDE DEF s
  <2>3. IdsOf(s) = IdsOf(failures) \union {id}
    BY <2>1 DEF IdsOf
  <2>4. \A i \in 1 .. Len(failures) : failures[i] # id
    BY <1>2, <2>1 DEF IdsOf
  <2> QED BY <2>1, <2>2, <2>3, <2>4
<1> QED BY <1>1, <1>2

\* The loop starts within its invariant.
LEMMA BatchInitInv == BatchInit => BatchTypeOK /\ LoopInv
<1> SUFFICES ASSUME BatchInit PROVE BatchTypeOK /\ LoopInv
  OBVIOUS
<1>1. BatchTypeOK
  BY BatchAssumption DEF BatchInit, BatchTypeOK, AppliedOK
<1>2. Len(batch) \in Nat
  BY <1>1, BatchShape
<1>3. IdsOf(failures) = {} /\ DOMAIN failures = {}
  BY DEF BatchInit, IdsOf
<1>4. Uploads
  BY DEF BatchInit, Uploads
<1> QED BY <1>1, <1>2, <1>3, <1>4 DEF BatchInit, LoopInv, Cursor, AppliedSoFar, Accounted, Blamed,
       Distinct, Handled

\* While the batch and the applied events stay, so does what is said of them.
LEMMA SameEvents ==
    ASSUME BatchTypeOK, LoopInv, UNCHANGED <<batch, applied>>
    PROVE  /\ AppliedOK' /\ Uploads'
           /\ \A i : Body(i)' = Body(i)
           /\ \A i : Applied(i)' <=> Applied(i)
<1>1. \A i : Body(i)' = Body(i)
  BY DEF Body
<1>2. AppliedOK'
  BY <1>1 DEF BatchTypeOK, AppliedOK
<1>3. Uploads'
  BY <1>1 DEF LoopInv, Uploads
<1> QED BY <1>1, <1>2, <1>3 DEF Applied

\* A step that neither applies nor reports anything keeps the accounts, as
\* long as the records it is done with are the same, or fewer when it raises.
LEMMA Quiet ==
    ASSUME BatchTypeOK, LoopInv, UNCHANGED <<batch, failures, applied>>,
           Handled' = Handled \/ (pc' = "raised" /\ Handled' >= Handled), Handled' \in Nat,
           Handled \in Nat,
           pc' # "raised" => pc # "raised",
           pc' # "process" => pc # "process" \/ Handled' >= record
    PROVE  /\ \A p \in applied' :
                p[1] <= Handled' \/ (pc = "process" /\ p[1] = record /\ p[2] < event)
           /\ Accounted' /\ Blamed' /\ Distinct' /\ Uploads'
<1>1. \A i : Applied(i)' <=> Applied(i)
  BY SameEvents
<1>2. \A p \in applied : p[1] \in Nat
  BY BatchShape DEF BatchTypeOK, AppliedOK
<1>3. Uploads'
  BY SameEvents
<1> QED BY <1>1, <1>2, <1>3 DEF LoopInv, AppliedSoFar, Accounted, Blamed, Distinct, IdsOf

\* The current record fails: its identifier is reported, and the loop goes on.
LEMMA Reported ==
    ASSUME BatchTypeOK, LoopInv, pc \in {"parse", "process"}, ~Applied(record),
           failures' = Appended(batch[record].id), pc' = "next",
           UNCHANGED <<batch, record, event, applied>>
    PROVE  BatchTypeOK' /\ LoopInv'
<1>0. /\ record \in 1 .. Len(batch) /\ Len(batch) \in Nat /\ event \in Nat
      /\ batch[record].id \in MessageId
      /\ Handled = record - 1 /\ Handled' = record
      /\ \A p \in applied : p[1] \in Nat
      /\ \A i \in 1 .. record : i = record \/ i \in 1 .. Handled
      /\ \A i \in 1 .. Handled : i \in 1 .. record
  BY BatchShape DEF BatchTypeOK, AppliedOK, LoopInv, Cursor, Handled
<1>1. /\ failures' \in Seq(MessageId)
      /\ IdsOf(failures') = IdsOf(failures) \union {batch[record].id}
      /\ Distinct'
  BY <1>0, AppendedReports DEF BatchTypeOK, LoopInv, Distinct
<1>2. AppliedOK' /\ Uploads' /\ \A i : Applied(i)' <=> Applied(i)
  BY SameEvents
<1>3. BatchTypeOK' /\ Cursor'
  BY <1>0, <1>1, <1>2 DEF BatchTypeOK, LoopInv, Cursor
<1>4. AppliedSoFar'
  BY <1>0 DEF LoopInv, AppliedSoFar
<1>5. Accounted'
  BY <1>0, <1>1, <1>2 DEF LoopInv, Accounted
<1>6. Blamed'
  BY <1>0, <1>1, <1>2 DEF LoopInv, Blamed
<1> QED BY <1>1, <1>2, <1>3, <1>4, <1>5, <1>6 DEF LoopInv

\* Every step of the handler preserves the invariant of its loop.
LEMMA BatchStep ==
    ASSUME BatchTypeOK, LoopInv, [BatchNext]_batchVars
    PROVE  BatchTypeOK' /\ LoopInv'
<1>0. /\ Len(batch) \in Nat /\ DOMAIN batch = 1 .. Len(batch)
      /\ record \in Nat /\ event \in Nat
      /\ NoMessageId \notin MessageId
      /\ \A i \in 1 .. Len(batch) :
                /\ batch[i].id \in MessageId \union {NoMessageId}
                /\ Body(i) \in Seq(S3Records) /\ Len(Body(i)) \in Nat
                /\ DOMAIN Body(i) = 1 .. Len(Body(i))
                /\ IsAccepted(Body(i)) => Len(Body(i)) >= 1
      /\ \A p \in applied : p[1] \in Nat /\ p[2] \in Nat
      /\ Cursor
  <2>1. record \in Nat /\ event \in Nat /\ Cursor /\ NoMessageId \notin MessageId
    BY BatchShape, BatchAssumption DEF BatchTypeOK, LoopInv
  <2>2. \A p \in applied : p[1] \in Nat /\ p[2] \in Nat
    BY BatchShape DEF BatchTypeOK, AppliedOK
  <2> QED BY <2>1, <2>2, BatchShape
<1>h. /\ record \in Nat /\ (pc \in {"parse", "process"} => record >= 1)
      /\ Handled \in Nat /\ Handled <= record
  <2>1. record \in Nat /\ (pc \in {"parse", "process"} => record >= 1)
    BY <1>0 DEF Cursor
  <2> QED BY <2>1 DEF Handled
<1>s. UNCHANGED <<batch, applied>> => AppliedOK' /\ \A i : Body(i)' = Body(i)
  BY SameEvents
<1>1. CASE ExtractQueueRecords
  <2>1. BatchTypeOK' /\ Cursor'
    BY <1>0, <1>s, <1>1 DEF ExtractQueueRecords, BatchTypeOK, Cursor
  <2>2. Handled' = Handled /\ Handled \in Nat
    BY <1>h, <1>1 DEF ExtractQueueRecords, Handled
  <2> QED BY <1>1, <2>1, <2>2, Quiet DEF ExtractQueueRecords, LoopInv, AppliedSoFar
<1>2. CASE TakeRecord
  <2>1. BatchTypeOK' /\ Cursor'
    BY <1>0, <1>s, <1>2 DEF TakeRecord, BatchTypeOK, Cursor
  <2>2. /\ Handled' = Handled \/ (pc' = "raised" /\ Handled' >= Handled)
        /\ Handled \in Nat /\ Handled' \in Nat /\ pc' # "process"
    BY <1>h, <1>2 DEF TakeRecord, Handled
  <2> QED BY <1>2, <2>1, <2>2, Quiet DEF TakeRecord, LoopInv, AppliedSoFar
<1>3. CASE ParseRecord
  <2>1. CASE IsAccepted(Body(record))
    <3>1. BatchTypeOK' /\ Cursor'
      BY <1>0, <1>s, <1>3, <2>1 DEF ParseRecord, BatchTypeOK, Cursor
    <3>2. Handled' = Handled /\ Handled \in Nat /\ pc' = "process" /\ event' = 1
      BY <1>h, <1>3, <2>1 DEF ParseRecord, Handled
    <3> QED BY <1>3, <2>1, <3>1, <3>2, Quiet DEF ParseRecord, LoopInv, AppliedSoFar
  <2>2. CASE ~IsAccepted(Body(record))
    <3>1. ~Applied(record) /\ failures' = Appended(batch[record].id)
      BY <1>3, <2>2 DEF ParseRecord, Applied
    <3>2. pc = "parse" /\ pc' = "next" /\ UNCHANGED <<batch, record, event, applied>>
      BY <1>3, <2>2 DEF ParseRecord
    <3> QED BY <3>1, <3>2, Reported
  <2> QED BY <1>0, <1>3, <2>1, <2>2 DEF ParseRecord
<1>4. CASE ProcessorAccepts
  <2>0. /\ batch' = batch /\ applied' = applied \union {<<record, event>>}
        /\ \A i : Body(i)' = Body(i)
    BY <1>4 DEF ProcessorAccepts, Body
  <2>2. /\ Handled = record - 1 /\ record \in 1 .. Len(batch)
        /\ event \in 1 .. Len(Body(record)) /\ IsAccepted(Body(record))
        /\ Len(Body(record)) \in Nat
    BY <1>0, <1>4 DEF ProcessorAccepts, Handled, Cursor
  <2>a. AppliedOK'
    BY <1>0, <2>0, <2>2 DEF BatchTypeOK, AppliedOK
  <2>b. Uploads'
    BY <2>0, <2>2 DEF LoopInv, Uploads
  <2>1. BatchTypeOK' /\ Cursor'
    <3>1. record' \in 0 .. Len(batch') /\ event' \in Nat /\ pc' \in {"next", "process"}
      BY <1>0, <1>4, <2>0, <2>2 DEF ProcessorAccepts
    <3>2. BatchTypeOK'
      BY <1>4, <2>0, <2>a, <3>1 DEF ProcessorAccepts, BatchTypeOK
    <3>3. pc' = "process" => event' \in 1 .. Len(Body(record)) /\ record' = record
      BY <1>4, <2>2 DEF ProcessorAccepts
    <3>4. /\ DOMAIN Body(record) = 1 .. Len(Body(record))
          /\ record' = record /\ pc = "process"
      BY <1>0, <1>4, <2>2 DEF ProcessorAccepts
    <3>5. Body(record)' = Body(record)
      BY <1>4, <2>0 DEF ProcessorAccepts, Body
    <3>6. Cursor'
      BY <1>0, <2>0, <2>2, <3>1, <3>3, <3>4, <3>5 DEF Cursor
    <3> QED BY <3>2, <3>6
  <2>3. \A i \in 1 .. Handled : Applied(i)' <=> Applied(i)
    BY <1>0, <2>0, <2>2 DEF Applied
  <2>4. Blamed' /\ Distinct'
    <3>1. Handled' \in {record - 1, record}
      BY <1>4 DEF ProcessorAccepts, Handled
    <3>2. IdsOf(failures)' = IdsOf(failures) /\ batch' = batch
      BY <1>4 DEF ProcessorAccepts, IdsOf
    <3>3. Distinct'
      BY <1>4 DEF ProcessorAccepts, LoopInv, Distinct
    <3> QED BY <1>0, <2>2, <2>3, <3>1, <3>2, <3>3 DEF LoopInv, Blamed
  <2>5. CASE event = Len(Body(record)) /\ pc' = "next" /\ UNCHANGED event
    <3>1. Handled' = record
      BY <1>4, <2>5 DEF ProcessorAccepts, Handled
    <3>2. AppliedSoFar'
      BY <1>0, <1>4, <2>2, <2>5, <3>1 DEF ProcessorAccepts, LoopInv, AppliedSoFar
    <3>3. Applied(record)'
      BY <1>0, <1>4, <2>0, <2>2, <2>5 DEF ProcessorAccepts, LoopInv, AppliedSoFar, Applied
    <3>4. \A i \in 1 .. record : i = record \/ i \in 1 .. Handled
      BY <1>0, <2>2
    <3>5. Accounted'
      BY <1>4, <2>3, <3>1, <3>3, <3>4 DEF ProcessorAccepts, LoopInv, Accounted, IdsOf
    <3> QED BY <2>1, <2>b, <2>4, <3>2, <3>5 DEF LoopInv
  <2>6. CASE event < Len(Body(record)) /\ event' = event + 1 /\ UNCHANGED pc
    <3>1. Handled' = Handled
      BY <1>4, <2>6 DEF ProcessorAccepts, Handled
    <3>2. AppliedSoFar'
      BY <1>0, <1>4, <2>2, <2>6, <3>1 DEF ProcessorAccepts, LoopInv, AppliedSoFar
    <3>3. Accounted'
      BY <1>4, <2>3, <2>6, <3>1 DEF ProcessorAccepts, LoopInv, Accounted, IdsOf
    <3> QED BY <2>1, <2>b, <2>4, <3>2, <3>3 DEF LoopInv
  <2> QED BY <1>4, <2>5, <2>6 DEF ProcessorAccepts
<1>5. CASE ProcessorRaises
  <2>1. <<record, event>> \notin applied
    BY <1>0, <1>5 DEF ProcessorRaises, LoopInv, AppliedSoFar, Handled
  <2>2. ~Applied(record)
    BY <1>0, <1>5, <2>1 DEF ProcessorRaises, Applied, Cursor
  <2> QED BY <1>5, <2>2, Reported DEF ProcessorRaises
<1>6. CASE Return
  <2>1. BatchTypeOK' /\ Cursor'
    BY <1>0, <1>s, <1>6 DEF Return, BatchTypeOK, Cursor
  <2>2. Handled' = Handled /\ Handled \in Nat
    BY <1>h, <1>6 DEF Return, Handled
  <2> QED BY <1>6, <2>1, <2>2, Quiet DEF Return, LoopInv, AppliedSoFar
<1>7. CASE StopInvocation
  <2>1. BatchTypeOK' /\ Cursor'
    BY <1>0, <1>s, <1>7 DEF StopInvocation, BatchTypeOK, Cursor
  <2>2. Handled' = record /\ Handled \in Nat /\ Handled' >= Handled /\ Handled' \in Nat
    BY <1>h, <1>7 DEF StopInvocation, Handled
  <2>3. pc' = "raised" /\ UNCHANGED <<batch, record, event, failures, applied>>
    BY <1>7 DEF StopInvocation
  <2>4. /\ Accounted' /\ Blamed' /\ Distinct'
        /\ \A p \in applied' : p[1] <= Handled' \/ (pc = "process" /\ p[1] = record /\ p[2] < event)
        /\ Uploads'
    BY <1>7, <2>2, <2>3, Quiet DEF StopInvocation
  <2> QED BY <1>0, <2>1, <2>2, <2>3, <2>4 DEF LoopInv, AppliedSoFar
<1>8. CASE UNCHANGED batchVars
  <2>1. BatchTypeOK' /\ Cursor'
    BY <1>0, <1>s, <1>8 DEF batchVars, BatchTypeOK, Cursor
  <2>2. Handled' = Handled /\ Handled \in Nat
    BY <1>h, <1>8 DEF batchVars, Handled
  <2>3. UNCHANGED <<batch, pc, record, event, failures, applied>>
    BY <1>8 DEF batchVars
  <2>4. Accounted' /\ Blamed' /\ Distinct' /\ Uploads'
    BY <2>2, <2>3, Quiet
  <2>5. AppliedSoFar'
    BY <2>2, <2>3 DEF LoopInv, AppliedSoFar
  <2> QED BY <2>1, <2>4, <2>5 DEF LoopInv
<1> QED BY <1>1, <1>2, <1>3, <1>4, <1>5, <1>6, <1>7, <1>8 DEF BatchNext

\* The invariant of the loop, for batches of any size.
THEOREM LoopInvariance == BatchSpec => [](BatchTypeOK /\ LoopInv)
  BY BatchInitInv, BatchStep, PTL DEF BatchSpec

\* No message is deleted unless all its upload events were accepted.
THEOREM NoEventIsLost == BatchSpec => []DeletedMeansApplied
<1>1. BatchTypeOK /\ LoopInv => DeletedMeansApplied
  <2> SUFFICES ASSUME BatchTypeOK, LoopInv, NEW i \in DOMAIN batch, Deleted(i)
               PROVE  Applied(i)
    BY DEF DeletedMeansApplied
  <2>1. pc = "returned" /\ batch[i].id \notin IdsOf(failures) /\ i \in 1 .. Handled
    BY BatchShape DEF Deleted, LoopInv, Cursor, Handled
  <2> QED BY <2>1 DEF LoopInv, Accounted
<1> QED BY <1>1, LoopInvariance, PTL

\* No message is retried for the failure of another.
THEOREM FailureIsIsolated == BatchSpec => []RetriedMeansFailed
<1>1. BatchTypeOK /\ LoopInv => RetriedMeansFailed
  <2> SUFFICES ASSUME BatchTypeOK, LoopInv, pc = "returned", NEW i \in DOMAIN batch, ~Deleted(i)
               PROVE  \E j \in DOMAIN batch : batch[j].id = batch[i].id /\ ~Applied(j)
    BY DEF RetriedMeansFailed
  <2>1. batch[i].id \in IdsOf(failures) /\ Handled = Len(batch)
    BY DEF Deleted, LoopInv, Cursor, Handled
  <2> QED BY <2>1, BatchShape DEF LoopInv, Blamed
<1> QED BY <1>1, LoopInvariance, PTL

\* Lambda can use the answer.
THEOREM AnswerUsability == BatchSpec => []AnswerIsUsable
<1>1. BatchTypeOK /\ LoopInv => AnswerIsUsable
  <2> SUFFICES ASSUME BatchTypeOK, LoopInv PROVE AnswerIsUsable
    OBVIOUS
  <2>1. record \in Nat /\ \A j \in 1 .. Handled : j \in 1 .. record
    BY DEF BatchTypeOK, Handled
  <2> QED BY <2>1 DEF LoopInv, Blamed, Distinct, AnswerIsUsable, IdsOf
<1> QED BY <1>1, LoopInvariance, PTL

\* Which keys the filters of the bucket and the parser leave over: the one
\* that was built for the job.
LEMMA OneKeyPerJob ==
    ASSUME NEW key \in Keys, Notifies(key), IsCanonical(key)
    PROVE  key = DocumentKey(JobIdOf(key))
<1>1. /\ key.path \in Seq(Segments) /\ Len(key.path) = 3
      /\ key.path[1] = "documents" /\ key.path[3] = "source.txt"
      /\ key.space = "none"
      /\ key = [space |-> key.space, path |-> key.path]
  BY DEF Keys, Notifies, IsCanonical
<1>2. key.path = <<key.path[1], key.path[2], key.path[3]>>
  BY <1>1
<1> QED BY <1>1, <1>2 DEF DocumentKey, JobIdOf

\* The types of the loop, for batches of any size.
THEOREM BatchTypes == BatchSpec => []BatchTypeOK
  BY LoopInvariance, PTL

\* An accepted event is about the object of its own job.
THEOREM EventsConcernTheirJob == BatchSpec => []EventsNameTheirObject
<1>1. BatchTypeOK /\ LoopInv => EventsNameTheirObject
  <2> SUFFICES ASSUME BatchTypeOK, LoopInv, NEW p \in applied
               PROVE  LET key == Body(p[1])[p[2]].key IN key = DocumentKey(JobIdOf(key))
    BY DEF EventsNameTheirObject
  <2> DEFINE r == Body(p[1])[p[2]]
  <2>1. /\ p[1] \in DOMAIN batch /\ p[2] \in DOMAIN Body(p[1]) /\ IsAccepted(Body(p[1]))
        /\ Body(p[1]) \in Seq(S3Records)
    BY BatchShape DEF BatchTypeOK, AppliedOK, LoopInv, Uploads
  <2>2. r \in S3Records /\ r.key \in Keys
    <3>1. r \in S3Records
      BY <2>1
    <3> QED BY <3>1 DEF S3Records
  <2>3. Notifies(r.key)
    BY <2>1 DEF LoopInv, Uploads, Sendable, Body
  <2>4. IsCanonical(r.key)
    BY <2>1 DEF IsAccepted, IsUpload
  <2> QED BY <2>2, <2>3, <2>4, OneKeyPerJob
<1> QED BY <1>1, LoopInvariance, PTL
============================================================================
