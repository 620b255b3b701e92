----------------------- MODULE DocumentLoading_proofs -----------------------
(***************************************************************************)
(* The stored result is that of the announced document, and no client is   *)
(* blamed for a document it did not upload, for any number of uploads,     *)
(* contents and attempts.                                                  *)
(***************************************************************************)
EXTENDS DocumentLoading, TLAPS

\* The types in a form the steps can use.
LEMMA LoadingShape ==
    ASSUME LoadingTypeOK
    PROVE  /\ bucket \in Seq(Content) /\ Len(bucket) \in Nat
           /\ DOMAIN bucket = 1 .. Len(bucket)
           /\ \A u \in DOMAIN bucket : bucket[u] \in Content
           /\ \A a \in Attempt : work[a] \in WorkSpace /\ work[a].event \in EventSpace
           /\ \A a \in Attempt : work[a].text \in Content \union {NoText}
           /\ \A x \in WorkSpace, a \in Attempt :
                /\ [work EXCEPT ![a] = x] \in [Attempt -> WorkSpace]
                /\ [work EXCEPT ![a] = x][a] = x
                /\ \A b \in Attempt : b # a => [work EXCEPT ![a] = x][b] = work[b]
           /\ NoETag \notin Content /\ NoText \notin Content /\ 0 \notin Attempt
           /\ TooLong \subseteq Content /\ \A c \in TooLong : c \notin Sound
           /\ Sound \subseteq Content /\ Blank \subseteq Sound
  BY LoadingAssumption DEF LoadingTypeOK, WorkSpace

\* The bucket as an upload leaves it.
LEMMA UploadKeeps ==
    ASSUME NEW s \in Seq(Content), NEW c \in Content
    PROVE  /\ Append(s, c) \in Seq(Content)
           /\ DOMAIN s \subseteq DOMAIN Append(s, c)
           /\ \A u \in DOMAIN s : Append(s, c)[u] = s[u]
           /\ Len(s) + 1 \in DOMAIN Append(s, c) /\ Append(s, c)[Len(s) + 1] = c
           /\ Len(s) + 1 \in Nat
  OBVIOUS
---------------------------------------------------------------------------
(* Types *)

\* The initial states have their types.
LEMMA LoadingTypeInit == LoadingInit => LoadingTypeOK
  BY DEF LoadingInit, LifeInit, LoadingTypeOK, Unused, NoEvent, NoVersion, WorkSpace,
         EventSpace, Failures

\* The records that the steps give an attempt.
LEMMA WorkTypes ==
    ASSUME LoadingTypeOK, NEW a \in Attempt, NEW e \in EventSpace, NEW c \in Content,
           NEW reason \in Failures, NEW f \in {"complete", "release"}
    PROVE  /\ [Unused EXCEPT !.pc = "load", !.event = e] \in WorkSpace
           /\ [work[a] EXCEPT !.pc = "finish", !.finalization = "fail",
                              !.reason = reason] \in WorkSpace
           /\ [work[a] EXCEPT !.pc = "finish", !.finalization = f] \in WorkSpace
           /\ [work[a] EXCEPT !.pc = "extract", !.text = c] \in WorkSpace
           /\ [work[a] EXCEPT !.pc = "ended"] \in WorkSpace
<1>1. work[a] \in WorkSpace
  BY LoadingShape
<1>2. Unused \in WorkSpace
  BY DEF Unused, NoEvent, NoVersion, WorkSpace, EventSpace, Failures
<1> QED BY <1>1, <1>2 DEF WorkSpace

---------------------------------------------------------------------------
(* The steps *)

\* A step that gives attempt a the record x and leaves the bucket alone.
LEMMA AttemptFrame ==
    ASSUME LoadingTypeOK, LoadingInv, NEW a \in Attempt, NEW x \in WorkSpace,
           work' = [work EXCEPT ![a] = x], UNCHANGED <<bucket, expired, marked, events>>,
           AttemptInv(a)', work[a].pc # "unused" => x.pc # "unused",
           x.text = work[a].text \/ work[a].text = NoText,
           x.event.version # NoVersion =>
             /\ x.reason = "document_validation_failed" => bucket[x.event.upload] \notin Sound
             /\ x.reason = "document_not_found" => x.event.upload \in expired
             /\ x.reason = "invalid_provider_request" => bucket[x.event.upload] \in Blank,
           status' = "PROCESSING" => owner' \in Attempt,
           \/ status' \in {"PENDING_UPLOAD", "PROCESSING", "FAILED", "DEAD"}
           \/ status' = status /\ result' = result
           \/ /\ status' = "SUCCEEDED" /\ result' \in Attempt
              /\ work[result'].text \notin Blank \union {NoText}
    PROVE  LoadingInv'
<1>1. \A b \in Attempt : work'[b] = IF b = a THEN x ELSE work[b]
  BY LoadingShape
<1>2. \A b \in Attempt : AttemptInv(b)'
  BY <1>1 DEF LoadingInv, AttemptInv, EventInv
<1>3. BlamesTheRightDocument'
  BY <1>1 DEF LoadingInv, BlamesTheRightDocument
<1>4. status' = "SUCCEEDED" =>
        result' \in Attempt /\ work'[result'].text \notin Blank \union {NoText}
  BY <1>1 DEF LoadingInv
<1>5. \A e \in events' : EventInv(e)'
  BY DEF LoadingInv, EventInv
<1> QED BY <1>2, <1>3, <1>4, <1>5 DEF LoadingInv

\* An upload adds a version and an event; what was said of the older ones stays.
LEMMA UploadStep ==
    ASSUME LoadingTypeOK, LoadingInv, NEW c \in Content, Upload(c)
    PROVE  LoadingTypeOK' /\ LoadingInv'
<1>1. /\ bucket' = Append(bucket, c) /\ UNCHANGED <<life, expired, marked, work>>
      /\ bucket \in Seq(Content)
  BY DEF Upload, LoadingTypeOK
<1>2. PICK n \in Notifications(c, Len(bucket) + 1) : events' = events \union {n}
  BY DEF Upload
<1>3. /\ n.upload = Len(bucket) + 1 /\ n.etag \in {c, NoETag}
       /\ n.version \in {Len(bucket) + 1, NoVersion}
  BY <1>2 DEF Notifications
<1>4. /\ bucket' \in Seq(Content) /\ DOMAIN bucket \subseteq DOMAIN bucket'
      /\ \A u \in DOMAIN bucket : bucket'[u] = bucket[u]
      /\ Len(bucket) + 1 \in DOMAIN bucket' /\ bucket'[Len(bucket) + 1] = c
      /\ Len(bucket) + 1 \in Nat
  BY <1>1, UploadKeeps
<1>5. \A e \in EventSpace : EventInv(e) => EventInv(e)'
  BY <1>4 DEF EventInv
<1>6. EventInv(n)'
  BY <1>4, <1>3 DEF EventInv
<1>7. LoadingTypeOK'
  <2>1. n \in EventSpace
    BY <1>4, <1>2 DEF Notifications, EventSpace, NoVersion
  <2> QED BY <1>1, <1>2, <1>4, <2>1 DEF LoadingTypeOK, life
<1>8. ASSUME NEW a \in Attempt PROVE AttemptInv(a)'
  <2>1. AttemptInv(a) /\ work[a].event \in EventSpace /\ work' = work
    BY <1>1, LoadingShape DEF LoadingInv
  <2>2. (EventInv(work[a].event) => bucket'[work[a].event.upload] = bucket[work[a].event.upload])
    BY <1>4 DEF EventInv
  <2> QED BY <1>5, <2>1, <2>2 DEF AttemptInv
<1>9. BlamesTheRightDocument'
  <2> SUFFICES ASSUME NEW a \in Attempt, work[a].event.version # NoVersion
               PROVE  LET upload == work[a].event.upload IN
                      /\ work[a].reason = "document_validation_failed" =>
                           bucket'[upload] \notin Sound
                      /\ work[a].reason = "document_not_found" => upload \in expired
                      /\ work[a].reason = "invalid_provider_request" =>
                           bucket'[upload] \in Blank
    BY <1>1 DEF BlamesTheRightDocument
  <2>1. /\ AttemptInv(a)
        /\ work[a].reason = "document_validation_failed" =>
             bucket[work[a].event.upload] \notin Sound
        /\ work[a].reason = "document_not_found" => work[a].event.upload \in expired
        /\ work[a].reason = "invalid_provider_request" =>
             bucket[work[a].event.upload] \in Blank
    BY DEF LoadingInv, BlamesTheRightDocument
  <2> QED BY <1>4, <2>1 DEF AttemptInv, EventInv
<1>10. \A e \in events' : EventInv(e)'
  BY <1>2, <1>5, <1>6 DEF LoadingInv, LoadingTypeOK
<1> QED BY <1>1, <1>7, <1>8, <1>9, <1>10 DEF LoadingInv, life

\* Versions expire, and what was gone stays gone.
LEMMA ExpireStep ==
    ASSUME LoadingTypeOK, LoadingInv,
           Expire \/ \E u \in 1 .. MaxUploads : ExpireNoncurrent(u)
    PROVE  LoadingTypeOK' /\ LoadingInv'
<1>1. /\ UNCHANGED <<life, bucket, events, work>>
      /\ expired \subseteq expired' /\ expired' \in SUBSET Nat /\ marked' \in Nat
  <2>1. CASE Expire
    BY <2>1, LoadingShape DEF Expire, LoadingTypeOK
  <2>2. ASSUME NEW u \in 1 .. MaxUploads, ExpireNoncurrent(u)
        PROVE  /\ UNCHANGED <<life, bucket, events, work, marked>>
               /\ expired' = expired \union {u} /\ u \in Nat
    BY <2>2, LoadingAssumption DEF ExpireNoncurrent
  <2> QED BY <2>1, <2>2 DEF LoadingTypeOK
<1>2. LoadingTypeOK'
  BY <1>1 DEF LoadingTypeOK, life
<1>3. BlamesTheRightDocument'
  BY <1>1 DEF LoadingInv, BlamesTheRightDocument
<1> QED BY <1>1, <1>2, <1>3 DEF LoadingInv, AttemptInv, EventInv, life

\* Each outcome of an attempt gives its record one new value.
LEMMA Outcomes ==
    ASSUME LoadingTypeOK, NEW a \in Attempt, NEW reason \in Failures
    PROVE  /\ Fails(a, reason) =>
                work' = [work EXCEPT ![a] = [work[a] EXCEPT !.pc = "finish",
                                               !.finalization = "fail", !.reason = reason]]
           /\ Releases(a) =>
                work' = [work EXCEPT ![a] = [work[a] EXCEPT !.pc = "finish",
                                               !.finalization = "release"]]
           /\ Ends(a) => work' = [work EXCEPT ![a] = [work[a] EXCEPT !.pc = "ended"]]
<1>1. work \in [Attempt -> WorkSpace] /\ work[a] \in WorkSpace
  BY DEF LoadingTypeOK
<1>2. Fails(a, reason) =>
        work' = [work EXCEPT ![a] = [work[a] EXCEPT !.pc = "finish",
                                       !.finalization = "fail", !.reason = reason]]
  BY <1>1 DEF Fails, WorkSpace
<1>3. Releases(a) =>
        work' = [work EXCEPT ![a] = [work[a] EXCEPT !.pc = "finish",
                                       !.finalization = "release"]]
  BY <1>1 DEF Releases, WorkSpace
<1>4. Ends(a) => work' = [work EXCEPT ![a] = [work[a] EXCEPT !.pc = "ended"]]
  BY <1>1 DEF Ends, WorkSpace
<1> QED BY <1>2, <1>3, <1>4

\* An attempt fails for a reason that, if the reason is the document, is true
\* of the announced one.
LEMMA FailsStep ==
    ASSUME LoadingTypeOK, LoadingInv, NEW a \in Attempt, NEW reason \in Failures,
           Fails(a, reason), work[a].pc \in {"load", "extract"},
           UNCHANGED <<life, bucket, expired, marked, events>>,
           work[a].event.version # NoVersion =>
             LET upload == work[a].event.upload IN
             /\ reason = "document_validation_failed" => bucket[upload] \notin Sound
             /\ reason = "document_not_found" => upload \in expired
             /\ reason = "invalid_provider_request" => bucket[upload] \in Blank
    PROVE  LoadingTypeOK' /\ LoadingInv'
<1> DEFINE x == [work[a] EXCEPT !.pc = "finish", !.finalization = "fail", !.reason = reason]
<1>1. work[a] \in WorkSpace /\ AttemptInv(a)
  BY LoadingShape DEF LoadingInv
<1>2. x \in WorkSpace
  BY <1>1 DEF WorkSpace
<1>3. /\ x.pc = "finish" /\ x.finalization = "fail" /\ x.reason = reason
      /\ x.event = work[a].event /\ x.text = work[a].text
  BY <1>1 DEF WorkSpace
<1>4. work' = [work EXCEPT ![a] = x]
  BY Outcomes
<1> HIDE DEF x
<1>5. work'[a] = x /\ work' \in [Attempt -> WorkSpace]
  BY <1>2, <1>4, LoadingShape
<1>6. AttemptInv(a)'
  BY <1>1, <1>3, <1>5 DEF AttemptInv, EventInv
<1>7. /\ status' = "PROCESSING" => owner' \in Attempt
      /\ status' = status /\ result' = result
  BY DEF LoadingInv, life
<1>8. LoadingInv'
  BY <1>2, <1>3, <1>4, <1>6, <1>7, AttemptFrame
<1> QED BY <1>5, <1>8 DEF LoadingTypeOK, life

\* An attempt that goes on, with a document or without.
LEMMA GoesOnStep ==
    ASSUME LoadingTypeOK, LoadingInv, NEW a \in Attempt, NEW x \in WorkSpace,
           work' = [work EXCEPT ![a] = x],
           UNCHANGED <<life, bucket, expired, marked, events>>,
           AttemptInv(a)', x.pc # "unused", x.reason = work[a].reason,
           x.event = work[a].event, x.text = work[a].text \/ work[a].text = NoText
    PROVE  LoadingTypeOK' /\ LoadingInv'
<1>1. x.event.version # NoVersion =>
        /\ x.reason = "document_validation_failed" => bucket[x.event.upload] \notin Sound
        /\ x.reason = "document_not_found" => x.event.upload \in expired
        /\ x.reason = "invalid_provider_request" => bucket[x.event.upload] \in Blank
  BY DEF LoadingInv, BlamesTheRightDocument
<1>2. /\ status' = "PROCESSING" => owner' \in Attempt
      /\ status' = status /\ result' = result
  BY DEF LoadingInv, life
<1>3. LoadingInv'
  BY <1>1, <1>2, AttemptFrame
<1>4. work' \in [Attempt -> WorkSpace]
  BY LoadingShape
<1> QED BY <1>3, <1>4 DEF LoadingTypeOK, life

\* Releasing, before or after the document is loaded.
LEMMA ReleasesStep ==
    ASSUME LoadingTypeOK, LoadingInv, NEW a \in Attempt, Releases(a),
           work[a].pc \in {"load", "extract"},
           UNCHANGED <<life, bucket, expired, marked, events>>
    PROVE  LoadingTypeOK' /\ LoadingInv'
<1> DEFINE x == [work[a] EXCEPT !.pc = "finish", !.finalization = "release"]
<1>1. work[a] \in WorkSpace /\ AttemptInv(a)
  BY LoadingShape DEF LoadingInv
<1>2. /\ x \in WorkSpace /\ x.pc = "finish" /\ x.finalization = "release"
      /\ x.event = work[a].event /\ x.text = work[a].text /\ x.reason = work[a].reason
  BY <1>1 DEF WorkSpace
<1>3. work' = [work EXCEPT ![a] = x]
  BY Outcomes DEF Failures
<1> HIDE DEF x
<1>4. work'[a] = x
  BY <1>2, <1>3, LoadingShape
<1>5. AttemptInv(a)'
  BY <1>1, <1>2, <1>4 DEF AttemptInv, EventInv
<1> QED BY <1>2, <1>3, <1>5, GoesOnStep

\* Ending, by the last write or without it.
LEMMA EndedRecord ==
    ASSUME LoadingTypeOK, LoadingInv, NEW a \in Attempt, Ends(a), work[a].pc # "unused",
           UNCHANGED <<bucket, expired, marked, events>>
    PROVE  \E x \in WorkSpace :
             /\ work' = [work EXCEPT ![a] = x] /\ AttemptInv(a)'
             /\ x.pc = "ended" /\ x.reason = work[a].reason
             /\ x.event = work[a].event /\ x.text = work[a].text
<1> DEFINE x == [work[a] EXCEPT !.pc = "ended"]
<1>1. work[a] \in WorkSpace /\ AttemptInv(a)
  BY LoadingShape DEF LoadingInv
<1>2. /\ x \in WorkSpace /\ x.pc = "ended" /\ x.event = work[a].event
      /\ x.text = work[a].text /\ x.reason = work[a].reason
  BY <1>1 DEF WorkSpace
<1>3. work' = [work EXCEPT ![a] = x]
  BY Outcomes DEF Failures
<1> HIDE DEF x
<1>4. work'[a] = x
  BY <1>2, <1>3, LoadingShape
<1>5. AttemptInv(a)'
  BY <1>1, <1>2, <1>4 DEF AttemptInv, EventInv
<1> QED BY <1>2, <1>3, <1>5

\* A claim, for one of the events sent.
LEMMA StartAttemptStep ==
    ASSUME LoadingTypeOK, LoadingInv, NEW a \in Attempt, StartAttempt(a)
    PROVE  LoadingTypeOK' /\ LoadingInv'
<1>1. PICK e \in events :
        work' = [work EXCEPT ![a] = [Unused EXCEPT !.pc = "load", !.event = e]]
  BY DEF StartAttempt
<1> DEFINE x == [Unused EXCEPT !.pc = "load", !.event = e]
<1>2. e \in EventSpace /\ EventInv(e) /\ AttemptInv(a) /\ work[a].pc = "unused"
  BY <1>1 DEF LoadingTypeOK, LoadingInv, StartAttempt
<1>3. x \in WorkSpace
  BY <1>2 DEF Unused, NoEvent, NoVersion, WorkSpace, EventSpace, Failures
<1>4. /\ x.pc = "load" /\ x.event = e /\ x.text = NoText /\ x.reason = "none"
      /\ work' = [work EXCEPT ![a] = x]
  BY <1>1 DEF Unused
<1> HIDE DEF x
<1>5. work'[a] = x /\ work' \in [Attempt -> WorkSpace]
  BY <1>3, <1>4, LoadingShape
<1>6. UNCHANGED <<bucket, expired, marked, events>>
  BY DEF StartAttempt
<1>7. /\ status' = "PROCESSING" /\ owner' = a
      /\ attempts' = attempts + 1 /\ result' = result
  BY DEF StartAttempt, Claim
<1>8. AttemptInv(a)'
  BY <1>2, <1>4, <1>5, <1>6 DEF AttemptInv, EventInv
<1>9. work[a].text = NoText
  BY <1>2 DEF AttemptInv
<1>10. LoadingInv'
  BY <1>2, <1>3, <1>4, <1>6, <1>7, <1>8, <1>9, AttemptFrame
<1> QED BY <1>5, <1>6, <1>7, <1>10 DEF LoadingTypeOK

\* A reference refused.  A document beyond the limit is announced as such, so
\* the blame is right.
LEMMA RefuseReferenceStep ==
    ASSUME LoadingTypeOK, LoadingInv, NEW a \in Attempt, RefuseReference(a)
    PROVE  LoadingTypeOK' /\ LoadingInv'
<1>1. /\ AttemptInv(a) /\ work[a].pc = "load"
      /\ UNCHANGED <<life, bucket, expired, marked, events>>
  BY DEF LoadingInv, RefuseReference
<1>2. CASE Fails(a, "invalid_document_reference")
  BY <1>1, <1>2, FailsStep DEF Failures
<1>3. CASE work[a].event.etag \in TooLong /\ Fails(a, "document_validation_failed")
  <2>1. bucket[work[a].event.upload] \notin Sound
    BY <1>1, <1>3, LoadingShape DEF AttemptInv, EventInv
  <2> QED BY <1>1, <1>3, <2>1, FailsStep DEF Failures
<1> QED BY <1>2, <1>3 DEF RefuseReference

\* The bucket's answer is of the announced document, or has another ETag.  With
\* a version identifier it is the announced one.
LEMMA LoadDocumentStep ==
    ASSUME LoadingTypeOK, LoadingInv, NEW a \in Attempt, LoadDocument(a)
    PROVE  LoadingTypeOK' /\ LoadingInv'
<1> DEFINE e == work[a].event
<1>1. /\ AttemptInv(a) /\ EventInv(e) /\ work[a].pc = "load" /\ work[a] \in WorkSpace
      /\ e \in EventSpace /\ e.etag # NoETag
      /\ UNCHANGED <<life, bucket, expired, marked, events>>
  BY LoadingShape DEF LoadingInv, AttemptInv, LoadDocument
<1>2. e.version # NoVersion => Requested(e) = e.upload /\ IsIdentity(e, Requested(e))
  BY <1>1, LoadingShape DEF Requested, IsIdentity, EventInv, NoVersion
<1>3. CASE Releases(a)
  BY <1>1, <1>3, ReleasesStep
<1>4. CASE ~IsFound(e) /\ Fails(a, "document_not_found")
  <2>1. e.version # NoVersion => e.upload \in expired
    BY <1>1, <1>4 DEF IsFound, EventInv
  <2> QED BY <1>1, <1>4, <2>1, FailsStep DEF Failures
<1>5. CASE /\ ~IsIdentity(e, Requested(e)) \/ bucket[Requested(e)] \notin Sound
           /\ Fails(a, "document_validation_failed")
  BY <1>1, <1>2, <1>5, FailsStep DEF Failures
<1>6. CASE /\ IsIdentity(e, Requested(e)) /\ bucket[Requested(e)] \in Sound
           /\ work' = [work EXCEPT ![a].pc = "extract", ![a].text = bucket[Requested(e)]]
  <2> DEFINE c == bucket[Requested(e)]
  <2>1. c \in Sound /\ c \in Content /\ c # NoText /\ c = bucket[e.upload]
    BY <1>1, <1>6, LoadingShape DEF IsIdentity, EventInv
  <2> DEFINE x == [work[a] EXCEPT !.pc = "extract", !.text = c]
  <2>2. work' = [work EXCEPT ![a] = x]
    BY <1>1, <1>6 DEF WorkSpace, LoadingTypeOK
  <2> HIDE DEF c
  <2>3. /\ x \in WorkSpace /\ x.pc = "extract" /\ x.event = e
        /\ x.text = c /\ x.reason = work[a].reason
    BY <1>1, <2>1 DEF WorkSpace
  <2> HIDE DEF x
  <2>4. work'[a] = x
    BY <2>2, <2>3, LoadingShape
  <2>5. work[a].text = NoText \/ work[a].text = c
    BY <1>1, <2>1 DEF AttemptInv
  <2>6. AttemptInv(a)'
    BY <1>1, <2>1, <2>3, <2>4 DEF AttemptInv, EventInv
  <2> QED BY <1>1, <2>2, <2>3, <2>5, <2>6, GoesOnStep
<1> QED BY <1>3, <1>4, <1>5, <1>6 DEF LoadDocument

\* The answer of the provider.
LEMMA ExtractStep ==
    ASSUME LoadingTypeOK, LoadingInv, NEW a \in Attempt, Extract(a)
    PROVE  LoadingTypeOK' /\ LoadingInv'
<1>1. /\ AttemptInv(a) /\ work[a].pc = "extract" /\ work[a] \in WorkSpace
      /\ UNCHANGED <<life, bucket, expired, marked, events>>
  BY LoadingShape DEF LoadingInv, Extract
<1>2. CASE Fails(a, "ai_provider_invalid_response")
  BY <1>1, <1>2, FailsStep DEF Failures
<1>3. CASE work[a].text \in Blank /\ Fails(a, "invalid_provider_request")
  <2>1. bucket[work[a].event.upload] \in Blank
    BY <1>1, <1>3, LoadingShape DEF AttemptInv
  <2> QED BY <1>1, <1>3, <2>1, FailsStep DEF Failures
<1>4. CASE Releases(a)
  BY <1>1, <1>4, ReleasesStep
<1>5. CASE /\ work[a].text \notin Blank
           /\ work' = [work EXCEPT ![a].pc = "finish", ![a].finalization = "complete"]
  <2> DEFINE x == [work[a] EXCEPT !.pc = "finish", !.finalization = "complete"]
  <2>1. work' = [work EXCEPT ![a] = x]
    BY <1>1, <1>5 DEF WorkSpace, LoadingTypeOK
  <2>2. /\ x \in WorkSpace /\ x.pc = "finish" /\ x.finalization = "complete"
        /\ x.event = work[a].event /\ x.text = work[a].text /\ x.reason = work[a].reason
    BY <1>1 DEF WorkSpace
  <2> HIDE DEF x
  <2>3. work'[a] = x
    BY <2>1, <2>2, LoadingShape
  <2>4. AttemptInv(a)'
    BY <1>1, <1>5, <2>2, <2>3 DEF AttemptInv, EventInv
  <2> QED BY <1>1, <2>1, <2>2, <2>4, GoesOnStep
<1> QED BY <1>2, <1>4, <1>5, <1>3 DEF Extract

\* The last write of an attempt, the owner's or a refused one.
LEMMA FinishStep ==
    ASSUME LoadingTypeOK, LoadingInv, NEW a \in Attempt, Finish(a)
    PROVE  LoadingTypeOK' /\ LoadingInv'
<1>1. /\ AttemptInv(a) /\ work[a].pc = "finish" /\ Ends(a)
      /\ UNCHANGED <<bucket, expired, marked, events>>
  BY DEF LoadingInv, Finish
<1>2. PICK x \in WorkSpace :
        /\ work' = [work EXCEPT ![a] = x] /\ AttemptInv(a)'
        /\ x.pc = "ended" /\ x.reason = work[a].reason
        /\ x.event = work[a].event /\ x.text = work[a].text
  BY <1>1, EndedRecord
<1>3. x.event.version # NoVersion =>
        /\ x.reason = "document_validation_failed" => bucket[x.event.upload] \notin Sound
        /\ x.reason = "document_not_found" => x.event.upload \in expired
        /\ x.reason = "invalid_provider_request" => bucket[x.event.upload] \in Blank
  BY <1>2 DEF LoadingInv, BlamesTheRightDocument
<1>4. work' \in [Attempt -> WorkSpace]
  BY <1>2, LoadingShape
<1>5. CASE owner = a /\ work[a].finalization = "complete" /\ Succeed
  <2>1. /\ status' = "SUCCEEDED" /\ owner' = 0 /\ attempts' = attempts
        /\ result' = a /\ work[result'].text \notin Blank \union {NoText}
    BY <1>1, <1>5 DEF Succeed, AttemptInv
  <2>2. LoadingInv'
    BY <1>1, <1>2, <1>3, <2>1, AttemptFrame
  <2> QED BY <1>1, <1>4, <2>1, <2>2 DEF LoadingTypeOK
<1>6. CASE Fail \/ Release
  <2>1. /\ status' \in {"FAILED", "PENDING_UPLOAD"} /\ owner' = 0
        /\ attempts' = attempts /\ result' = result
    BY <1>6 DEF Fail, Release
  <2>2. LoadingInv'
    BY <1>1, <1>2, <1>3, <2>1, AttemptFrame
  <2> QED BY <1>1, <1>4, <2>1, <2>2 DEF LoadingTypeOK
<1>7. CASE UNCHANGED life
  BY <1>1, <1>2, <1>7, GoesOnStep
<1> QED BY <1>5, <1>6, <1>7 DEF Finish

\* An attempt that ends without its last write.
LEMMA AbandonAttemptStep ==
    ASSUME LoadingTypeOK, LoadingInv, NEW a \in Attempt, AbandonAttempt(a)
    PROVE  LoadingTypeOK' /\ LoadingInv'
<1>1. /\ work[a].pc # "unused" /\ Ends(a)
      /\ UNCHANGED <<life, bucket, expired, marked, events>>
  BY DEF AbandonAttempt
<1>2. PICK x \in WorkSpace :
        /\ work' = [work EXCEPT ![a] = x] /\ AttemptInv(a)'
        /\ x.pc = "ended" /\ x.reason = work[a].reason
        /\ x.event = work[a].event /\ x.text = work[a].text
  BY <1>1, EndedRecord
<1> QED BY <1>1, <1>2, GoesOnStep

\* A job given up.
LEMMA GiveUpStep ==
    ASSUME LoadingTypeOK, LoadingInv, GiveUp
    PROVE  LoadingTypeOK' /\ LoadingInv'
<1>1. /\ status' = "DEAD" /\ owner' = 0 /\ attempts' = attempts /\ result' = result
      /\ UNCHANGED <<bucket, expired, marked, events, work>>
  BY DEF GiveUp, Die
<1>2. BlamesTheRightDocument'
  BY <1>1 DEF LoadingInv, BlamesTheRightDocument
<1>3. LoadingInv'
  BY <1>1, <1>2 DEF LoadingInv, AttemptInv, EventInv
<1> QED BY <1>1, <1>3 DEF LoadingTypeOK

---------------------------------------------------------------------------
(* The theorems *)

\* Every state reached satisfies the types and the inductive invariant: the
\* events are those of uploads, and a loaded text is the announced content.
THEOREM LoadingInvariance == LoadingSpec => [](LoadingTypeOK /\ LoadingInv)
<1>1. LoadingInit => LoadingTypeOK /\ LoadingInv
  <2> SUFFICES ASSUME LoadingInit PROVE LoadingTypeOK /\ LoadingInv
    OBVIOUS
  <2>1. /\ status = "PENDING_UPLOAD" /\ events = {}
        /\ \A a \in Attempt : /\ work[a].pc = "unused" /\ work[a].text = NoText
                              /\ work[a].reason = "none"
    BY DEF LoadingInit, Unused
  <2>2. LoadingInv
    BY <2>1 DEF LoadingInv, AttemptInv, BlamesTheRightDocument
  <2> QED BY <2>2, LoadingTypeInit
<1>2. LoadingTypeOK /\ LoadingInv /\ [LoadingNext]_loading => (LoadingTypeOK /\ LoadingInv)'
  <2> SUFFICES ASSUME LoadingTypeOK, LoadingInv, [LoadingNext]_loading
               PROVE  LoadingTypeOK' /\ LoadingInv'
    OBVIOUS
  <2>1. CASE \E content \in Content : Upload(content)
    BY <2>1, UploadStep
  <2>2. CASE Expire \/ \E upload \in 1 .. MaxUploads : ExpireNoncurrent(upload)
    BY <2>2, ExpireStep
  <2>3. ASSUME NEW a \in Attempt,
               StartAttempt(a) \/ RefuseReference(a) \/ LoadDocument(a) \/ Extract(a)
                 \/ Finish(a) \/ AbandonAttempt(a)
        PROVE  LoadingTypeOK' /\ LoadingInv'
    BY <2>3, StartAttemptStep, RefuseReferenceStep, LoadDocumentStep, ExtractStep,
       FinishStep, AbandonAttemptStep
  <2>4. CASE GiveUp
    BY <2>4, GiveUpStep
  <2>5. CASE UNCHANGED loading
    BY <2>5 DEF loading, LoadingTypeOK, LoadingInv, AttemptInv, EventInv,
                BlamesTheRightDocument
  <2> QED BY <2>1, <2>2, <2>3, <2>4, <2>5 DEF LoadingNext
<1> QED BY <1>1, <1>2, PTL DEF LoadingSpec

\* The stored extraction is that of the announced document, version identifier
\* or not: the identity of the answer is checked.
THEOREM ResultsMatchDocuments == LoadingSpec => []ResultIsOfItsDocument
<1>1. LoadingTypeOK /\ LoadingInv => ResultIsOfItsDocument
  BY DEF LoadingInv, AttemptInv, ResultIsOfItsDocument
<1> QED BY <1>1, LoadingInvariance, PTL

\* A job fails for the document it was announced, if the event names its
\* version: the events of a versioned bucket do.
THEOREM BlameIsRight == LoadingSpec => []BlamesTheRightDocument
<1>1. LoadingTypeOK /\ LoadingInv => BlamesTheRightDocument
  BY DEF LoadingInv
<1> QED BY <1>1, LoadingInvariance, PTL
=============================================================================
