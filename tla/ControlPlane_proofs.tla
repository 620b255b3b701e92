------------------------- MODULE ControlPlane_proofs ------------------------
(***************************************************************************)
(* What a client of the API may rely on, for any number of clients, jobs   *)
(* and claims.  Everything rests on two facts: a put never changes the     *)
(* creator of a job, and every view is an earlier version of its job.      *)
(***************************************************************************)
EXTENDS ControlPlane, TLAPS

\* Versions of a job are ordered.
LEMMA PrecedesIsOrder ==
    /\ \A v \in StoredJobs : Precedes(v, v)
    /\ \A u, v, w \in StoredJobs : Precedes(u, v) /\ Precedes(v, w) => Precedes(u, w)
  BY DEF Precedes, StoredJobs, Terminal

\* The absent job comes before every version.
LEMMA AbsentComesFirst == \A v \in StoredJobs : Precedes(Absent, v)
  BY DEF Precedes, StoredJobs, Absent, Terminal

\* Every write of the table moves one job forward in the order of versions.
LEMMA TableSteps ==
    ASSUME ControlTypeOK, [ControlNext]_controlPlane, NEW j \in JobId
    PROVE  /\ table'[j] \in StoredJobs
           /\ Precedes(table[j], table'[j])
<1>0. table[j] \in StoredJobs /\ MaxAttempts \in Nat /\ NoClient \notin Client
  BY ControlPlaneAssumption DEF ControlTypeOK
<1>1. CASE table' = table
  BY <1>0, <1>1, PrecedesIsOrder
<1>2. ASSUME NEW c \in Client, table[call[c].job] = Absent,
             table' = [table EXCEPT ![call[c].job] = Created(c)]
      PROVE  table'[j] \in StoredJobs /\ Precedes(table[j], table'[j])
  <2>1. CASE j = call[c].job
    <3>1. table'[j] = Created(c) /\ table[j] = Absent
      BY <1>2, <2>1 DEF ControlTypeOK
    <3>2. Created(c) \in StoredJobs
      BY DEF Created, StoredJobs
    <3> QED BY <3>1, <3>2, AbsentComesFirst
  <2>2. CASE j # call[c].job
    BY <1>0, <1>2, <2>2, PrecedesIsOrder DEF ControlTypeOK
  <2> QED BY <2>1, <2>2
<1>3. ASSUME NEW i \in JobId, ProcessJob(i)
      PROVE  table'[j] \in StoredJobs /\ Precedes(table[j], table'[j])
  <2>1. CASE j # i
    BY <1>0, <1>3, <2>1, PrecedesIsOrder DEF ProcessJob, ControlTypeOK
  <2>2. CASE j = i
    <3>1. ASSUME table' = [table EXCEPT ![i].status = "PROCESSING", ![i].attempts = @ + 1],
                 table[i].status \in {"PENDING_UPLOAD", "PROCESSING"}
          PROVE  table'[j] \in StoredJobs /\ Precedes(table[j], table'[j])
      <4>1. table'[j] = [table[j] EXCEPT !.status = "PROCESSING",
                                         !.attempts = table[j].attempts + 1]
        BY <2>2, <3>1 DEF ControlTypeOK
      <4>2. /\ table[j].attempts \in Nat /\ table[j].attempts + 1 \in Nat
            /\ table[j].attempts <= table[j].attempts + 1
        BY <1>0 DEF StoredJobs
      <4>3. /\ table'[j].status = "PROCESSING" /\ table'[j].creator = table[j].creator
            /\ table'[j].attempts = table[j].attempts + 1
        BY <1>0, <4>1 DEF StoredJobs
      <4>4. table'[j] \in StoredJobs
        BY <1>0, <4>1, <4>2 DEF StoredJobs
      <4>5. table[j].status \notin Terminal /\ table'[j] # Absent
        <5>1. Absent.status = "ABSENT"
          BY DEF Absent
        <5> QED BY <2>2, <3>1, <4>3, <5>1 DEF Terminal
      <4> QED BY <4>2, <4>3, <4>4, <4>5 DEF Precedes
    <3>2. ASSUME NEW status \in {"PENDING_UPLOAD"} \union Terminal,
                 table' = [table EXCEPT ![i].status = status],
                 table[i].status \in {"PENDING_UPLOAD", "PROCESSING"}
          PROVE  table'[j] \in StoredJobs /\ Precedes(table[j], table'[j])
      <4>1. table'[j] = [table[j] EXCEPT !.status = status]
        BY <2>2, <3>2 DEF ControlTypeOK
      <4> QED BY <1>0, <2>2, <3>2, <4>1 DEF StoredJobs, Precedes, Absent, Terminal
    <3> QED BY <1>3, <3>1, <3>2 DEF ProcessJob, Terminal
  <2> QED BY <2>1, <2>2
<1> QED BY <1>1, <1>2, <1>3 DEF ControlNext, controlPlane, BeginCreate, CreateUpload,
             CreateJob, BeginGet, ReadJob, Respond, FailRequest, Upload

\* A version that is not absent keeps its creator.
LEMMA CreatorStays ==
    ASSUME NEW v \in StoredJobs, NEW w \in StoredJobs, Precedes(v, w), v # Absent
    PROVE  w # Absent /\ w.creator = v.creator
  BY DEF Precedes

---------------------------------------------------------------------------
(* Types *)

\* The initial states have their types.
LEMMA ControlTypeInit == ControlInit => ControlTypeOK
  BY DEF ControlInit, ControlTypeOK, Absent, Idle, Calls, StoredJobs

---------------------------------------------------------------------------
(* The steps *)

\* A step that gives client c the request x.
LEMMA ControlFrame ==
    ASSUME ControlTypeOK, ControlInv, [ControlNext]_controlPlane,
           table' \in [JobId -> StoredJobs],
           NEW c \in Client, NEW x \in Calls, call' = [call EXCEPT ![c] = x],
           uploads' \in [Client -> SUBSET JobId], uploaded' \in SUBSET JobId,
           views' \in [Client -> [JobId -> StoredJobs]],
           \A d \in Client \ {c} : uploads'[d] = uploads[d] /\ views'[d] = views[d],
           \A j \in uploads'[c] : table'[j].creator = c,
           \A j \in uploaded' : table'[j] # Absent,
           ViewInv(c)',
           x.pc # "idle" => x.job \in JobId,
           x.pc = "respond" => /\ Precedes(x.view, table'[x.job])
                               /\ x.job \in uploads'[c] => x.view # Absent
                               /\ Precedes(views'[c][x.job], x.view)
    PROVE  ControlTypeOK' /\ ControlInv'
<1>1. ControlTypeOK' /\ call'[c] = x
  BY DEF ControlTypeOK
<1>2. ASSUME NEW d \in Client, d # c
      PROVE  /\ \A j \in uploads'[d] : table'[j].creator = d
             /\ CallInv(d)' /\ ViewInv(d)'
             /\ call'[d] = call[d]
  <2>1. /\ call'[d] = call[d] /\ uploads'[d] = uploads[d] /\ views'[d] = views[d]
        /\ call[d] \in Calls /\ uploads[d] \in SUBSET JobId
        /\ views[d] \in [JobId -> StoredJobs] /\ NoClient \notin Client
        /\ table \in [JobId -> StoredJobs]
    BY <1>2, ControlPlaneAssumption DEF ControlTypeOK
  <2>2. \A j \in uploads'[d] : table'[j].creator = d
    <3> SUFFICES ASSUME NEW j \in uploads[d] PROVE table'[j].creator = d
      BY <2>1
    <3>1. table[j].creator = d /\ table[j] # Absent
      BY <2>1 DEF ControlInv, UploadUrlIsExclusive, Absent
    <3> QED BY <2>1, <3>1, TableSteps, CreatorStays
  <2>3. CallInv(d)'
    <3>1. CallInv(d) /\ (call[d].pc = "respond" => call[d].view \in StoredJobs)
      BY <2>1 DEF ControlInv, Calls
    <3> QED BY <2>1, <3>1, TableSteps, PrecedesIsOrder DEF CallInv
  <2>4. ViewInv(d)'
    <3>1. ViewInv(d)
      BY DEF ControlInv
    <3> QED BY <2>1, <3>1, TableSteps, PrecedesIsOrder DEF ViewInv
  <2> QED BY <2>1, <2>2, <2>3, <2>4
<1>3. CallInv(c)' /\ ViewInv(c)'
  BY <1>1 DEF CallInv
<1>4. ReadsFollowWrites'
  BY <1>1, <1>2 DEF ReadsFollowWrites, ControlInv
<1> QED BY <1>1, <1>2, <1>3, <1>4 DEF ControlInv, UploadUrlIsExclusive, UploadHasItsJob

\* Only the table changes.
LEMMA ProcessSteps ==
    ASSUME ControlTypeOK, ControlInv, [ControlNext]_controlPlane,
           table' \in [JobId -> StoredJobs], UNCHANGED <<call, uploads, views, uploaded>>
    PROVE  ControlTypeOK' /\ ControlInv'
<1>1. ControlTypeOK'
  BY DEF ControlTypeOK
<1>2. /\ table \in [JobId -> StoredJobs] /\ call \in [Client -> Calls]
      /\ uploads \in [Client -> SUBSET JobId] /\ uploaded \in SUBSET JobId
      /\ views \in [Client -> [JobId -> StoredJobs]] /\ NoClient \notin Client
  BY ControlPlaneAssumption DEF ControlTypeOK
<1>3. UploadUrlIsExclusive'
  <2> SUFFICES ASSUME NEW c \in Client, NEW j \in uploads[c] PROVE table'[j].creator = c
    BY DEF UploadUrlIsExclusive
  <2>1. table[j].creator = c /\ table[j] # Absent /\ j \in JobId
    BY <1>2 DEF ControlInv, UploadUrlIsExclusive, Absent
  <2> QED BY <1>2, <2>1, TableSteps, CreatorStays
<1>4. UploadHasItsJob'
  BY <1>2, TableSteps, CreatorStays DEF ControlInv, UploadHasItsJob
<1>5. ReadsFollowWrites'
  BY DEF ControlInv, ReadsFollowWrites
<1>6. ASSUME NEW c \in Client PROVE CallInv(c)' /\ ViewInv(c)'
  <2>1. CallInv(c) /\ ViewInv(c) /\ call[c].view \in StoredJobs
    BY <1>2 DEF ControlInv, Calls
  <2> QED BY <1>2, <2>1, TableSteps, PrecedesIsOrder DEF CallInv, ViewInv
<1> QED BY <1>1, <1>3, <1>4, <1>5, <1>6 DEF ControlInv

\* Every step of the control plane preserves the types and the invariant.
LEMMA ControlStep ==
    ASSUME ControlTypeOK, ControlInv, [ControlNext]_controlPlane
    PROVE  ControlTypeOK' /\ ControlInv'
<1>0. /\ Absent \in StoredJobs /\ Idle \in Calls /\ Idle.pc = "idle"
      /\ table \in [JobId -> StoredJobs] /\ call \in [Client -> Calls]
      /\ uploads \in [Client -> SUBSET JobId] /\ uploaded \in SUBSET JobId
      /\ views \in [Client -> [JobId -> StoredJobs]] /\ NoClient \notin Client
  BY ControlPlaneAssumption DEF Absent, Idle, Calls, StoredJobs, ControlTypeOK
<1>1. table' \in [JobId -> StoredJobs]
  <2>1. table' = [j \in JobId |-> table'[j]]
    BY <1>0 DEF ControlNext, controlPlane, BeginCreate, CreateUpload, CreateJob, BeginGet,
                ReadJob, Respond, FailRequest, Upload, ProcessJob
  <2> QED BY <2>1, TableSteps
<1>2. ASSUME NEW c \in Client
      PROVE  /\ \A j \in uploads[c] : table'[j].creator = c
             /\ ViewInv(c) /\ CallInv(c)
             /\ views' = views => ViewInv(c)'
             /\ uploads[c] \in SUBSET JobId /\ call[c] \in Calls
  <2>1. ViewInv(c) /\ CallInv(c) /\ uploads[c] \in SUBSET JobId /\ call[c] \in Calls
        /\ views[c] \in [JobId -> StoredJobs]
    BY <1>0 DEF ControlInv
  <2>2. ASSUME NEW j \in uploads[c] PROVE table'[j].creator = c
    <3>1. table[j].creator = c /\ table[j] # Absent
      BY <1>0 DEF ControlInv, UploadUrlIsExclusive, Absent
    <3> QED BY <1>0, <1>1, <2>1, <3>1, TableSteps, CreatorStays
  <2>3. views' = views => ViewInv(c)'
    BY <1>0, <1>1, <2>1, TableSteps, PrecedesIsOrder DEF ViewInv
  <2> QED BY <2>1, <2>2, <2>3
<1>3. \A j \in uploaded : table'[j] # Absent
  BY <1>0, <1>1, TableSteps, CreatorStays DEF ControlInv, UploadHasItsJob
<1>4. ASSUME NEW c \in Client, BeginCreate(c) \/ BeginGet(c)
      PROVE  ControlTypeOK' /\ ControlInv'
  <2>1. PICK j \in JobId, pc \in {"sign", "read"} :
          call' = [call EXCEPT ![c] = [Idle EXCEPT !.pc = pc, !.job = j]]
    BY <1>4 DEF BeginCreate, BeginGet
  <2>2. [Idle EXCEPT !.pc = pc, !.job = j] \in Calls
        /\ [Idle EXCEPT !.pc = pc, !.job = j].pc = pc
        /\ [Idle EXCEPT !.pc = pc, !.job = j].job = j
    BY <1>0 DEF Idle, Calls
  <2>3. UNCHANGED <<uploads, views, uploaded>>
    BY <1>4 DEF BeginCreate, BeginGet
  <2> QED BY <1>0, <1>1, <1>2, <1>3, <2>1, <2>2, <2>3, ControlFrame
<1>5. ASSUME NEW c \in Client, CreateUpload(c) PROVE ControlTypeOK' /\ ControlInv'
  <2> DEFINE x == [call[c] EXCEPT !.pc = "put"]
  <2>1. call' = [call EXCEPT ![c] = x] /\ x \in Calls /\ x.pc = "put" /\ x.job = call[c].job
    BY <1>0, <1>2, <1>5 DEF CreateUpload, Calls
  <2>2. x.job \in JobId
    BY <1>2, <1>5, <2>1 DEF CreateUpload, CallInv
  <2>3. UNCHANGED <<uploads, views, uploaded>>
    BY <1>5 DEF CreateUpload
  <2> HIDE DEF x
  <2> QED BY <1>0, <1>1, <1>2, <1>3, <2>1, <2>2, <2>3, ControlFrame
<1>6. ASSUME NEW c \in Client, CreateJob(c) PROVE ControlTypeOK' /\ ControlInv'
  <2>0. call[c].job \in JobId /\ UNCHANGED <<views, uploaded>>
    BY <1>2, <1>6 DEF CreateJob, CallInv
  <2>1. CASE /\ Succeeds(c) /\ table[call[c].job] = Absent
             /\ table' = [table EXCEPT ![call[c].job] = Created(c)]
    <3>1. /\ table' = [table EXCEPT ![call[c].job] = Created(c)]
          /\ call' = [call EXCEPT ![c] = Idle]
          /\ uploads' = [uploads EXCEPT ![c] = uploads[c] \union {call[c].job}]
      BY <2>1 DEF Succeeds, Answered
    <3>2. \A j \in uploads'[c] : table'[j].creator = c
      BY <1>0, <1>2, <2>0, <3>1 DEF Created
    <3>3. uploads' \in [Client -> SUBSET JobId]
      BY <1>0, <2>0, <3>1
    <3>4. \A d \in Client \ {c} : uploads'[d] = uploads[d]
      BY <1>0, <3>1
    <3> QED BY <1>0, <1>1, <1>2, <1>3, <2>0, <3>1, <3>2, <3>3, <3>4, ControlFrame
  <2>2. CASE Answered(c) /\ UNCHANGED uploads
    BY <1>0, <1>1, <1>2, <1>3, <2>0, <2>2, ControlFrame DEF Answered
  <2> QED BY <1>6, <2>1, <2>2 DEF CreateJob
<1>7. ASSUME NEW c \in Client, ReadJob(c) PROVE ControlTypeOK' /\ ControlInv'
  <2> DEFINE x == [call[c] EXCEPT !.pc = "respond", !.view = table[call[c].job]]
  <2>0. call[c].job \in JobId /\ table' = table /\ UNCHANGED <<uploads, views, uploaded>>
    BY <1>2, <1>7 DEF ReadJob, CallInv
  <2>1. /\ call' = [call EXCEPT ![c] = x] /\ x \in Calls /\ x.pc = "respond"
        /\ x.job = call[c].job /\ x.view = table[x.job]
    BY <1>0, <1>2, <1>7, <2>0 DEF ReadJob, Calls
  <2> HIDE DEF x
  <2>2. /\ Precedes(x.view, table'[x.job]) /\ Precedes(views'[c][x.job], x.view)
    BY <1>0, <1>2, <2>0, <2>1, PrecedesIsOrder DEF ViewInv
  <2>3. x.job \in uploads'[c] => x.view # Absent
    BY <1>0, <1>2, <2>0, <2>1 DEF Absent
  <2> QED BY <1>0, <1>1, <1>2, <1>3, <2>0, <2>1, <2>2, <2>3, ControlFrame
<1>8. ASSUME NEW c \in Client, Respond(c) PROVE ControlTypeOK' /\ ControlInv'
  <2>0. /\ call[c].job \in JobId /\ call[c].view \in StoredJobs
        /\ Precedes(call[c].view, table[call[c].job])
        /\ table' = table /\ UNCHANGED <<uploads, uploaded>>
        /\ call' = [call EXCEPT ![c] = Idle]
    BY <1>2, <1>8 DEF Respond, CallInv, Calls, Answered
  <2>1. CASE views' = views
    BY <1>0, <1>1, <1>2, <1>3, <2>0, <2>1, ControlFrame
  <2>2. CASE views' = [views EXCEPT ![c][call[c].job] = call[c].view]
    <3>0. /\ views' = [views EXCEPT ![c] = [views[c] EXCEPT ![call[c].job] = call[c].view]]
          /\ views[c] \in [JobId -> StoredJobs]
      BY <1>0, <2>2
    <3>1. /\ views' \in [Client -> [JobId -> StoredJobs]]
          /\ \A d \in Client \ {c} : views'[d] = views[d]
          /\ \A j \in JobId : views'[c][j] = IF j = call[c].job THEN call[c].view
                                              ELSE views[c][j]
      BY <1>0, <2>0, <3>0
    <3>2. ViewInv(c)'
      <4> SUFFICES ASSUME NEW j \in JobId PROVE Precedes(views'[c][j], table'[j])
        BY DEF ViewInv
      <4>1. Precedes(views[c][j], table[j])
        BY <1>2 DEF ViewInv
      <4>2. CASE j = call[c].job
        <5>1. views'[c][j] = call[c].view /\ table'[j] = table[call[c].job]
          BY <2>0, <3>1, <4>2
        <5> QED BY <2>0, <5>1
      <4>3. CASE j # call[c].job
        <5>1. views'[c][j] = views[c][j] /\ table'[j] = table[j]
          BY <2>0, <3>1, <4>3
        <5> QED BY <4>1, <5>1
      <4> QED BY <4>2, <4>3
    <3> QED BY <1>0, <1>1, <1>2, <1>3, <2>0, <3>1, <3>2, ControlFrame
  <2> QED BY <1>8, <2>1, <2>2 DEF Respond
<1>9. ASSUME NEW c \in Client, FailRequest(c) PROVE ControlTypeOK' /\ ControlInv'
  BY <1>0, <1>1, <1>2, <1>3, <1>9, ControlFrame DEF FailRequest, Answered
<1>10. ASSUME NEW c \in Client, Upload(c) PROVE ControlTypeOK' /\ ControlInv'
  <2>1. PICK j \in uploads[c] : uploaded' = uploaded \union {j}
    BY <1>10 DEF Upload
  <2>2. UNCHANGED <<table, call, uploads, views>> /\ j \in JobId
    BY <1>2, <1>10 DEF Upload
  <2>3. table'[j] # Absent
    BY <1>0, <1>2 DEF Absent
  <2>4. \A i \in uploaded' : table'[i] # Absent
    BY <1>3, <2>1, <2>3
  <2>5. call' = [call EXCEPT ![c] = call[c]] /\ uploaded' \in SUBSET JobId
    BY <1>0, <2>1, <2>2
  <2>6. /\ call[c].pc # "idle" => call[c].job \in JobId
        /\ call[c].pc = "respond" => /\ Precedes(call[c].view, table'[call[c].job])
                                     /\ call[c].job \in uploads'[c] => call[c].view # Absent
                                     /\ Precedes(views'[c][call[c].job], call[c].view)
    BY <1>2, <2>2 DEF ControlInv, ReadsFollowWrites, CallInv
  <2> QED BY <1>0, <1>1, <1>2, <2>2, <2>4, <2>5, <2>6, ControlFrame
<1>11. ASSUME NEW j \in JobId, ProcessJob(j) PROVE ControlTypeOK' /\ ControlInv'
  BY <1>1, <1>11, ProcessSteps DEF ProcessJob
<1>12. CASE UNCHANGED controlPlane
  BY <1>1, <1>12, ProcessSteps DEF controlPlane
<1> QED BY <1>4, <1>5, <1>6, <1>7, <1>8, <1>9, <1>10, <1>11, <1>12 DEF ControlNext

\* What holds of the table, the requests and the views at any time.
THEOREM ControlInvariance == ControlSpec => [](ControlTypeOK /\ ControlInv)
<1>1. ControlInit => ControlInv
  <2> SUFFICES ASSUME ControlInit PROVE ControlInv
    OBVIOUS
  <2>1. Absent \in StoredJobs
    BY DEF Absent, StoredJobs
  <2> QED BY <2>1, AbsentComesFirst
        DEF ControlInit, ControlInv, UploadUrlIsExclusive, UploadHasItsJob,
            ReadsFollowWrites, CallInv, ViewInv, Idle
<1> QED BY <1>1, ControlTypeInit, ControlStep, PTL DEF ControlSpec

\* Nobody holds an upload URL for the job of another client.
THEOREM UploadUrlsAreExclusive == ControlSpec => []UploadUrlIsExclusive
<1>1. ControlInv => UploadUrlIsExclusive
  BY DEF ControlInv
<1> QED BY <1>1, ControlInvariance, PTL

\* A document in the bucket names a job in the table.
THEOREM UploadsHaveTheirJobs == ControlSpec => []UploadHasItsJob
<1>1. ControlInv => UploadHasItsJob
  BY DEF ControlInv
<1> QED BY <1>1, ControlInvariance, PTL

\* A client reads its own writes, and monotonically.
THEOREM ReadsAfterWrites == ControlSpec => []ReadsFollowWrites
<1>1. ControlInv => ReadsFollowWrites
  BY DEF ControlInv
<1> QED BY <1>1, ControlInvariance, PTL

\* The answers a client got about a job never go back.
THEOREM MonotonicViews == ControlSpec => ViewsNeverGoBack
<1>1. ASSUME ControlTypeOK, ControlInv, [ControlNext]_controlPlane,
             NEW c \in Client, NEW j \in JobId
      PROVE  Precedes(views[c][j], views'[c][j])
  <2>1. /\ views \in [Client -> [JobId -> StoredJobs]] /\ views[c] \in [JobId -> StoredJobs]
        /\ views[c][j] \in StoredJobs
    BY <1>1 DEF ControlTypeOK
  <2>2. CASE views' = views
    BY <2>1, <2>2, PrecedesIsOrder
  <2>3. ASSUME NEW d \in Client, Respond(d),
               views' = [views EXCEPT ![d][call[d].job] = call[d].view]
        PROVE  Precedes(views[c][j], views'[c][j])
    <3>1. views'[c][j] = IF c = d /\ j = call[d].job THEN call[d].view ELSE views[c][j]
      <4>1. views' = [views EXCEPT ![d] = [views[d] EXCEPT ![call[d].job] = call[d].view]]
        BY <2>3
      <4>2. CASE c = d
        BY <2>1, <4>1, <4>2
      <4>3. CASE c # d
        BY <2>1, <4>1, <4>3
      <4> QED BY <4>2, <4>3
    <3>2. Precedes(views[d][call[d].job], call[d].view)
      BY <1>1, <2>3 DEF ControlInv, ReadsFollowWrites, Respond
    <3>3. CASE c = d /\ j = call[d].job
      BY <3>1, <3>2, <3>3
    <3>4. CASE ~(c = d /\ j = call[d].job)
      BY <2>1, <3>1, <3>4, PrecedesIsOrder
    <3> QED BY <3>3, <3>4
  <2> QED BY <1>1, <2>2, <2>3 DEF ControlNext, controlPlane, BeginCreate, CreateUpload, CreateJob,
                  BeginGet, ReadJob, Respond, FailRequest, Upload, ProcessJob
<1>2. ControlTypeOK /\ ControlInv /\ [ControlNext]_controlPlane
        => [\A c \in Client, j \in JobId : Precedes(views[c][j], views'[c][j])]_controlPlane
  BY <1>1
<1> QED BY <1>2, ControlInvariance, PTL DEF ControlSpec, ViewsNeverGoBack
============================================================================
