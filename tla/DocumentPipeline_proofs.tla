----------------------- MODULE DocumentPipeline_proofs ----------------------
(***************************************************************************)
(* The safety of the queues, for any number of messages and any timeouts.  *)
(***************************************************************************)
EXTENDS DocumentPipeline, FiniteSetTheorems, TLAPS

\* What every action finds.
LEMMA PipelineShape ==
    ASSUME PipelineTypeOK, NEW m \in Message
    PROVE  /\ queue[m] \in Messages
           /\ queue[m].place \in Places /\ queue[m].receives \in 0 .. MaxReceives
           /\ queue[m].hidden \in Nat /\ queue[m].left \in Nat /\ queue[m].attempt \in Nat
           /\ queue[m].run \in {"none", "starting", "holding", "reconciling"}
           /\ \A me : [queue EXCEPT ![m] = me][m] = me
           /\ \A me, n \in Message : n # m => [queue EXCEPT ![m] = me][n] = queue[n]
           /\ \A me \in Messages : [queue EXCEPT ![m] = me] \in [Message -> Messages]
  BY DEF PipelineTypeOK, Messages

\* The messages that an action builds.
LEMMA MessageTypes ==
    ASSUME PipelineTypeOK, NEW m \in Message
    PROVE  /\ \A run \in {"none", "starting", "holding", "reconciling"}, a \in Nat :
                [queue[m] EXCEPT !.run = run, !.attempt = a] \in Messages
           /\ [queue[m] EXCEPT !.run = "none", !.left = 0] \in Messages
           /\ [queue[m] EXCEPT !.run = "none", !.left = 0, !.hidden = 0,
                               !.place = "deleted"] \in Messages
           /\ \A place \in Places :
                [queue[m] EXCEPT !.place = place, !.receives = 0] \in Messages
           /\ \A place \in Places : [queue[m] EXCEPT !.place = place] \in Messages
           /\ \A h, l \in Nat, run \in {"starting", "reconciling"} :
                queue[m].receives < MaxReceives =>
                [queue[m] EXCEPT !.receives = queue[m].receives + 1, !.hidden = h,
                                 !.run = run, !.left = l] \in Messages
           /\ \A h, l \in Nat :
                [queue[m] EXCEPT !.hidden = h, !.left = l] \in Messages
<1>0. /\ queue[m] \in Messages /\ MaxReceives \in Nat
      /\ queue[m].receives \in 0 .. MaxReceives
  BY PipelineShape, PipelineAssumption
<1>1. \A run \in {"none", "starting", "holding", "reconciling"}, a \in Nat :
                [queue[m] EXCEPT !.run = run, !.attempt = a] \in Messages
  BY <1>0 DEF Messages
<1>2. [queue[m] EXCEPT !.run = "none", !.left = 0] \in Messages
  BY <1>0 DEF Messages
<1>3. [queue[m] EXCEPT !.run = "none", !.left = 0, !.hidden = 0,
                               !.place = "deleted"] \in Messages
  BY <1>0 DEF Messages, Places
<1>4. \A place \in Places :
                [queue[m] EXCEPT !.place = place, !.receives = 0] \in Messages
  <2>1. 0 \in 0 .. MaxReceives
    BY <1>0
  <2> QED BY <1>0, <2>1 DEF Messages
<1>5. \A place \in Places : [queue[m] EXCEPT !.place = place] \in Messages
  BY <1>0 DEF Messages
<1>6. ASSUME NEW h \in Nat, NEW l \in Nat, NEW run \in {"starting", "reconciling"},
             queue[m].receives < MaxReceives
      PROVE  [queue[m] EXCEPT !.receives = queue[m].receives + 1, !.hidden = h,
                                 !.run = run, !.left = l] \in Messages
  <2>1. queue[m].receives + 1 \in 0 .. MaxReceives
    BY <1>0, <1>6
  <2> QED BY <1>0, <2>1 DEF Messages
<1>7. \A h, l \in Nat : [queue[m] EXCEPT !.hidden = h, !.left = l] \in Messages
  BY <1>0 DEF Messages
<1> QED BY <1>1, <1>2, <1>3, <1>4, <1>5, <1>6, <1>7
---------------------------------------------------------------------------
(* What becomes of the record of a message *)

\* A message sent is in the processing queue.
LEMMA SendRecord ==
    ASSUME PipelineTypeOK, NEW m \in Message, Send(m)
    PROVE  \E me \in Messages :
             /\ queue' = [queue EXCEPT ![m] = me] /\ queue'[m] = me
             /\ UNCHANGED <<life, lease>> /\ queue[m].place = "unsent"
             /\ me.place = "processing" /\ me.receives = queue[m].receives
             /\ me.hidden = queue[m].hidden /\ me.run = queue[m].run
             /\ me.left = queue[m].left /\ me.attempt = queue[m].attempt
<1> DEFINE me == [queue[m] EXCEPT !.place = "processing"]
<1>0. queue[m] \in Messages
  BY PipelineShape
<1>1. me \in Messages
  BY MessageTypes DEF Places
<1>2. /\ me.place = "processing" /\ me.receives = queue[m].receives
      /\ me.hidden = queue[m].hidden /\ me.run = queue[m].run
      /\ me.left = queue[m].left /\ me.attempt = queue[m].attempt
  BY <1>0 DEF Messages
<1>3. queue' = [queue EXCEPT ![m] = me]
  BY DEF Send
<1> HIDE DEF me
<1> QED BY <1>1, <1>2, <1>3, PipelineShape DEF Send

\* A message delivered from the processing queue.
LEMMA DeliverRecord ==
    ASSUME PipelineTypeOK, NEW m \in Message, Deliver(m)
    PROVE  \E me \in Messages :
             /\ queue' = [queue EXCEPT ![m] = me] /\ queue'[m] = me
             /\ UNCHANGED <<life, lease>>
             /\ queue[m].place = "processing" /\ queue[m].run = "none"
             /\ queue[m].hidden = 0 /\ queue[m].receives < MaxReceives
             /\ me.place = "processing" /\ me.receives = queue[m].receives + 1
             /\ me.hidden = Visibility /\ me.run = "starting"
             /\ me.left = Timeout /\ me.attempt = queue[m].attempt
<1> DEFINE me == [queue[m] EXCEPT !.receives = queue[m].receives + 1, !.hidden = Visibility,
                                  !.run = "starting", !.left = Timeout]
<1>0. /\ queue[m] \in Messages /\ Visibility \in Nat /\ Timeout \in Nat
      /\ queue[m].place = "processing" /\ queue[m].run = "none" /\ queue[m].hidden = 0
      /\ queue[m].receives < MaxReceives /\ UNCHANGED <<life, lease>>
  BY PipelineShape, PipelineAssumption DEF Deliver, Waits
<1>1. me \in Messages
  BY <1>0, MessageTypes
<1>2. /\ me.place = "processing" /\ me.receives = queue[m].receives + 1
      /\ me.hidden = Visibility /\ me.run = "starting"
      /\ me.left = Timeout /\ me.attempt = queue[m].attempt
  BY <1>0 DEF Messages
<1>3. queue' = [queue EXCEPT ![m] = me]
  BY DEF Deliver
<1> HIDE DEF me
<1> QED BY <1>0, <1>1, <1>2, <1>3, PipelineShape

\* A message delivered from the dead-letter queue.
LEMMA DeliverDeadRecord ==
    ASSUME PipelineTypeOK, NEW m \in Message, DeliverDead(m)
    PROVE  \E me \in Messages :
             /\ queue' = [queue EXCEPT ![m] = me] /\ queue'[m] = me
             /\ UNCHANGED <<life, lease>>
             /\ queue[m].place = "dead_letter" /\ queue[m].run = "none"
             /\ queue[m].hidden = 0 /\ queue[m].receives < MaxReceives
             /\ me.place = "dead_letter" /\ me.receives = queue[m].receives + 1
             /\ me.hidden = DeadVisibility /\ me.run = "reconciling"
             /\ me.left = ReconcileTimeout /\ me.attempt = queue[m].attempt
<1> DEFINE me == [queue[m] EXCEPT !.receives = queue[m].receives + 1, !.hidden = DeadVisibility,
                                  !.run = "reconciling", !.left = ReconcileTimeout]
<1>0. /\ queue[m] \in Messages /\ DeadVisibility \in Nat /\ ReconcileTimeout \in Nat
      /\ queue[m].place = "dead_letter" /\ queue[m].run = "none" /\ queue[m].hidden = 0
      /\ queue[m].receives < MaxReceives /\ UNCHANGED <<life, lease>>
  BY PipelineShape, PipelineAssumption DEF DeliverDead, Waits
<1>1. me \in Messages
  BY <1>0, MessageTypes
<1>2. /\ me.place = "dead_letter" /\ me.receives = queue[m].receives + 1
      /\ me.hidden = DeadVisibility /\ me.run = "reconciling"
      /\ me.left = ReconcileTimeout /\ me.attempt = queue[m].attempt
  BY <1>0 DEF Messages
<1>3. queue' = [queue EXCEPT ![m] = me]
  BY DEF DeliverDead
<1> HIDE DEF me
<1> QED BY <1>0, <1>1, <1>2, <1>3, PipelineShape

\* A message moved has its receives before it again.
LEMMA RedriveRecord ==
    ASSUME PipelineTypeOK, NEW m \in Message, NEW from,
           NEW to \in {"dead_letter", "quarantine"}, Redrive(m, from, to)
    PROVE  \E me \in Messages :
             /\ queue' = [queue EXCEPT ![m] = me] /\ queue'[m] = me
             /\ UNCHANGED <<life, lease>>
             /\ queue[m].place = from /\ queue[m].run = "none"
             /\ queue[m].receives = MaxReceives
             /\ me.place = to /\ me.receives = 0
             /\ me.hidden = queue[m].hidden /\ me.run = queue[m].run
             /\ me.left = queue[m].left /\ me.attempt = queue[m].attempt
<1> DEFINE me == [queue[m] EXCEPT !.place = to, !.receives = 0]
<1>0. queue[m] \in Messages /\ queue[m].place = from /\ queue[m].run = "none"
      /\ queue[m].receives = MaxReceives
  BY PipelineShape DEF Redrive, Waits
<1>1. me \in Messages
  BY MessageTypes DEF Places
<1>2. /\ me.place = to /\ me.receives = 0
      /\ me.hidden = queue[m].hidden /\ me.run = queue[m].run
      /\ me.left = queue[m].left /\ me.attempt = queue[m].attempt
  BY <1>0 DEF Messages
<1>3. queue' = [queue EXCEPT ![m] = me]
  BY DEF Redrive
<1> HIDE DEF me
<1> QED BY <1>0, <1>1, <1>2, <1>3, PipelineShape DEF Redrive

\* A message reported stays hidden where it is.
LEMMA ReportedRecord ==
    ASSUME PipelineTypeOK, NEW m \in Message, queue' = Reported(m)
    PROVE  \E me \in Messages :
             /\ queue' = [queue EXCEPT ![m] = me] /\ queue'[m] = me
             /\ me.place = queue[m].place /\ me.receives = queue[m].receives
             /\ me.hidden = queue[m].hidden /\ me.run = "none" /\ me.left = 0
             /\ me.attempt = queue[m].attempt
<1> DEFINE me == [queue[m] EXCEPT !.run = "none", !.left = 0]
<1>0. queue[m] \in Messages
  BY PipelineShape
<1>1. me \in Messages
  BY MessageTypes
<1>2. /\ me.place = queue[m].place /\ me.receives = queue[m].receives
      /\ me.hidden = queue[m].hidden /\ me.run = "none" /\ me.left = 0
      /\ me.attempt = queue[m].attempt
  BY <1>0 DEF Messages
<1>3. queue' = [queue EXCEPT ![m] = me]
  BY DEF Reported
<1> HIDE DEF me
<1> QED BY <1>1, <1>2, <1>3, PipelineShape

\* A message acknowledged is deleted.
LEMMA AcknowledgedRecord ==
    ASSUME PipelineTypeOK, NEW m \in Message, queue' = Acknowledged(m)
    PROVE  \E me \in Messages :
             /\ queue' = [queue EXCEPT ![m] = me] /\ queue'[m] = me
             /\ me.place = "deleted" /\ me.receives = queue[m].receives
             /\ me.hidden = 0 /\ me.run = "none" /\ me.left = 0
             /\ me.attempt = queue[m].attempt
<1> DEFINE me == [queue[m] EXCEPT !.run = "none", !.left = 0, !.hidden = 0,
                                  !.place = "deleted"]
<1>0. queue[m] \in Messages
  BY PipelineShape
<1>1. me \in Messages
  BY MessageTypes
<1>2. /\ me.place = "deleted" /\ me.receives = queue[m].receives
      /\ me.hidden = 0 /\ me.run = "none" /\ me.left = 0
      /\ me.attempt = queue[m].attempt
  BY <1>0 DEF Messages
<1>3. queue' = [queue EXCEPT ![m] = me]
  BY DEF Acknowledged
<1> HIDE DEF me
<1> QED BY <1>1, <1>2, <1>3, PipelineShape

\* A message that claims holds the new attempt.
LEMMA ClaimRecord ==
    ASSUME PipelineTypeOK, NEW m \in Message, StartClaims(m)
    PROVE  \E me \in Messages :
             /\ queue' = [queue EXCEPT ![m] = me] /\ queue'[m] = me
             /\ queue[m].run = "starting"
             /\ me.place = queue[m].place /\ me.receives = queue[m].receives
             /\ me.hidden = queue[m].hidden /\ me.run = "holding"
             /\ me.left = queue[m].left /\ me.attempt = attempts + 1
<1> DEFINE me == [queue[m] EXCEPT !.run = "holding", !.attempt = attempts + 1]
<1>0. queue[m] \in Messages /\ attempts + 1 \in Nat /\ queue[m].run = "starting"
  BY PipelineShape DEF StartClaims, PipelineTypeOK
<1>1. me \in Messages
  BY <1>0, MessageTypes
<1>2. /\ me.place = queue[m].place /\ me.receives = queue[m].receives
      /\ me.hidden = queue[m].hidden /\ me.run = "holding"
      /\ me.left = queue[m].left /\ me.attempt = attempts + 1
  BY <1>0 DEF Messages
<1>3. queue' = [queue EXCEPT ![m] = me]
  BY DEF StartClaims, ThisAttempt
<1> HIDE DEF me
<1> QED BY <1>0, <1>1, <1>2, <1>3, PipelineShape

---------------------------------------------------------------------------
(* The steps, one message at a time *)

\* A step that gives message m the new record me, and moves the job forward.
LEMMA MessageFrame ==
    ASSUME PipelineTypeOK, PipelineInv, NEW m \in Message, NEW me \in Messages,
           queue' = [queue EXCEPT ![m] = me],
           PipelineTypeOK', OwnerInv', Terminal => Terminal', attempts' >= attempts,
           \/ owner' = owner /\ lease' \in {lease, 0}
           \/ owner' = 0
           \/ owner' > attempts,
           MessageInv(m)'
    PROVE  PipelineInv'
<1>1. ASSUME NEW n \in Message, n # m PROVE MessageInv(n)'
  <2>1. queue'[n] = queue[n]
    BY <1>1, PipelineShape
  <2>2. /\ queue[n].attempt \in Nat /\ queue[n].hidden \in Nat /\ attempts \in Nat
        /\ attempts' \in Nat /\ owner' \in Nat /\ lease \in Nat /\ MessageInv(n)
    BY PipelineShape, PipelineAssumption DEF PipelineInv, PipelineTypeOK
  <2> QED BY <2>1, <2>2 DEF MessageInv
<1> QED BY <1>1 DEF PipelineInv

\* A step that leaves the job alone.
LEMMA MessageStep ==
    ASSUME PipelineTypeOK, PipelineInv, NEW m \in Message, NEW me \in Messages,
           queue' = [queue EXCEPT ![m] = me], UNCHANGED <<life, lease>>,
           MessageInv(m)'
    PROVE  PipelineTypeOK' /\ PipelineInv'
<1>1. PipelineTypeOK' /\ attempts \in Nat
  BY PipelineShape DEF PipelineTypeOK, life
<1>2. OwnerInv' /\ (Terminal => Terminal')
  BY DEF PipelineInv, OwnerInv, Terminal, life
<1>3. attempts' >= attempts /\ owner' = owner /\ lease' \in {lease, 0}
  BY <1>1 DEF life
<1> QED BY <1>1, <1>2, <1>3, MessageFrame

\* The queues: sending, delivering, moving a message.
LEMMA QueueSteps ==
    ASSUME PipelineTypeOK, PipelineInv, NEW m \in Message, Send(m) \/ Queues(m)
    PROVE  PipelineTypeOK' /\ PipelineInv'
<1>0. /\ MessageInv(m) /\ queue[m] \in Messages /\ OwnerInv
      /\ queue[m].hidden \in Nat /\ queue[m].attempt \in Nat /\ lease \in Nat
      /\ Timeout \in Nat /\ Visibility \in Nat /\ DeadVisibility \in Nat
      /\ ReconcileTimeout \in Nat
  BY PipelineShape, PipelineAssumption DEF PipelineInv, PipelineTypeOK
<1>1. CASE Send(m)
  <2>2. PICK me \in Messages :
        /\ queue' = [queue EXCEPT ![m] = me] /\ queue'[m] = me
        /\ UNCHANGED <<life, lease>> /\ me.place = "processing"
        /\ me.attempt = queue[m].attempt /\ me.run = queue[m].run
        /\ me.hidden = queue[m].hidden /\ me.left = queue[m].left
    BY <1>1, SendRecord
  <2>3. MessageInv(m)'
    BY <1>0, <2>2 DEF MessageInv, life
  <2> QED BY <2>2, <2>3, MessageStep
<1>2. CASE Deliver(m)
  <2>2. PICK me \in Messages :
        /\ queue' = [queue EXCEPT ![m] = me] /\ queue'[m] = me
        /\ UNCHANGED <<life, lease>> /\ me.place = "processing" /\ queue[m].hidden = 0
        /\ me.attempt = queue[m].attempt /\ me.run = "starting"
        /\ me.hidden = Visibility /\ me.left = Timeout
    BY <1>2, DeliverRecord
  <2>3. MessageInv(m)'
    BY <1>0, <2>2 DEF MessageInv, life
  <2> QED BY <2>2, <2>3, MessageStep
<1>3. CASE DeliverDead(m)
  <2>2. PICK me \in Messages :
        /\ queue' = [queue EXCEPT ![m] = me] /\ queue'[m] = me
        /\ UNCHANGED <<life, lease>> /\ me.place = "dead_letter" /\ queue[m].hidden = 0
        /\ me.attempt = queue[m].attempt /\ me.run = "reconciling"
        /\ me.hidden = DeadVisibility
    BY <1>3, DeliverDeadRecord
  <2>3. MessageInv(m)'
    BY <1>0, <2>2 DEF MessageInv, life
  <2> QED BY <2>2, <2>3, MessageStep
<1>4. ASSUME NEW from, NEW to \in {"dead_letter", "quarantine"}, Redrive(m, from, to)
      PROVE  PipelineTypeOK' /\ PipelineInv'
  <2>2. PICK me \in Messages :
        /\ queue' = [queue EXCEPT ![m] = me] /\ queue'[m] = me
        /\ UNCHANGED <<life, lease>> /\ me.place = to
        /\ me.attempt = queue[m].attempt /\ me.run = queue[m].run
        /\ me.hidden = queue[m].hidden /\ me.left = queue[m].left
    BY <1>4, RedriveRecord
  <2>3. MessageInv(m)'
    BY <1>0, <2>2 DEF MessageInv, life
  <2> QED BY <2>2, <2>3, MessageStep
<1> QED BY <1>1, <1>2, <1>3, <1>4 DEF Queues

\* An invocation that ends without a write is reported, or acknowledged when
\* the job is terminal.
LEMMA EndedRun ==
    ASSUME PipelineTypeOK, PipelineInv, NEW m \in Message,
           UNCHANGED <<life, lease>>, queue[m].place # "deleted" \/ Terminal,
           queue' = Reported(m) \/ (Terminal /\ queue' = Acknowledged(m))
    PROVE  PipelineTypeOK' /\ PipelineInv'
<1>0. /\ MessageInv(m) /\ queue[m] \in Messages /\ OwnerInv /\ lease \in Nat
  BY PipelineShape, PipelineAssumption DEF PipelineInv, PipelineTypeOK
<1>1. CASE queue' = Reported(m)
  <2>2. PICK me \in Messages :
        /\ queue' = [queue EXCEPT ![m] = me] /\ queue'[m] = me
        /\ me.place = queue[m].place /\ me.attempt = queue[m].attempt
        /\ me.run = "none" /\ me.hidden = queue[m].hidden
    BY <1>1, ReportedRecord
  <2>3. MessageInv(m)'
    BY <1>0, <2>2 DEF MessageInv, life, Terminal
  <2> QED BY <2>2, <2>3, MessageStep
<1>2. CASE Terminal /\ queue' = Acknowledged(m)
  <2>2. PICK me \in Messages :
        /\ queue' = [queue EXCEPT ![m] = me] /\ queue'[m] = me
        /\ me.attempt = queue[m].attempt /\ me.run = "none"
    BY <1>2, AcknowledgedRecord
  <2>3. owner = 0
    BY <1>0, <1>2 DEF OwnerInv, Terminal
  <2>4. MessageInv(m)'
    BY <1>0, <1>2, <2>2, <2>3 DEF MessageInv, life, Terminal
  <2> QED BY <2>2, <2>4, MessageStep
<1> QED BY <1>1, <1>2

\* An invocation that ends with the write that takes the claim away.
LEMMA EndedClaim ==
    ASSUME PipelineTypeOK, PipelineInv, NEW m \in Message,
           ~Terminal, queue[m].place # "deleted",
           owner' = 0, lease' = 0, attempts' = attempts, result' \in Nat,
           status' \in {"PENDING_UPLOAD", "SUCCEEDED", "FAILED", "DEAD"},
           queue' = Reported(m) \/ (Terminal' /\ queue' = Acknowledged(m))
    PROVE  PipelineTypeOK' /\ PipelineInv'
<1>0. /\ MessageInv(m) /\ queue[m] \in Messages /\ attempts \in Nat
      /\ attempts' >= attempts /\ Lease \in Nat
  BY PipelineShape, PipelineAssumption DEF PipelineInv, PipelineTypeOK
<1>1. ASSUME NEW me \in Messages, queue' = [queue EXCEPT ![m] = me]
      PROVE  PipelineTypeOK' /\ OwnerInv'
  <2>1. queue' \in [Message -> Messages]
    BY <1>1, PipelineShape
  <2> QED BY <1>0, <2>1 DEF PipelineTypeOK, OwnerInv
<1>2. CASE queue' = Reported(m)
  <2>2. PICK me \in Messages :
        /\ queue' = [queue EXCEPT ![m] = me] /\ queue'[m] = me
        /\ me.place = queue[m].place /\ me.attempt = queue[m].attempt /\ me.run = "none"
    BY <1>2, ReportedRecord
  <2>3. MessageInv(m)'
    BY <1>0, <2>2 DEF MessageInv
  <2>4. PipelineTypeOK' /\ OwnerInv'
    BY <1>1, <2>2
  <2> QED BY <1>0, <2>2, <2>3, <2>4, MessageFrame
<1>3. CASE Terminal' /\ queue' = Acknowledged(m)
  <2>2. PICK me \in Messages :
        /\ queue' = [queue EXCEPT ![m] = me] /\ queue'[m] = me
        /\ me.attempt = queue[m].attempt /\ me.run = "none"
    BY <1>3, AcknowledgedRecord
  <2>3. MessageInv(m)'
    BY <1>0, <1>3, <2>2 DEF MessageInv
  <2>4. PipelineTypeOK' /\ OwnerInv'
    BY <1>1, <2>2
  <2> QED BY <1>0, <2>2, <2>3, <2>4, MessageFrame
<1> QED BY <1>2, <1>3

\* The steps of an invocation.
LEMMA RunSteps ==
    ASSUME PipelineTypeOK, PipelineInv, NEW m \in Message, Run(m)
    PROVE  PipelineTypeOK' /\ PipelineInv'
<1>0. /\ MessageInv(m) /\ queue[m] \in Messages /\ OwnerInv
      /\ queue[m].hidden \in Nat /\ queue[m].left \in Nat /\ queue[m].attempt \in Nat
      /\ attempts \in Nat /\ owner \in Nat /\ result \in Nat
      /\ Lease \in Nat /\ Timeout \in Nat /\ Visibility \in Nat
  BY PipelineShape, PipelineAssumption DEF PipelineInv, PipelineTypeOK
<1>r. queue[m].run # "none" => queue[m].place # "deleted"
  BY <1>0 DEF MessageInv
<1>1. CASE StartClaims(m)
  <2>2. PICK me \in Messages :
        /\ queue' = [queue EXCEPT ![m] = me] /\ queue'[m] = me
        /\ me.place = queue[m].place /\ me.attempt = attempts + 1 /\ me.run = "holding"
        /\ me.hidden = queue[m].hidden /\ me.left = queue[m].left
    BY <1>1, ClaimRecord DEF StartClaims, Claim
  <2>3. /\ status' = "PROCESSING" /\ attempts' = attempts + 1 /\ owner' = attempts + 1
        /\ result' = result /\ lease' = Lease /\ ~Terminal /\ queue[m].run = "starting"
    BY <1>1 DEF StartClaims, Claim, ThisAttempt, Terminal
  <2>4. PipelineTypeOK' /\ OwnerInv'
    BY <1>0, <2>2, <2>3, PipelineShape DEF PipelineTypeOK, OwnerInv
  <2>5. MessageInv(m)'
    BY <1>0, <1>r, <2>2, <2>3 DEF MessageInv, LeaseFits
  <2>6. owner' > attempts /\ attempts' >= attempts
    BY <1>0, <2>3
  <2> QED BY <2>2, <2>3, <2>4, <2>5, <2>6, MessageFrame
<1>2. CASE StartEnds(m)
  BY <1>2, <1>r, EndedRun DEF StartEnds
<1>3. CASE FinishOwned(m)
  <2>1. /\ status = "PROCESSING" /\ owner' = 0 /\ lease' = 0 /\ attempts' = attempts
        /\ result' \in Nat
        /\ status' \in {"PENDING_UPLOAD", "SUCCEEDED", "FAILED", "DEAD"}
        /\ queue' = Reported(m) \/ (Terminal' /\ queue' = Acknowledged(m))
        /\ queue[m].run = "holding"
    BY <1>0, <1>3 DEF FinishOwned, Succeed, Fail, Release, Terminal
  <2> QED BY <1>r, <2>1, EndedClaim DEF Terminal
<1>4. CASE FinishLost(m)
  BY <1>4, <1>r, EndedRun DEF FinishLost
<1>5. CASE Reconcile(m)
  <2>1. CASE UNCHANGED <<life, lease>>
    <3>1. queue[m].run = "reconciling"
          /\ (queue' = Reported(m) \/ (Terminal /\ queue' = Acknowledged(m)))
      BY <1>5, <2>1 DEF Reconcile, Die, life, Terminal
    <3> QED BY <1>r, <2>1, <3>1, EndedRun
  <2>2. CASE Die /\ lease' = 0 /\ (queue' = Acknowledged(m) \/ queue' = Reported(m))
    <3>1. /\ ~Terminal /\ owner' = 0 /\ attempts' = attempts /\ result' \in Nat
          /\ status' = "DEAD" /\ Terminal' /\ queue[m].run = "reconciling"
      BY <1>0, <1>5, <2>2 DEF Reconcile, Die, Terminal
    <3> QED BY <1>r, <2>2, <3>1, EndedClaim
  <2> QED BY <1>5, <2>1, <2>2 DEF Reconcile
<1>6. CASE Crash(m)
  BY <1>6, <1>r, EndedRun DEF Crash
<1> QED BY <1>1, <1>2, <1>3, <1>4, <1>5, <1>6 DEF Run

\* The passing of time preserves the invariant.
LEMMA TickStep ==
    ASSUME PipelineTypeOK, PipelineInv, Tick
    PROVE  PipelineTypeOK' /\ PipelineInv'
<1>1. \A t \in Nat : Lowered(t) \in Nat /\ Lowered(t) <= t /\ (t > 0 => Lowered(t) = t - 1)
                    /\ (t = 0 => Lowered(t) = 0)
  BY DEF Lowered
<1>2. ASSUME NEW m \in Message PROVE queue'[m] \in Messages /\ MessageInv(m)'
  <2> DEFINE me == [queue[m] EXCEPT !.hidden = Lowered(queue[m].hidden),
                                    !.left = Lowered(queue[m].left)]
  <2>0. /\ MessageInv(m) /\ queue[m] \in Messages
        /\ queue[m].hidden \in Nat /\ queue[m].left \in Nat /\ lease \in Nat
        /\ Timeout \in Nat /\ Visibility \in Nat
    BY PipelineShape, PipelineAssumption DEF PipelineInv, PipelineTypeOK
  <2>1. me \in Messages
    BY <1>1, <2>0, MessageTypes
  <2>2. queue'[m] = me
    BY DEF Tick
  <2>3. /\ me.place = queue[m].place /\ me.attempt = queue[m].attempt /\ me.run = queue[m].run
        /\ me.hidden = Lowered(queue[m].hidden) /\ me.left = Lowered(queue[m].left)
    BY <2>0 DEF Messages
  <2>4. queue[m].run # "none" => queue[m].left > 0
    BY DEF Tick
  <2>5. lease' = Lowered(lease) /\ UNCHANGED life
    BY DEF Tick
  <2> HIDE DEF me
  <2>6. MessageInv(m)'
    <3>1. queue[m].run \in {"starting", "holding"} =>
            Lowered(queue[m].left) + Visibility <= Lowered(queue[m].hidden) + Timeout
      BY <1>1, <2>0, <2>4, PipelineAssumption DEF MessageInv
    <3>2. lease <= queue[m].hidden => Lowered(lease) <= Lowered(queue[m].hidden)
      BY <1>1, <2>0
    <3> QED BY <1>1, <2>0, <2>2, <2>3, <2>5, <3>1, <3>2 DEF MessageInv, life, Terminal
  <2> QED BY <2>1, <2>2, <2>6
<1>3. lease' \in 0 .. Lease
  <2>1. lease \in 0 .. Lease /\ Lease \in Nat /\ lease' = Lowered(lease)
    BY PipelineAssumption DEF Tick, PipelineTypeOK
  <2> QED BY <1>1, <2>1
<1>4. queue' \in [Message -> Messages]
  <2>1. queue' = [m \in Message |-> queue'[m]]
    BY DEF Tick
  <2> QED BY <1>2, <2>1
<1>5. PipelineTypeOK' /\ OwnerInv'
  BY <1>3, <1>4 DEF Tick, PipelineTypeOK, PipelineInv, OwnerInv, life
<1> QED BY <1>2, <1>5 DEF PipelineInv

\* The initial states satisfy the types and the invariant.
LEMMA PipelineInitially == PipelineInit => PipelineTypeOK /\ PipelineInv
<1> SUFFICES ASSUME PipelineInit PROVE PipelineTypeOK /\ PipelineInv
  OBVIOUS
<1>1. PipelineTypeOK
  BY PipelineAssumption DEF PipelineInit, LifeInit, PipelineTypeOK, Messages, Places
<1> QED BY <1>1 DEF PipelineInit, LifeInit, PipelineInv, OwnerInv, MessageInv

\* The invariant of the queues: where messages are, and, when the processing
\* queue hides a message for the Lambda timeout and a lease, for how long.
THEOREM PipelineInvariance == PipelineSpec => [](PipelineTypeOK /\ PipelineInv)
<1>1. PipelineTypeOK /\ PipelineInv /\ [PipelineNext]_pipeline
        => PipelineTypeOK' /\ PipelineInv'
  <2> SUFFICES ASSUME PipelineTypeOK, PipelineInv, [PipelineNext]_pipeline
               PROVE  PipelineTypeOK' /\ PipelineInv'
    OBVIOUS
  <2>1. CASE UNCHANGED pipeline
    BY <2>1 DEF pipeline, PipelineTypeOK, PipelineInv, OwnerInv, MessageInv, Terminal
  <2> QED BY <2>1, QueueSteps, RunSteps, TickStep DEF PipelineNext
<1> QED BY <1>1, PipelineInitially, PTL DEF PipelineSpec

\* No message is deleted for a job that is still pending or claimed, whatever
\* the timeouts.
THEOREM NoMessageIsLost == PipelineSpec => []DeletedOnlyWhenTerminal
<1>1. PipelineInv => DeletedOnlyWhenTerminal
  BY DEF PipelineInv, MessageInv, DeletedOnlyWhenTerminal
<1> QED BY <1>1, PipelineInvariance, PTL

\* A redelivered message finds the claim of its last delivery expired, when
\* the visibility timeout covers the Lambda timeout and a lease.
THEOREM RetryFindsLeaseExpired == LeaseFits => (PipelineSpec => []OwnClaimNeverBlocks)
<1> SUFFICES ASSUME LeaseFits PROVE PipelineSpec => []OwnClaimNeverBlocks
  OBVIOUS
<1>1. PipelineInv => OwnClaimNeverBlocks
  BY DEF PipelineInv, MessageInv, OwnClaimNeverBlocks
<1> QED BY <1>1, PipelineInvariance, PTL
---------------------------------------------------------------------------
(* The claims are bounded: each has a receive of the processing queue to    *)
(* itself.                                                                  *)

\* The receives of the processing queue that a message has used up: those
\* whose invocation is beyond its claim, and all once it has left the queue.
UsedUp(me) ==
    IF me.place = "unsent" THEN 0
    ELSE IF me.place # "processing" THEN MaxReceives
    ELSE IF me.run = "starting" THEN me.receives - 1
    ELSE me.receives

Spent(q) == {r \in Message \X (1 .. MaxReceives) : r[2] <= UsedUp(q[r[1]])}

CountInv == attempts <= Cardinality(Spent(queue))

\* The receives are finitely many, hence those that are used up.
LEMMA SpentIsFinite ==
    ASSUME IsFiniteSet(Message), NEW q
    PROVE  /\ IsFiniteSet(Spent(q)) /\ Cardinality(Spent(q)) \in Nat
           /\ Cardinality(Spent(q)) <= MaxReceives * Cardinality(Message)
<1>1. IsFiniteSet(1 .. MaxReceives) /\ Cardinality(1 .. MaxReceives) = MaxReceives
  BY PipelineAssumption, FS_Interval
<1>2. /\ IsFiniteSet(Message \X (1 .. MaxReceives))
      /\ Cardinality(Message \X (1 .. MaxReceives)) = Cardinality(Message) * MaxReceives
  BY <1>1, FS_Product
<1>3. Spent(q) \in SUBSET (Message \X (1 .. MaxReceives))
  BY DEF Spent
<1>4. IsFiniteSet(Spent(q)) /\ Cardinality(Spent(q)) <= Cardinality(Message) * MaxReceives
  BY <1>2, <1>3, FS_Subset
<1>5. Cardinality(Message) \in Nat /\ MaxReceives \in Nat
  BY PipelineAssumption, FS_CardinalityType
<1>6. Cardinality(Message) * MaxReceives = MaxReceives * Cardinality(Message)
  BY <1>5
<1> QED BY <1>4, <1>6, FS_CardinalityType

\* A step that uses up no less than before, and adds a claim only with a
\* receive, keeps the count.
LEMMA CountStep ==
    ASSUME IsFiniteSet(Message), attempts \in Nat, attempts <= Cardinality(Spent(queue)),
           NEW q, \A n \in Message : UsedUp(queue[n]) <= UsedUp(q[n]),
           \A n \in Message : UsedUp(queue[n]) \in Int /\ UsedUp(q[n]) \in Int
    PROVE  /\ attempts <= Cardinality(Spent(q))
           /\ \A m \in Message :
                UsedUp(q[m]) = UsedUp(queue[m]) + 1 /\ UsedUp(q[m]) \in 1 .. MaxReceives
                  => attempts + 1 <= Cardinality(Spent(q))
<1>1. Spent(queue) \in SUBSET Spent(q)
  <2> SUFFICES ASSUME NEW r \in Spent(queue) PROVE r \in Spent(q)
    OBVIOUS
  <2>1. r \in Message \X (1 .. MaxReceives) /\ r[1] \in Message /\ r[2] \in Int
        /\ r[2] <= UsedUp(queue[r[1]])
    BY PipelineAssumption DEF Spent
  <2>2. /\ UsedUp(queue[r[1]]) <= UsedUp(q[r[1]])
        /\ UsedUp(queue[r[1]]) \in Int /\ UsedUp(q[r[1]]) \in Int
    BY <2>1
  <2>3. r[2] <= UsedUp(q[r[1]])
    BY <2>1, <2>2
  <2> QED BY <2>1, <2>3 DEF Spent
<1>2. attempts <= Cardinality(Spent(q))
  BY <1>1, SpentIsFinite, FS_Subset
<1>3. ASSUME NEW m \in Message, UsedUp(q[m]) = UsedUp(queue[m]) + 1,
             UsedUp(q[m]) \in 1 .. MaxReceives
      PROVE  attempts + 1 <= Cardinality(Spent(q))
  <2> DEFINE r == <<m, UsedUp(q[m])>>
  <2>1. r \in Spent(q) /\ r \notin Spent(queue)
    BY <1>3 DEF Spent
  <2> HIDE DEF r
  <2>2. Spent(queue) \union {r} \in SUBSET Spent(q)
    BY <1>1, <2>1
  <2>3. Cardinality(Spent(queue) \union {r}) = Cardinality(Spent(queue)) + 1
    BY <2>1, SpentIsFinite, FS_AddElement
  <2>4. Cardinality(Spent(queue) \union {r}) <= Cardinality(Spent(q))
    BY <2>2, SpentIsFinite, FS_Subset
  <2> QED BY <2>3, <2>4, SpentIsFinite
<1> QED BY <1>2, <1>3

\* What time leaves alone.
LEMMA TickFrame ==
    ASSUME PipelineTypeOK, Tick, NEW n \in Message
    PROVE  /\ queue'[n].place = queue[n].place /\ queue'[n].run = queue[n].run
           /\ queue'[n].receives = queue[n].receives
           /\ queue'[n].attempt = queue[n].attempt
  BY PipelineShape DEF Tick, Messages

\* What a message may become.
LEMMA RecordStep ==
    ASSUME PipelineTypeOK, NEW m \in Message, Send(m) \/ Queues(m) \/ Run(m),
           StationInv(queue[m])
    PROVE  \E me \in Messages :
             /\ queue' = [queue EXCEPT ![m] = me]
             /\ StationInv(me)
             /\ StepsLeft(me) \in 0 .. StepsLeft(queue[m]) - 1
             /\ UsedUp(queue[m]) <= UsedUp(me)
             /\ \/ attempts' = attempts
                \/ /\ attempts' = attempts + 1 /\ UsedUp(me) = UsedUp(queue[m]) + 1
                   /\ UsedUp(me) \in 1 .. MaxReceives
<1>0. /\ queue[m] \in Messages /\ MaxReceives \in Nat /\ MaxReceives >= 1
      /\ queue[m].receives \in 0 .. MaxReceives /\ attempts \in Nat
      /\ Visibility \in Nat /\ DeadVisibility \in Nat /\ Timeout \in Nat
      /\ ReconcileTimeout \in Nat
  BY PipelineShape, PipelineAssumption DEF PipelineTypeOK
<1>p. /\ Phases["none"] = 0 /\ Phases["holding"] = 1
      /\ Phases["starting"] = 2 /\ Phases["reconciling"] = 2
      /\ queue[m].run \in {"none", "starting", "holding", "reconciling"}
      /\ queue[m].place \in Places
  BY PipelineShape DEF Phases
<1>r. CASE queue' = Reported(m) /\ attempts' = attempts /\ queue[m].run # "none"
  <2>2. PICK me \in Messages :
        /\ queue' = [queue EXCEPT ![m] = me] /\ me.run = "none"
        /\ me.place = queue[m].place /\ me.receives = queue[m].receives
    BY <1>r, ReportedRecord
  <2>3. StationInv(me) /\ UsedUp(queue[m]) <= UsedUp(me)
    BY <1>0, <2>2 DEF StationInv, UsedUp
  <2>s. StepsLeft(me) \in 0 .. StepsLeft(queue[m]) - 1
    BY <1>0, <1>p, <1>r, <2>2 DEF StationInv, StepsLeft
  <2> QED BY <1>r, <2>2, <2>3, <2>s
<1>a. CASE queue' = Acknowledged(m) /\ attempts' = attempts /\ queue[m].run # "none"
  <2>2. PICK me \in Messages :
        queue' = [queue EXCEPT ![m] = me] /\ me.run = "none" /\ me.place = "deleted"
    BY <1>a, AcknowledgedRecord
  <2>3. StationInv(me) /\ UsedUp(queue[m]) <= UsedUp(me)
    BY <1>0, <2>2 DEF StationInv, UsedUp
  <2>s. StepsLeft(me) \in 0 .. StepsLeft(queue[m]) - 1
    BY <1>0, <1>p, <1>a, <2>2 DEF StationInv, StepsLeft
  <2> QED BY <1>a, <2>2, <2>3, <2>s
<1>1. CASE Send(m)
  <2>2. PICK me \in Messages :
        /\ queue' = [queue EXCEPT ![m] = me] /\ me.run = queue[m].run
        /\ me.place = "processing" /\ me.receives = queue[m].receives
        /\ queue[m].place = "unsent" /\ attempts' = attempts
    BY <1>1, SendRecord DEF life
  <2>3. StationInv(me) /\ UsedUp(queue[m]) <= UsedUp(me)
    BY <1>0, <2>2 DEF StationInv, UsedUp
  <2>s. StepsLeft(me) \in 0 .. StepsLeft(queue[m]) - 1
    BY <1>0, <1>p, <2>2 DEF StationInv, StepsLeft
  <2> QED BY <2>2, <2>3, <2>s
<1>2. CASE Deliver(m)
  <2>2. PICK me \in Messages :
        /\ queue' = [queue EXCEPT ![m] = me] /\ me.run = "starting"
        /\ me.place = "processing" /\ me.receives = queue[m].receives + 1
        /\ queue[m].place = "processing" /\ queue[m].run = "none" /\ attempts' = attempts
        /\ queue[m].receives < MaxReceives
    BY <1>2, DeliverRecord DEF life
  <2>3. StationInv(me) /\ UsedUp(queue[m]) <= UsedUp(me)
    BY <1>0, <2>2 DEF StationInv, UsedUp
  <2>s. StepsLeft(me) \in 0 .. StepsLeft(queue[m]) - 1
    BY <1>0, <1>p, <2>2 DEF StationInv, StepsLeft
  <2> QED BY <2>2, <2>3, <2>s
<1>3. CASE DeliverDead(m)
  <2>2. PICK me \in Messages :
        /\ queue' = [queue EXCEPT ![m] = me] /\ me.run = "reconciling"
        /\ me.place = "dead_letter" /\ queue[m].place = "dead_letter" /\ attempts' = attempts
        /\ me.receives = queue[m].receives + 1 /\ queue[m].receives < MaxReceives
        /\ queue[m].run = "none"
    BY <1>3, DeliverDeadRecord DEF life
  <2>3. StationInv(me) /\ UsedUp(queue[m]) <= UsedUp(me)
    BY <1>0, <2>2 DEF StationInv, UsedUp
  <2>s. StepsLeft(me) \in 0 .. StepsLeft(queue[m]) - 1
    BY <1>0, <1>p, <2>2 DEF StationInv, StepsLeft
  <2> QED BY <2>2, <2>3, <2>s
<1>4. ASSUME NEW from, NEW to,
             <<from, to>> \in {<<"processing", "dead_letter">>, <<"dead_letter", "quarantine">>},
             Redrive(m, from, to)
      PROVE  \E me \in Messages :
                 /\ queue' = [queue EXCEPT ![m] = me] /\ StationInv(me)
                 /\ StepsLeft(me) \in 0 .. StepsLeft(queue[m]) - 1
                 /\ UsedUp(queue[m]) <= UsedUp(me) /\ attempts' = attempts
  <2>1. to \in {"dead_letter", "quarantine"}
    BY <1>4
  <2>2. PICK me \in Messages :
        /\ queue' = [queue EXCEPT ![m] = me] /\ me.run = "none" /\ me.place = to
        /\ me.receives = 0 /\ queue[m].place = from /\ queue[m].run = "none"
        /\ queue[m].receives = MaxReceives
    BY <1>4, <2>1, RedriveRecord
  <2>a. attempts' = attempts
    BY <1>4 DEF Redrive, life
  <2>3. StationInv(me) /\ UsedUp(queue[m]) <= UsedUp(me)
    BY <1>0, <1>4, <2>2 DEF StationInv, UsedUp
  <2>s. StepsLeft(me) \in 0 .. StepsLeft(queue[m]) - 1
    BY <1>0, <1>4, <1>p, <2>2 DEF StepsLeft
  <2> QED BY <2>2, <2>a, <2>3, <2>s
<1>5. CASE StartClaims(m)
  <2>2. PICK me \in Messages :
        /\ queue' = [queue EXCEPT ![m] = me] /\ me.run = "holding"
        /\ me.place = queue[m].place /\ me.receives = queue[m].receives
        /\ queue[m].run = "starting" /\ attempts' = attempts + 1
    BY <1>5, ClaimRecord DEF StartClaims, Claim
  <2>3. StationInv(me) /\ UsedUp(me) = UsedUp(queue[m]) + 1 /\ UsedUp(me) \in 1 .. MaxReceives
        /\ UsedUp(queue[m]) \in Int
    BY <1>0, <2>2 DEF StationInv, UsedUp
  <2>s. StepsLeft(me) \in 0 .. StepsLeft(queue[m]) - 1
    BY <1>0, <1>p, <2>2 DEF StationInv, StepsLeft
  <2>4. UsedUp(queue[m]) <= UsedUp(me)
    BY <2>3
  <2> QED BY <2>2, <2>3, <2>s, <2>4
<1>6. CASE Run(m) /\ ~StartClaims(m)
  <2>1. /\ attempts' = attempts /\ (queue' = Reported(m) \/ queue' = Acknowledged(m))
        /\ queue[m].run # "none"
    BY <1>6 DEF Run, StartEnds, FinishOwned, FinishLost, Reconcile, Crash,
                Succeed, Fail, Release, Die, life
  <2> QED BY <1>r, <1>a, <2>1
<1> QED BY <1>1, <1>2, <1>3, <1>4, <1>5, <1>6 DEF Queues

\* The invocation that a message is in fits its place.
LEMMA Stations == PipelineSpec => [](\A m \in Message : StationInv(queue[m]))
<1>1. PipelineInit => \A m \in Message : StationInv(queue[m])
  BY DEF PipelineInit, StationInv
<1>2. PipelineTypeOK /\ (\A m \in Message : StationInv(queue[m])) /\ [PipelineNext]_pipeline
        => (\A m \in Message : StationInv(queue[m]))'
  <2> SUFFICES ASSUME PipelineTypeOK, \A m \in Message : StationInv(queue[m]),
                      [PipelineNext]_pipeline
               PROVE  \A m \in Message : StationInv(queue'[m])
    OBVIOUS
  <2>1. ASSUME NEW m \in Message, Send(m) \/ Queues(m) \/ Run(m)
        PROVE  \A n \in Message : StationInv(queue'[n])
    <3>1. PICK me \in Messages : queue' = [queue EXCEPT ![m] = me] /\ StationInv(me)
      BY <2>1, RecordStep
    <3> QED BY <3>1, PipelineShape
  <2>2. CASE Tick
    BY <2>2, TickFrame DEF StationInv
  <2>3. CASE UNCHANGED pipeline
    BY <2>3 DEF pipeline
  <2> QED BY <2>1, <2>2, <2>3 DEF PipelineNext
<1> QED BY <1>1, <1>2, PipelineInvariance, PTL DEF PipelineSpec

\* Every step of a message but the clock's brings it nearer to its end: a
\* message makes at most 2 * (3 * MaxReceives + 1) steps after it was sent.
THEOREM StepsAreCounted == PipelineSpec => EveryStepIsProgress
<1> DEFINE Step == \A m \in Message :
             \/ StepsLeft(queue'[m]) \in 0 .. StepsLeft(queue[m]) - 1
             \/ queue'[m] = [queue[m] EXCEPT !.hidden = queue'[m].hidden,
                                             !.left = queue'[m].left]
<1>1. PipelineTypeOK /\ (\A m \in Message : StationInv(queue[m])) /\ [PipelineNext]_pipeline
        => [Step]_pipeline
  <2> SUFFICES ASSUME PipelineTypeOK, \A m \in Message : StationInv(queue[m]), PipelineNext
               PROVE  Step
    OBVIOUS
  <2>1. ASSUME NEW n \in Message, queue'[n] = queue[n]
        PROVE  queue'[n] = [queue[n] EXCEPT !.hidden = queue'[n].hidden,
                                           !.left = queue'[n].left]
    BY <2>1, PipelineShape DEF Messages
  <2>2. ASSUME NEW m \in Message, Send(m) \/ Queues(m) \/ Run(m) PROVE Step
    <3>1. PICK me \in Messages :
             /\ queue' = [queue EXCEPT ![m] = me]
             /\ StepsLeft(me) \in 0 .. StepsLeft(queue[m]) - 1
      BY <2>2, RecordStep
    <3>2. queue'[m] = me /\ \A n \in Message : n # m => queue'[n] = queue[n]
      BY <3>1, PipelineShape
    <3> QED BY <2>1, <3>1, <3>2
  <2>3. CASE Tick
    <3> SUFFICES ASSUME NEW n \in Message
                 PROVE  queue'[n] = [queue[n] EXCEPT !.hidden = queue'[n].hidden,
                                                    !.left = queue'[n].left]
      OBVIOUS
    <3>1. /\ queue'[n] = [queue[n] EXCEPT !.hidden = Lowered(queue[n].hidden),
                                          !.left = Lowered(queue[n].left)]
          /\ queue[n] \in Messages
      BY <2>3, PipelineShape DEF Tick
    <3> QED BY <3>1 DEF Messages
  <2> QED BY <2>2, <2>3 DEF PipelineNext
<1> QED BY <1>1, PipelineInvariance, Stations, PTL DEF PipelineSpec, EveryStepIsProgress

\* Every claim has used up a receive of the processing queue, whatever the
\* timeouts and however many invocations crash: the redrive policy bounds the
\* claims, hence the paid calls of the AI provider.
THEOREM ClaimsAreBounded ==
    IsFiniteSet(Message) => (PipelineSpec => []AttemptsAreBounded)
<1> SUFFICES ASSUME IsFiniteSet(Message) PROVE PipelineSpec => []AttemptsAreBounded
  OBVIOUS
<1>1. PipelineInit => CountInv
  <2> SUFFICES ASSUME PipelineInit PROVE CountInv
    OBVIOUS
  <2>1. attempts = 0
    BY DEF PipelineInit, LifeInit
  <2> QED BY <2>1, SpentIsFinite DEF CountInv
<1>2. /\ PipelineTypeOK /\ (\A m \in Message : StationInv(queue[m])) /\ CountInv
      /\ [PipelineNext]_pipeline
      => CountInv'
  <2> SUFFICES ASSUME PipelineTypeOK, \A m \in Message : StationInv(queue[m]), CountInv,
                      [PipelineNext]_pipeline
               PROVE  CountInv'
    OBVIOUS
  <2>0. /\ attempts \in Nat /\ attempts <= Cardinality(Spent(queue)) /\ MaxReceives \in Nat
        /\ \A m \in Message : StationInv(queue[m])
    BY PipelineAssumption DEF PipelineTypeOK, CountInv
  <2>1. ASSUME NEW me \in Messages PROVE UsedUp(me) \in Int
    BY <2>0, <2>1 DEF UsedUp, Messages
  <2>2. ASSUME NEW m \in Message, Send(m) \/ Queues(m) \/ Run(m) PROVE CountInv'
    <3>1. PICK me \in Messages :
             /\ queue' = [queue EXCEPT ![m] = me]
             /\ UsedUp(queue[m]) <= UsedUp(me)
             /\ \/ attempts' = attempts
                \/ /\ attempts' = attempts + 1 /\ UsedUp(me) = UsedUp(queue[m]) + 1
                   /\ UsedUp(me) \in 1 .. MaxReceives
      BY <2>0, <2>2, RecordStep
    <3>2. queue'[m] = me /\ \A n \in Message : n # m => queue'[n] = queue[n]
      BY <3>1, PipelineShape
    <3>4. \A n \in Message : UsedUp(queue[n]) \in Int /\ UsedUp(queue'[n]) \in Int
      BY <2>1, <3>2, PipelineShape
    <3>5. \A n \in Message : UsedUp(queue[n]) <= UsedUp(queue'[n])
      BY <3>1, <3>2, <3>4
    <3>6. attempts' <= Cardinality(Spent(queue'))
      BY <2>0, <3>1, <3>2, <3>4, <3>5, CountStep
    <3> QED BY <3>6 DEF CountInv
  <2>3. CASE Tick
    <3>1. \A n \in Message : UsedUp(queue'[n]) = UsedUp(queue[n])
      BY <2>3, TickFrame DEF UsedUp
    <3>2. Spent(queue') = Spent(queue)
      BY <3>1 DEF Spent
    <3>3. attempts' = attempts
      BY <2>3 DEF Tick, life
    <3> QED BY <2>0, <3>2, <3>3 DEF CountInv
  <2>4. CASE UNCHANGED pipeline
    BY <2>4 DEF pipeline, CountInv, Spent
  <2> QED BY <2>2, <2>3, <2>4 DEF PipelineNext
<1>3. CountInv /\ PipelineTypeOK => AttemptsAreBounded
  <2> SUFFICES ASSUME CountInv, PipelineTypeOK PROVE AttemptsAreBounded
    OBVIOUS
  <2>1. /\ attempts \in Nat /\ attempts <= Cardinality(Spent(queue))
        /\ Cardinality(Spent(queue)) \in Nat
        /\ Cardinality(Spent(queue)) <= MaxReceives * Cardinality(Message)
        /\ MaxReceives \in Nat /\ Cardinality(Message) \in Nat
    BY SpentIsFinite, FS_CardinalityType, PipelineAssumption DEF CountInv, PipelineTypeOK
  <2> QED BY <2>1 DEF AttemptsAreBounded
<1> QED BY <1>1, <1>2, <1>3, PipelineInvariance, Stations, PTL DEF PipelineSpec
---------------------------------------------------------------------------
(* The message of the last claim keeps the job until it is terminal. *)

\* A step that gives message m the new record me, and ends the job, or keeps
\* the message, or makes it the message of a new claim.
LEMMA KeeperFrame ==
    ASSUME PipelineTypeOK, KeeperInv, NEW m \in Message, NEW me \in Messages,
           queue' = [queue EXCEPT ![m] = me],
           owner' \in {0, attempts'},
           status' = "PROCESSING" => owner' # 0,
           status' = "ABSENT" => attempts' = 0,
           \/ Terminal'
           \/ attempts' = attempts /\ ~Terminal /\ (Keeps(m) => Keeps(m)')
           \/ Keeps(m)'
    PROVE  KeeperInv'
<1>1. queue'[m] = me /\ \A n \in Message : n # m => queue'[n] = queue[n]
  BY PipelineShape
<1>2. ASSUME attempts' >= 1, ~Terminal' PROVE \E n \in Message : Keeps(n)'
  <2>1. CASE Keeps(m)'
    BY <2>1
  <2>2. CASE attempts' = attempts /\ ~Terminal /\ (Keeps(m) => Keeps(m)')
    <3>1. PICK n \in Message : Keeps(n)
      BY <1>2, <2>2 DEF KeeperInv
    <3>2. n # m => Keeps(n)'
      BY <1>1, <2>2, <3>1 DEF Keeps
    <3> QED BY <2>2, <3>1, <3>2
  <2> QED BY <1>2, <2>1, <2>2
<1> QED BY <1>2 DEF KeeperInv

\* The queues move the message on, at most to its first reconciliation.
LEMMA KeeperQueueSteps ==
    ASSUME PipelineTypeOK, KeeperInv, NEW m \in Message, StationInv(queue[m]),
           Send(m) \/ Queues(m)
    PROVE  KeeperInv'
<1>0. /\ queue[m] \in Messages /\ MaxReceives \in Nat /\ MaxReceives >= 1
      /\ queue[m].receives \in 0 .. MaxReceives
      /\ Visibility \in Nat /\ DeadVisibility \in Nat /\ Timeout \in Nat
      /\ ReconcileTimeout \in Nat
  BY PipelineShape, PipelineAssumption
<1>l. UNCHANGED <<status, attempts, owner>>
  BY DEF Send, Queues, Deliver, DeliverDead, Redrive, life
<1>k. ASSUME NEW me \in Messages, queue' = [queue EXCEPT ![m] = me],
             Keeps(m) => Keeps(m)'
      PROVE  KeeperInv'
  <2>1. /\ owner' \in {0, attempts'} /\ (status' = "PROCESSING" => owner' # 0)
        /\ (status' = "ABSENT" => attempts' = 0) /\ (Terminal <=> Terminal')
    BY <1>l DEF KeeperInv, Terminal
  <2> QED BY <1>k, <1>l, <2>1, KeeperFrame
<1>1. CASE Send(m)
  <2>2. PICK me \in Messages :
        /\ queue' = [queue EXCEPT ![m] = me] /\ queue'[m] = me /\ queue[m].place = "unsent"
    BY <1>1, SendRecord
  <2>3. Keeps(m) => Keeps(m)'
    BY <2>2 DEF Keeps
  <2> QED BY <1>0, <1>k, <2>2, <2>3
<1>2. CASE Deliver(m)
  <2>2. PICK me \in Messages :
        /\ queue' = [queue EXCEPT ![m] = me] /\ queue'[m] = me /\ me.run = "starting"
        /\ me.place = "processing" /\ me.attempt = queue[m].attempt
    BY <1>2, DeliverRecord
  <2>3. Keeps(m) => Keeps(m)'
    BY <1>l, <2>2 DEF Keeps
  <2> QED BY <1>k, <2>2, <2>3
<1>3. CASE DeliverDead(m)
  <2>2. PICK me \in Messages :
        /\ queue' = [queue EXCEPT ![m] = me] /\ queue'[m] = me /\ me.run = "reconciling"
        /\ me.place = "dead_letter" /\ me.attempt = queue[m].attempt
    BY <1>3, DeliverDeadRecord
  <2>3. Keeps(m) => Keeps(m)'
    BY <1>l, <2>2 DEF Keeps
  <2> QED BY <1>k, <2>2, <2>3
<1>4. ASSUME NEW from, NEW to,
             <<from, to>> \in {<<"processing", "dead_letter">>, <<"dead_letter", "quarantine">>},
             Redrive(m, from, to)
      PROVE  KeeperInv'
  <2>1. to \in {"dead_letter", "quarantine"}
    BY <1>4
  <2>2. PICK me \in Messages :
        /\ queue' = [queue EXCEPT ![m] = me] /\ queue'[m] = me /\ me.run = "none"
        /\ me.place = to /\ me.receives = 0 /\ me.attempt = queue[m].attempt
        /\ queue[m].place = from /\ queue[m].run = "none" /\ queue[m].receives = MaxReceives
    BY <1>4, <2>1, RedriveRecord
  <2>3. Keeps(m) => Keeps(m)'
    BY <1>0, <1>4, <1>l, <2>2 DEF Keeps
  <2> QED BY <1>k, <2>2, <2>3
<1> QED BY <1>1, <1>2, <1>3, <1>4 DEF Queues

\* A claim makes its message the keeper; every other step of a processor
\* leaves the message in its queue, and the reconciliation of the keeper ends
\* the job.
LEMMA KeeperRunSteps ==
    ASSUME PipelineTypeOK, PipelineInv, KeeperInv, LeaseFits, ~ReconcilerCrashes,
           NEW m \in Message, StationInv(queue[m]), Run(m)
    PROVE  KeeperInv'
<1>0. /\ queue[m] \in Messages /\ attempts \in Nat /\ owner \in Nat /\ MessageInv(m)
      /\ queue[m].run \in {"starting", "holding"} => queue[m].place = "processing"
      /\ queue[m].run = "reconciling" => queue[m].place = "dead_letter"
      /\ owner \in {0, attempts} /\ (status = "PROCESSING" => owner # 0)
      /\ status = "ABSENT" => attempts = 0
  BY PipelineShape DEF PipelineTypeOK, PipelineInv, KeeperInv, StationInv
<1>r. ASSUME queue' = Reported(m),
             owner' \in {0, attempts'},
             status' = "PROCESSING" => owner' # 0,
             status' = "ABSENT" => attempts' = 0,
             Terminal' \/ (~Terminal /\ attempts' = attempts
                             /\ (queue[m].run # "reconciling" \/ ~Keeps(m)))
      PROVE  KeeperInv'
  <2>2. PICK me \in Messages :
        /\ queue' = [queue EXCEPT ![m] = me] /\ queue'[m] = me /\ me.run = "none"
        /\ me.place = queue[m].place /\ me.attempt = queue[m].attempt
        /\ me.receives = queue[m].receives
    BY <1>r, ReportedRecord
  <2>3. CASE Terminal'
    BY <1>r, <2>2, <2>3, KeeperFrame
  <2>4. CASE ~Terminal /\ attempts' = attempts /\ (queue[m].run # "reconciling" \/ ~Keeps(m))
    <3>1. Keeps(m) => Keeps(m)'
      BY <1>0, <2>2, <2>4, PipelineShape DEF Keeps
    <3> QED BY <1>r, <2>2, <2>4, <3>1, KeeperFrame
  <2> QED BY <1>r, <2>3, <2>4
<1>a. ASSUME queue' = Acknowledged(m), Terminal',
             owner' \in {0, attempts'}
      PROVE  KeeperInv'
  <2>2. PICK me \in Messages :
        queue' = [queue EXCEPT ![m] = me] /\ me.run = "none"
    BY <1>a, AcknowledgedRecord
  <2>3. status' # "PROCESSING" /\ status' # "ABSENT"
    BY <1>a DEF Terminal
  <2> QED BY <1>a, <2>2, <2>3, KeeperFrame
<1>1. CASE StartClaims(m)
  <2>2. PICK me \in Messages :
        /\ queue' = [queue EXCEPT ![m] = me] /\ queue'[m] = me /\ me.run = "holding"
        /\ me.place = "processing" /\ me.attempt = attempts + 1
    BY <1>0, <1>1, ClaimRecord
  <2>3. /\ status' = "PROCESSING" /\ attempts' = attempts + 1 /\ owner' = attempts + 1
        /\ attempts + 1 # 0
    BY <1>0, <1>1 DEF StartClaims, Claim, ThisAttempt
  <2>4. Keeps(m)' /\ owner' \in {0, attempts'} /\ owner' # 0
    BY <2>2, <2>3 DEF Keeps
  <2> QED BY <2>2, <2>3, <2>4, KeeperFrame
<1>2. CASE StartEnds(m)
  <2>1. /\ UNCHANGED <<status, attempts, owner>> /\ queue[m].run = "starting"
        /\ \/ queue' = Acknowledged(m) /\ Terminal
           \/ queue' = Reported(m) /\ ~Terminal
    BY <1>2 DEF StartEnds, Terminal, life
  <2> QED BY <1>0, <1>r, <1>a, <2>1 DEF Terminal
<1>3. CASE FinishOwned(m)
  <2>1. /\ status = "PROCESSING" /\ attempts' = attempts /\ owner' = 0
        /\ queue[m].run = "holding"
        /\ \/ queue' = Acknowledged(m) /\ Terminal'
           \/ queue' = Reported(m) /\ (Terminal' \/ status' = "PENDING_UPLOAD")
    BY <1>3 DEF FinishOwned, Succeed, Fail, Release, Terminal
  <2>2. ~Terminal /\ (Terminal' => status' # "PROCESSING" /\ status' # "ABSENT")
    BY <2>1 DEF Terminal
  <2> QED BY <1>r, <1>a, <2>1, <2>2
<1>4. CASE FinishLost(m) \/ Crash(m)
  <2>1. /\ UNCHANGED <<status, attempts, owner>> /\ queue[m].run \in {"starting", "holding"}
        /\ queue' = Reported(m)
    BY <1>4 DEF FinishLost, Crash, life
  <2>2. Terminal' <=> Terminal
    BY <2>1 DEF Terminal
  <2> QED BY <1>0, <1>r, <2>1, <2>2
<1>5. CASE Reconcile(m)
  <2>1. CASE /\ status = "ABSENT" \/ (status = "PENDING_UPLOAD" /\ attempts < 1)
                \/ (status = "PROCESSING" /\ lease > 0)
             /\ queue' = Reported(m) /\ UNCHANGED <<status, attempts, owner>>
    <3>1. CASE status = "PROCESSING" /\ lease > 0
      <4>1. owner = attempts /\ owner # 0 /\ queue[m].run = "reconciling"
        BY <1>0, <1>5, <3>1 DEF Reconcile
      <4>2. queue[m].attempt # owner
        <5> SUFFICES ASSUME queue[m].attempt = owner PROVE FALSE
          OBVIOUS
        <5>1. lease = 0
          BY <1>0, <4>1 DEF MessageInv
        <5> QED BY <3>1, <5>1
      <4>3. ~Keeps(m) /\ ~Terminal
        BY <3>1, <4>1, <4>2 DEF Keeps, Terminal
      <4> QED BY <1>0, <1>r, <2>1, <4>3
    <3>2. CASE attempts = 0 /\ status \in {"ABSENT", "PENDING_UPLOAD"}
      BY <2>1, <3>2 DEF KeeperInv
    <3> QED BY <1>0, <2>1, <3>1, <3>2
  <2>2. CASE Die /\ (queue' = Acknowledged(m) \/ queue' = Reported(m))
    <3>1. Terminal' /\ status' = "DEAD" /\ owner' = 0
      BY <2>2 DEF Die, Terminal
    <3> QED BY <1>r, <1>a, <2>2, <3>1
  <2>3. CASE Terminal /\ queue' = Acknowledged(m) /\ UNCHANGED <<status, attempts, owner>>
    <3>1. Terminal' /\ owner' \in {0, attempts'}
      BY <1>0, <2>3 DEF Terminal
    <3> QED BY <1>a, <2>3, <3>1
  <2> QED BY <1>5, <2>1, <2>2, <2>3 DEF Reconcile, life
<1> QED BY <1>1, <1>2, <1>3, <1>4, <1>5 DEF Run

\* A job that was claimed and is not terminal has a message that is still to
\* be processed or reconciled, if the visibility timeout covers the Lambda
\* timeout and a lease, and the dead-letter Lambda does not fail.
THEOREM WorkKeepsItsMessage ==
    LeaseFits /\ ~ReconcilerCrashes => (PipelineSpec => []UnfinishedJobKeepsAMessage)
<1> SUFFICES ASSUME LeaseFits, ~ReconcilerCrashes
             PROVE  PipelineSpec => []UnfinishedJobKeepsAMessage
  OBVIOUS
<1>1. PipelineInit => KeeperInv
  BY DEF PipelineInit, LifeInit, KeeperInv
<1>2. /\ PipelineTypeOK /\ PipelineInv /\ (\A m \in Message : StationInv(queue[m]))
      /\ KeeperInv /\ [PipelineNext]_pipeline
      => KeeperInv'
  <2> SUFFICES ASSUME PipelineTypeOK, PipelineInv, \A m \in Message : StationInv(queue[m]),
                      KeeperInv, [PipelineNext]_pipeline
               PROVE  KeeperInv'
    OBVIOUS
  <2>1. CASE Tick
    <3>1. UNCHANGED <<status, attempts, owner>>
      BY <2>1 DEF Tick, life
    <3>2. \A n \in Message : Keeps(n) => Keeps(n)'
      BY <2>1, <3>1, TickFrame DEF Keeps
    <3> QED BY <3>1, <3>2 DEF KeeperInv, Terminal
  <2>2. CASE UNCHANGED pipeline
    BY <2>2 DEF pipeline, KeeperInv, Keeps, Terminal
  <2> QED BY <2>1, <2>2, KeeperQueueSteps, KeeperRunSteps DEF PipelineNext
<1>3. KeeperInv => UnfinishedJobKeepsAMessage
  BY DEF KeeperInv, Keeps, UnfinishedJobKeepsAMessage
<1> QED BY <1>1, <1>2, <1>3, PipelineInvariance, Stations, PTL DEF PipelineSpec
---------------------------------------------------------------------------
(* The abstract specification *)

\* Under the queues a job lives its lifecycle, and the claims that the redrive
\* policies allow are all the attempts it needs: identifiers for as many are
\* enough, however the deliveries interleave.
THEOREM PipelineImplementsLifecycle ==
    IsFiniteSet(Message) /\ 1 .. MaxReceives * Cardinality(Message) \subseteq Attempt
        => (PipelineSpec => LifeSpec)
<1> SUFFICES ASSUME IsFiniteSet(Message),
                    1 .. MaxReceives * Cardinality(Message) \subseteq Attempt
             PROVE  PipelineSpec => LifeSpec
  OBVIOUS
<1>1. PipelineInit => LifeInit
  BY DEF PipelineInit
<1>2. PipelineTypeOK /\ AttemptsAreBounded' /\ [PipelineNext]_pipeline => [LifeNext]_life
  <2> SUFFICES ASSUME PipelineTypeOK, AttemptsAreBounded', [PipelineNext]_pipeline,
                      ~UNCHANGED life
               PROVE  LifeNext
    BY DEF life
  <2>1. PICK m \in Message : StartClaims(m) \/ FinishOwned(m) \/ Reconcile(m)
    BY DEF PipelineNext, pipeline, life, Send, Queues, Deliver, DeliverDead, Redrive,
           Run, StartEnds, FinishLost, Crash, Tick
  <2>2. CASE StartClaims(m)
    <3>1. /\ Claim(ThisAttempt) /\ attempts' = ThisAttempt
          /\ attempts' <= MaxReceives * Cardinality(Message) /\ attempts \in Nat
      BY <2>2 DEF StartClaims, Claim, ThisAttempt, AttemptsAreBounded, PipelineTypeOK
    <3>2. MaxReceives * Cardinality(Message) \in Nat
      BY PipelineAssumption, FS_CardinalityType
    <3>3. ThisAttempt \in Attempt
      <4>1. ThisAttempt \in 1 .. MaxReceives * Cardinality(Message)
        BY <3>1, <3>2 DEF ThisAttempt
      <4> QED BY <4>1
    <3> QED BY <3>1, <3>3 DEF LifeNext
  <2>3. CASE FinishOwned(m)
    BY <2>3 DEF FinishOwned, LifeNext
  <2>4. CASE Reconcile(m)
    BY <2>4 DEF Reconcile, LifeNext, life
  <2> QED BY <2>1, <2>2, <2>3, <2>4
<1> QED BY <1>1, <1>2, PipelineInvariance, ClaimsAreBounded, PTL
        DEF PipelineSpec, LifeSpec
============================================================================
