------------------------- MODULE Deployment_proofs -------------------------
(***************************************************************************)
(* Proofs about Deployment, for any resources, values, commits and plan    *)
(* runs: what attestations tell apart, types, an inductive invariant of    *)
(* the deployment, and from it the four properties of the module.          *)
(***************************************************************************)
EXTENDS Deployment, TLAPS

---------------------------------------------------------------------------
(* Attestations *)

\* Actions are normalised, replacements to one.
LEMMA ActionOfKind ==
    \A k \in Kinds \ {"unlisted"} : Action(k) = IF k = "recreate" THEN "replace" ELSE k
<1>1. \A a \in ActionOrder \ {"replace"} : SupportedActions[<<a>>] = a
  BY DEF SupportedActions
<1>2. SupportedActions[<<"delete", "create">>] = "replace"
  BY DEF SupportedActions
<1> QED BY <1>1, <1>2 DEF Action, PlannedActions, Kinds, ChangeKinds, ActionOrder

\* The actions and the reason of a resource determine what becomes of it.
LEMMA ActionAndReason ==
    ASSUME NEW k \in Kinds \ {"unlisted"}, NEW l \in Kinds \ {"unlisted"},
           Action(k) = Action(l), Reason(k) = Reason(l)
    PROVE  k = l
  BY ActionOfKind DEF Reason, Kinds, ChangeKinds

\* Two plans with the same attestation make the same of every resource, if no
\* two resources share a sanitized address (compare_deployment_attestations).
THEOREM AttestationsDetermineChanges ==
    AddressesAreDistinct =>
        \A c, d \in ChangeSets : Matches(c, d) => c = d
<1> SUFFICES ASSUME AddressesAreDistinct, NEW c \in ChangeSets, NEW d \in ChangeSets,
                    ResourceChanges(c) = ResourceChanges(d)
             PROVE  c = d
  BY DEF Matches, Attestation
<1>1. {Attested(r, c[r]) : r \in Listed(c)} = {Attested(r, d[r]) : r \in Listed(d)}
  BY DEF ResourceChanges
<1>2. ASSUME NEW e \in ChangeSets, NEW f \in ChangeSets,
             {Attested(r, e[r]) : r \in Listed(e)} \subseteq {Attested(r, f[r]) : r \in Listed(f)},
             NEW r \in Listed(e)
      PROVE  e[r] = f[r]
  <2>1. PICK s \in Listed(f) : Attested(r, e[r]) = Attested(s, f[s])
    BY <1>2
  <2>2. /\ Address[r] = Address[s] /\ Action(e[r]) = Action(f[s])
        /\ Reason(e[r]) = Reason(f[s])
    BY <2>1 DEF Attested
  <2>3. r = s
    BY <1>2, <2>2 DEF AddressesAreDistinct, Listed
  <2> QED BY <1>2, <2>2, <2>3, ActionAndReason DEF Listed, ChangeSets
<1>3. ASSUME NEW r \in Resource PROVE c[r] = d[r]
  <2>1. CASE r \in Listed(c)
    BY <1>1, <1>2, <2>1
  <2>2. CASE r \in Listed(d)
    BY <1>1, <1>2, <2>2
  <2>3. CASE r \notin Listed(c) /\ r \notin Listed(d)
    BY <2>3 DEF Listed
  <2> QED BY <2>1, <2>2, <2>3
<1> QED BY <1>3 DEF ChangeSets

\* Sanitized or not, the flags say what the plans do.
LEMMA FlagsAreRight ==
    ASSUME NEW c \in ChangeSets
    PROVE  /\ NoChanges(c) <=> Changed(c) = {}
           /\ Destructive(c) <=>
                \E r \in Resource : c[r] \in {"delete", "replace", "recreate"}
<1>2. \A r \in Resource : c[r] \in Kinds
  BY DEF ChangeSets
<1>3. NoChanges(c) <=> Changed(c) = {}
  BY <1>2, ActionOfKind DEF NoChanges, Has, Listed, Changed, Kinds, ChangeKinds
<1>4. Destructive(c) <=> \E r \in Resource : c[r] \in {"delete", "replace", "recreate"}
  BY <1>2, ActionOfKind DEF Destructive, Has, Listed, Kinds, ChangeKinds
<1> QED BY <1>3, <1>4

---------------------------------------------------------------------------
(* Change sets *)

LEMMA KindOfIsKind ==
    ASSUME NEW old, NEW new PROVE KindOf(old, new) \in Kinds
  BY DEF KindOf, Kinds, ChangeKinds

\* What a plan wants to change is what differs.
LEMMA KindOfDifference ==
    ASSUME NEW old, NEW new PROVE KindOf(old, new) \in ChangeKinds <=> old # new
  BY DEF KindOf, ChangeKinds

\* Nothing but a deletion makes a resource absent.
LEMMA KindOfAbsence ==
    ASSUME NEW old PROVE KindOf(old, Absent) \in {"unlisted", "delete"}
  BY DEF KindOf

\* Only what is absent is created.
LEMMA KindOfCreation ==
    ASSUME NEW old, NEW new, KindOf(old, new) = "create" PROVE old = Absent
  BY DEF KindOf

LEMMA ConstantTypes ==
    /\ \A c \in Commits, r \in Resource :
         /\ Config[c][r] \in Value \union {Absent}
         /\ Config[c][r] # Tainted
    /\ \A c \in Commits : Output[c] \in Value
    /\ 1 \in Commits
    /\ Absent # Tainted /\ Absent \notin Value /\ Tainted \notin Value
<1>1. Absent # Tainted /\ Absent \notin Value /\ Tainted \notin Value
  BY DeploymentAssumption DEF Absent, Tainted
<1>2. 1 \in Commits
  BY DeploymentAssumption DEF Commits
<1> QED BY <1>1, <1>2, DeploymentAssumption

LEMMA ChangeSetType ==
    /\ \A c \in Commits : ChangeSet(c) \in ChangeSets /\ NewPlan(c) \in Plans
    /\ NoChangeSet \in ChangeSets /\ NoPlan \in Plans
<1>1. \A c \in Commits : ChangeSet(c) \in ChangeSets
  BY KindOfIsKind DEF ChangeSet, ChangeSets
<1>2. NoChangeSet \in ChangeSets
  BY DEF NoChangeSet, ChangeSets, Kinds
<1> QED BY <1>1, <1>2, ConstantTypes DEF NewPlan, NoPlan, Plans

---------------------------------------------------------------------------
(* Types *)

LEMMA InitTypes == DeploymentInit => DeploymentTypeOK
<1> SUFFICES ASSUME DeploymentInit PROVE DeploymentTypeOK
  OBVIOUS
<1>1. runs \in [Run -> Runs] /\ main \in Commits
  BY ChangeSetType, ConstantTypes DEF DeploymentInit, Runs
<1>2. plan \in [Actors -> Plans] /\ done \in [Run -> SUBSET Resource]
  BY ChangeSetType DEF DeploymentInit
<1>3. infra \in [Resource -> Value \union {Absent, Tainted}]
  BY DEF DeploymentInit
<1> QED BY <1>1, <1>2, <1>3 DEF DeploymentInit, DeploymentTypeOK

\* What an apply leaves of the plans.
LEMMA OutdatesType ==
    ASSUME plan \in [Actors -> Plans], Outdates PROVE plan' \in [Actors -> Plans]
  BY ChangeSetType DEF Outdates, Actors, Plans

LEMMA EndsDeployTypes ==
    ASSUME DeploymentTypeOK, EndsDeploy,
           \/ UNCHANGED applyVars /\ applier # "deploy"
           \/ applier' = "nobody" /\ left' = {} /\ failed' = FALSE
    PROVE  DeploymentTypeOK'
  BY ChangeSetType DEF DeploymentTypeOK, EndsDeploy, applyVars, reviewVars, Actors

LEMMA NextTypes ==
    ASSUME DeploymentTypeOK, [DeploymentNext]_vars PROVE DeploymentTypeOK'
<1> USE DEF reviewVars, deployVars, applyVars, infraVars
<1>1. CASE UNCHANGED vars
  BY <1>1 DEF vars, DeploymentTypeOK
<1>2. CASE Merge
  <2>1. main' \in Commits
    BY <1>2, DeploymentAssumption DEF Merge, DeploymentTypeOK, Commits
  <2> QED BY <1>2, <2>1 DEF Merge, DeploymentTypeOK
<1>3. ASSUME NEW p \in Run, DispatchPlan(p) PROVE DeploymentTypeOK'
  <2>1. runs' = [runs EXCEPT ![p] = [runs[p] EXCEPT !.status = "running",
                                                   !.commit = main]]
    BY <1>3 DEF DispatchPlan
  <2>2. runs' \in [Run -> Runs]
    BY <2>1 DEF DeploymentTypeOK, Runs
  <2> QED BY <1>3, <2>2 DEF DispatchPlan, DeploymentTypeOK
<1>4. ASSUME NEW p \in Run, AttestPlan(p) PROVE DeploymentTypeOK'
  <2>1. ChangeSet(runs[p].commit) \in ChangeSets
    BY ChangeSetType DEF DeploymentTypeOK, Runs
  <2>2. runs' = [runs EXCEPT ![p] = [runs[p] EXCEPT !.status = "success",
                                                   !.changes = ChangeSet(runs[p].commit)]]
    BY <1>4 DEF AttestPlan
  <2>3. runs' \in [Run -> Runs]
    BY <2>1, <2>2 DEF DeploymentTypeOK, Runs
  <2> QED BY <1>4, <2>3 DEF AttestPlan, DeploymentTypeOK
<1>5. ASSUME NEW p \in Run, FailPlan(p) PROVE DeploymentTypeOK'
  <2>1. runs' = [runs EXCEPT ![p] = [runs[p] EXCEPT !.status = "failed"]]
    BY <1>5 DEF FailPlan
  <2>2. runs' \in [Run -> Runs]
    BY <2>1 DEF DeploymentTypeOK, Runs
  <2> QED BY <1>5, <2>2 DEF FailPlan, DeploymentTypeOK
<1>6. ASSUME NEW p \in Run, ExpirePlan(p) PROVE DeploymentTypeOK'
  <2>1. runs' = [runs EXCEPT ![p] = [runs[p] EXCEPT !.old = TRUE]]
    BY <1>6 DEF ExpirePlan
  <2>2. runs' \in [Run -> Runs]
    BY <2>1 DEF DeploymentTypeOK, Runs
  <2> QED BY <1>6, <2>2 DEF ExpirePlan, DeploymentTypeOK
<1>7. ASSUME NEW p \in Run, NEW allow \in BOOLEAN, DispatchDeploy(p, allow)
      PROVE  DeploymentTypeOK'
  <2>1. PICK c \in {main, runs[p].commit} :
            running' = {[run |-> p, commit |-> c, allow |-> allow]}
    BY <1>7 DEF DispatchDeploy
  <2>2. running' \subseteq Requests
    BY <2>1 DEF DeploymentTypeOK, Requests, Runs
  <2> QED BY <1>7, <2>1, <2>2 DEF DispatchDeploy, DeploymentTypeOK
<1>8. CASE AcceptRequest
  BY <1>8 DEF AcceptRequest, DeploymentTypeOK
<1>9. CASE Regenerate
  <2>1. plan' \in [Actors -> Plans]
    BY <1>9, ChangeSetType DEF Regenerate, DeploymentTypeOK, Requests, Actors
  <2> QED BY <1>9, <2>1 DEF Regenerate, DeploymentTypeOK
<1>10. CASE FinishNoOp
  BY <1>10, EndsDeployTypes DEF FinishNoOp, DeploymentTypeOK
<1>11. CASE BeginApply
  BY <1>11 DEF BeginApply, TakesLock, DeploymentTypeOK, Changed, Actors
<1>12. CASE Converged
  BY <1>12, EndsDeployTypes DEF Converged, DeploymentTypeOK
<1>21. CASE CheckConvergence
  BY <1>21 DEF CheckConvergence, DeploymentTypeOK
<1>13. CASE FailDeploy
  BY <1>13, EndsDeployTypes DEF FailDeploy
<1>14. ASSUME NEW c \in Commits, ShellPlan(c) PROVE DeploymentTypeOK'
  <2>1. plan' \in [Actors -> Plans]
    BY <1>14, ChangeSetType DEF ShellPlan, DeploymentTypeOK, Actors
  <2> QED BY <1>14, <2>1 DEF ShellPlan, DeploymentTypeOK
<1>15. CASE ShellApply
  BY <1>15 DEF ShellApply, TakesLock, DeploymentTypeOK, Changed, Actors
<1>16. ASSUME NEW r \in Resource, CompleteChange(r) PROVE DeploymentTypeOK'
  <2>1. plan[applier] \in Plans
    BY <1>16 DEF CompleteChange, DeploymentTypeOK
  <2>2. infra' \in [Resource -> Value \union {Absent, Tainted}]
    BY <1>16, <2>1, ConstantTypes DEF CompleteChange, DeploymentTypeOK, Plans
  <2>3. plan' \in [Actors -> Plans]
    BY <1>16, OutdatesType DEF CompleteChange, DeploymentTypeOK
  <2>4. done' \in [Run -> SUBSET Resource]
    BY <1>16 DEF CompleteChange, DeploymentTypeOK
  <2>5. left' \subseteq left
    BY <1>16 DEF CompleteChange
  <2> QED BY <1>16, <2>2, <2>3, <2>4, <2>5 DEF CompleteChange, DeploymentTypeOK
<1>17. ASSUME NEW r \in Resource, FailChange(r) PROVE DeploymentTypeOK'
  <2>1. Remains(plan[applier].changes[r], infra[r]) \subseteq Value \union {Absent, Tainted}
    BY DEF Remains, DeploymentTypeOK
  <2>2. infra' \in [Resource -> Value \union {Absent, Tainted}]
    BY <1>17, <2>1 DEF FailChange, DeploymentTypeOK
  <2>3. plan' \in [Actors -> Plans]
    BY <1>17, OutdatesType DEF FailChange, DeploymentTypeOK
  <2>4. done' \in [Run -> SUBSET Resource]
    BY <1>17 DEF FailChange, DeploymentTypeOK
  <2>5. left' \subseteq left
    BY <1>17 DEF FailChange
  <2> QED BY <1>17, <2>2, <2>3, <2>4, <2>5 DEF FailChange, DeploymentTypeOK
<1>18. ASSUME NEW r \in Resource, Drift(r) PROVE DeploymentTypeOK'
  <2>1. infra' \in [Resource -> Value \union {Absent, Tainted}]
    BY <1>18 DEF Drift, DeploymentTypeOK
  <2>2. done' \in [Run -> SUBSET Resource]
    BY <1>18 DEF Drift, DeploymentTypeOK
  <2> QED BY <1>18, <2>1, <2>2 DEF Drift, DeploymentTypeOK
<1>19. CASE EndApply
  <2>1. plan[applier] \in Plans
    BY <1>19 DEF EndApply, DeploymentTypeOK
  <2>2. output' \in Value \union {Absent}
    BY <1>19, <2>1, ConstantTypes DEF EndApply, Plans
  <2>3. plan' \in [Actors -> Plans]
    BY <1>19, ChangeSetType DEF EndApply, DeploymentTypeOK, Actors, Plans
  <2> QED BY <1>19, <2>2, <2>3 DEF EndApply, DeploymentTypeOK
<1>20. CASE FailShellApply
  BY <1>20 DEF FailShellApply, DeploymentTypeOK
<1> QED BY <1>1, <1>2, <1>3, <1>4, <1>5, <1>6, <1>7, <1>8, <1>9, <1>10, <1>11, <1>12,
           <1>13, <1>14, <1>15, <1>16, <1>17, <1>18, <1>19, <1>20,
           <1>21
        DEF DeploymentNext, WorkflowStep

\* The deployment keeps its types; the concurrency group admits one deployment,
\* and the lock is the deployment's exactly while it applies.
THEOREM DeploymentTypes == DeploymentSpec => []DeploymentTypeOK
  BY InitTypes, NextTypes, PTL DEF DeploymentSpec

---------------------------------------------------------------------------
(* The inductive invariant *)

\* A request that was accepted names a successful plan run of its own commit,
\* and allows what that run wants to destroy.
Approved ==
    step \notin {"idle", "validate"} =>
        \A q \in running :
            /\ runs[q.run].status = "success"
            /\ runs[q.run].commit = q.commit
            /\ Destructive(runs[q.run].changes) => q.allow

\* What a plan run has done was in its change set, and is as its commit wants.
DoneIsInPlace ==
    \A p \in Run : \A r \in done[p] :
        /\ runs[p].status = "success"
        /\ AddressesAreDistinct => runs[p].changes[r] \in ChangeKinds
        /\ infra[r] = Config[runs[p].commit][r]

\* The deployment's plan is of its own commit.
PlanIsOwn ==
    step \in {"compare", "apply"} =>
        \A q \in running :
            /\ plan["deploy"].commit = q.commit
            /\ \A r \in Resource :
                 Config[q.commit][r] = Absent =>
                    plan["deploy"].changes[r] \in {"unlisted", "delete"}

\* Until it is applied the plan does nothing that its plan run has done
\* already, it creates only what is absent unless the state was written since,
\* and it describes the infrastructure unless somebody changed that.
PlanIsFresh ==
    step = "compare" =>
        \A q \in running :
            /\ \A r \in done[q.run] : plan["deploy"].changes[r] \notin ChangeKinds
            /\ ~plan["deploy"].stale =>
                 \A r \in Resource :
                    plan["deploy"].changes[r] = "create" => infra[r] = Absent
            /\ ~drifted => plan["deploy"].changes = ChangeSet(q.commit)

\* The plan that is applied says what was reviewed, if addresses tell resources
\* apart, and what is left of it is still to be done.
ApplyIsReviewed ==
    step = "apply" =>
        \A q \in running :
            /\ AddressesAreDistinct => plan["deploy"].changes = runs[q.run].changes
            /\ Destructive(plan["deploy"].changes) = Destructive(runs[q.run].changes)
            /\ left \subseteq Changed(plan["deploy"].changes)
            /\ \A r \in left :
                 plan["deploy"].changes[r] = "create" => infra[r] = Absent

\* When the plan after the apply found nothing, there is nothing to change,
\* unless somebody changed something since that plan.
VerdictIsFresh ==
    step = "verdict" /\ ~remaining /\ ~drifted =>
        \A q \in running : ~HasChanges(q.commit)

DeployInv ==
    /\ DeploymentTypeOK
    /\ Approved
    /\ DoneIsInPlace
    /\ PlanIsOwn
    /\ PlanIsFresh
    /\ ApplyIsReviewed
    /\ VerdictIsFresh

---------------------------------------------------------------------------
(* What a step may do *)

\* The attestation of a successful plan run never changes.
LEMMA AttestationsStay ==
    ASSUME DeploymentTypeOK, [DeploymentNext]_vars,
           NEW p \in Run, runs[p].status = "success"
    PROVE  /\ runs'[p].status = "success"
           /\ runs'[p].commit = runs[p].commit
           /\ runs'[p].changes = runs[p].changes
<1> USE DEF reviewVars
<1>1. CASE UNCHANGED runs
  BY <1>1
<1>2. ASSUME NEW q \in Run, DispatchPlan(q) \/ AttestPlan(q) \/ FailPlan(q)
      PROVE  runs'[p] = runs[p]
  BY <1>2 DEF DispatchPlan, AttestPlan, FailPlan, DeploymentTypeOK
<1>3. ASSUME NEW q \in Run, ExpirePlan(q)
      PROVE  /\ runs'[p].status = "success"
             /\ runs'[p].commit = runs[p].commit
             /\ runs'[p].changes = runs[p].changes
  <2>1. runs' = [runs EXCEPT ![q] = [runs[q] EXCEPT !.old = TRUE]]
    BY <1>3 DEF ExpirePlan
  <2> QED BY <2>1 DEF DeploymentTypeOK, Runs
<1> QED BY <1>1, <1>2, <1>3
        DEF DeploymentNext, WorkflowStep, vars, Merge, DispatchDeploy, AcceptRequest,
            Regenerate, FinishNoOp, BeginApply, CheckConvergence, Converged,
            FailDeploy, EndsDeploy, ShellPlan, ShellApply, CompleteChange, FailChange, EndApply,
            FailShellApply, Drift

\* A deployment past its validation keeps its request, and got there by
\* AcceptRequest.
LEMMA RequestStays ==
    ASSUME DeploymentTypeOK, [DeploymentNext]_vars,
           step' \notin {"idle", "validate"}
    PROVE  /\ running' = running
           /\ step \in {"idle", "validate"} => AcceptRequest
<1> USE DEF deployVars
<1>1. CASE UNCHANGED deployVars
  BY <1>1
<1>2. CASE AcceptRequest
  BY <1>2 DEF AcceptRequest
<1>3. CASE Regenerate \/ BeginApply \/ CheckConvergence
  BY <1>3 DEF Regenerate, BeginApply, CheckConvergence
<1>4. CASE FinishNoOp \/ Converged \/ FailDeploy
  BY <1>4 DEF FinishNoOp, Converged, FailDeploy, EndsDeploy
<1>5. CASE EndApply
  BY <1>5 DEF EndApply, DeploymentTypeOK
<1>6. ASSUME NEW p \in Run, NEW allow \in BOOLEAN, DispatchDeploy(p, allow) PROVE FALSE
  BY <1>6 DEF DispatchDeploy
<1> QED BY <1>1, <1>2, <1>3, <1>4, <1>5, <1>6
        DEF DeploymentNext, WorkflowStep, vars, Merge, DispatchPlan, AttestPlan,
            FailPlan, ExpirePlan, ShellPlan, ShellApply, CompleteChange, FailChange,
            FailShellApply, Drift

\* A change is done because it was and nobody touched its resource, or because
\* the apply of its deployment completes it.
LEMMA DoneGrows ==
    ASSUME DeploymentTypeOK, [DeploymentNext]_vars,
           NEW p \in Run, NEW r \in done'[p]
    PROVE  \/ r \in done[p] /\ infra'[r] = infra[r]
           \/ /\ CompleteChange(r) /\ applier = "deploy"
              /\ \E q \in running : q.run = p
<1> USE DEF infraVars
<1>1. CASE UNCHANGED <<infra, done>>
  BY <1>1
<1>2. ASSUME NEW i \in Resource, FailChange(i) \/ Drift(i)
      PROVE  r \in done[p] /\ infra'[r] = infra[r]
  <2>1. r \in done[p] /\ r # i
    BY <1>2 DEF FailChange, Drift, DeploymentTypeOK
  <2>2. r \in Resource
    BY <2>1 DEF DeploymentTypeOK
  <2> QED BY <1>2, <2>1, <2>2 DEF FailChange, Drift, DeploymentTypeOK
<1>3. ASSUME NEW i \in Resource, CompleteChange(i)
      PROVE  \/ r \in done[p] /\ infra'[r] = infra[r]
             \/ /\ CompleteChange(r) /\ applier = "deploy"
                /\ \E q \in running : q.run = p
  <2>1. CASE r = i
    BY <1>3, <2>1 DEF CompleteChange, DeploymentTypeOK
  <2>2. CASE r # i
    <3>1. r \in done[p]
      BY <1>3, <2>2 DEF CompleteChange, DeploymentTypeOK
    <3>2. r \in Resource
      BY <3>1 DEF DeploymentTypeOK
    <3> QED BY <1>3, <2>2, <3>1, <3>2 DEF CompleteChange, DeploymentTypeOK
  <2> QED BY <2>1, <2>2
<1> QED BY <1>1, <1>2, <1>3
        DEF DeploymentNext, WorkflowStep, vars, Merge, DispatchPlan, AttestPlan,
            FailPlan, ExpirePlan, DispatchDeploy, AcceptRequest, Regenerate,
            FinishNoOp, BeginApply, CheckConvergence, Converged, FailDeploy,
            EndsDeploy, ShellPlan,
            ShellApply, EndApply, FailShellApply

\* The deployment's plan is made by Regenerate and stays what it is until it is
\* applied, but for becoming stale.
LEMMA DeployPlanStays ==
    ASSUME DeploymentTypeOK, [DeploymentNext]_vars, step' \in {"compare", "apply"}
    PROVE  \/ Regenerate
           \/ /\ step \in {"compare", "apply"}
              /\ step' = step \/ BeginApply
              /\ plan'["deploy"].commit = plan["deploy"].commit
              /\ plan'["deploy"].changes = plan["deploy"].changes
              /\ plan["deploy"].stale => plan'["deploy"].stale
<1> USE DEF deployVars
<1>1. CASE UNCHANGED <<plan, step>>
  BY <1>1
<1>2. CASE BeginApply
  BY <1>2 DEF BeginApply
<1>3. CASE UNCHANGED step /\ Outdates
  BY <1>3 DEF Outdates, DeploymentTypeOK, Actors, Plans
<1>4. ASSUME NEW c \in Commits, ShellPlan(c)
      PROVE  plan'["deploy"] = plan["deploy"] /\ step' = step
  BY <1>4 DEF ShellPlan, DeploymentTypeOK, Actors
<1>5. CASE EndApply
  <2>1. plan'["deploy"] = [plan["deploy"] EXCEPT !.stale = TRUE] /\ step' = step
    BY <1>5 DEF EndApply, DeploymentTypeOK, Actors
  <2> QED BY <2>1 DEF DeploymentTypeOK, Actors, Plans
<1>6. ASSUME NEW r \in Resource, CompleteChange(r) \/ FailChange(r)
      PROVE  UNCHANGED step /\ (UNCHANGED plan \/ Outdates)
  BY <1>6 DEF CompleteChange, FailChange
<1>7. CASE AcceptRequest \/ FinishNoOp \/ CheckConvergence \/ Converged \/ FailDeploy
  BY <1>7 DEF AcceptRequest, FinishNoOp, CheckConvergence, Converged, FailDeploy,
              EndsDeploy
<1>8. ASSUME NEW p \in Run, NEW allow \in BOOLEAN, DispatchDeploy(p, allow) PROVE FALSE
  BY <1>8 DEF DispatchDeploy
<1> QED BY <1>1, <1>2, <1>3, <1>4, <1>5, <1>6, <1>7, <1>8
        DEF DeploymentNext, WorkflowStep, vars, Merge, DispatchPlan, AttestPlan,
            FailPlan, ExpirePlan, ShellApply, FailShellApply, Drift

\* While a deployment compares, whoever changes the infrastructure either writes
\* the state, and the deployment's plan is stale, or does so by hand; either
\* way it is recorded.
LEMMA CompareSteps ==
    ASSUME DeploymentTypeOK, [DeploymentNext]_vars,
           step = "compare", step' = "compare"
    PROVE  \/ infra' = infra /\ (drifted => drifted')
           \/ drifted' /\ plan'["deploy"].stale
           \/ drifted' /\ \E i \in Resource : Drift(i)
<1>0. applier # "deploy"
  BY DEF DeploymentTypeOK
<1>1. CASE UNCHANGED <<infra, drifted>>
  BY <1>1
<1>2. ASSUME Outdates PROVE plan'["deploy"].stale
  BY <1>2 DEF Outdates, DeploymentTypeOK, Actors, Plans
<1>3. ASSUME NEW i \in Resource, CompleteChange(i) \/ FailChange(i)
      PROVE  \/ infra' = infra /\ drifted'
             \/ drifted' /\ plan'["deploy"].stale
  <2>1. i \in left => applier = "shell"
    BY <1>0 DEF DeploymentTypeOK, Actors
  <2> QED BY <1>2, <1>3, <2>1 DEF CompleteChange, FailChange
<1>4. ASSUME NEW i \in Resource, Drift(i) PROVE drifted'
  BY <1>4 DEF Drift
<1>5. CASE \/ Regenerate \/ FinishNoOp \/ BeginApply
           \/ CheckConvergence \/ Converged \/ FailDeploy
  BY <1>5 DEF Regenerate, FinishNoOp, BeginApply, CheckConvergence, Converged, FailDeploy,
              EndsDeploy
<1>6. CASE EndApply
  BY <1>0, <1>6 DEF EndApply
<1> QED BY <1>1, <1>3, <1>4, <1>5, <1>6
        DEF DeploymentNext, WorkflowStep, vars, infraVars, Merge, DispatchPlan,
            AttestPlan, FailPlan, ExpirePlan, DispatchDeploy, AcceptRequest, ShellPlan,
            ShellApply, FailShellApply

\* While a deployment applies, what is left shrinks, and what is left and absent
\* stays absent.
LEMMA ApplySteps ==
    ASSUME DeploymentTypeOK, [DeploymentNext]_vars, step = "apply", step' = "apply"
    PROVE  /\ left' \subseteq left
           /\ \A r \in left' : infra[r] = Absent => infra'[r] = Absent
<1>0. applier = "deploy" /\ left \subseteq Resource
  BY DEF DeploymentTypeOK
<1>1. CASE UNCHANGED <<infra, left>>
  BY <1>1
<1>2. ASSUME NEW i \in Resource, CompleteChange(i) \/ FailChange(i)
      PROVE  left' = left \ {i} /\ \A r \in left' : infra'[r] = infra[r]
  <2>1. left' = left \ {i}
    BY <1>2 DEF CompleteChange, FailChange
  <2>2. \E v : infra' = [infra EXCEPT ![i] = v]
    BY <1>2 DEF CompleteChange, FailChange
  <2> QED BY <1>0, <2>1, <2>2 DEF DeploymentTypeOK
<1>3. ASSUME NEW i \in Resource, Drift(i)
      PROVE  /\ left' = left
             /\ \A r \in left' : infra[r] = Absent => infra'[r] = Absent
  <2>1. left' = left /\ infra[i] # Absent /\ \E v : infra' = [infra EXCEPT ![i] = v]
    BY <1>3 DEF Drift, applyVars
  <2> QED BY <1>0, <2>1 DEF DeploymentTypeOK
<1>4. CASE \/ FinishNoOp \/ BeginApply \/ CheckConvergence \/ Converged
           \/ FailDeploy \/ EndApply
  BY <1>0, <1>4 DEF FinishNoOp, BeginApply, CheckConvergence, Converged, FailDeploy,
                    EndsDeploy, EndApply
<1>5. CASE ShellApply \/ FailShellApply
  BY <1>0, <1>5 DEF ShellApply, TakesLock, FailShellApply
<1> QED BY <1>1, <1>2, <1>3, <1>4, <1>5
        DEF DeploymentNext, WorkflowStep, vars, infraVars, applyVars, Merge,
            DispatchPlan, AttestPlan, FailPlan, ExpirePlan, DispatchDeploy,
            AcceptRequest, Regenerate, ShellPlan

\* A deployment waits for its verdict only after the plan that checks convergence.
LEMMA VerdictBegins ==
    ASSUME DeploymentTypeOK, [DeploymentNext]_vars, step' = "verdict"
    PROVE  CheckConvergence \/ step = "verdict"
BY DEF DeploymentNext, WorkflowStep, vars, deployVars, Merge, DispatchPlan, AttestPlan,
       FailPlan, ExpirePlan, DispatchDeploy, AcceptRequest, Regenerate, FinishNoOp,
       BeginApply, Converged, FailDeploy, EndsDeploy, ShellPlan, ShellApply,
       CompleteChange, FailChange, EndApply, FailShellApply, Drift

\* While a deployment waits for its verdict, whoever changes the infrastructure
\* or the outputs is somebody else, and it is recorded.
LEMMA VerdictSteps ==
    ASSUME DeploymentTypeOK, [DeploymentNext]_vars,
           step = "verdict", step' = "verdict"
    PROVE  /\ remaining' = remaining
           /\ UNCHANGED <<infra, output, drifted>> \/ drifted'
<1> USE DEF deployVars, infraVars
<1>0. /\ step # "idle" /\ applier # "deploy"
      /\ \A i \in left : applier = "shell"
  BY DEF DeploymentTypeOK, Actors
<1>1. CASE UNCHANGED <<remaining, infra, output, drifted>>
  BY <1>1
<1>2. ASSUME NEW i \in Resource, CompleteChange(i) \/ FailChange(i)
      PROVE  remaining' = remaining /\ drifted'
  BY <1>0, <1>2 DEF CompleteChange, FailChange
<1>3. ASSUME NEW i \in Resource, Drift(i)
      PROVE  remaining' = remaining /\ drifted'
  BY <1>3 DEF Drift
<1>4. CASE EndApply
  BY <1>0, <1>4 DEF EndApply, DeploymentTypeOK, Actors
<1>5. CASE \/ AcceptRequest \/ Regenerate \/ FinishNoOp \/ BeginApply
           \/ CheckConvergence \/ Converged \/ FailDeploy
  BY <1>5 DEF AcceptRequest, Regenerate, FinishNoOp, BeginApply, CheckConvergence,
              Converged, FailDeploy, EndsDeploy
<1> QED BY <1>0, <1>1, <1>2, <1>3, <1>4, <1>5
        DEF DeploymentNext, WorkflowStep, vars, Merge, DispatchPlan, AttestPlan,
            FailPlan, ExpirePlan, DispatchDeploy, ShellPlan, ShellApply, FailShellApply

---------------------------------------------------------------------------
(* The invariant is inductive *)

LEMMA InitInv == DeploymentInit => DeployInv
  BY InitTypes
  DEF DeploymentInit, DeployInv, Approved, DoneIsInPlace, PlanIsOwn, PlanIsFresh,
      ApplyIsReviewed, VerdictIsFresh

LEMMA ApprovedStays ==
    ASSUME DeployInv, [DeploymentNext]_vars PROVE Approved'
<1> SUFFICES ASSUME step' \notin {"idle", "validate"}, NEW q \in running'
             PROVE  /\ runs'[q.run].status = "success"
                    /\ runs'[q.run].commit = q.commit
                    /\ Destructive(runs'[q.run].changes) => q.allow
  BY DEF Approved
<1>1. DeploymentTypeOK /\ q \in running /\ q.run \in Run
  BY RequestStays DEF DeployInv, DeploymentTypeOK, Requests
<1>2. /\ runs[q.run].status = "success"
      /\ runs[q.run].commit = q.commit
      /\ Destructive(runs[q.run].changes) => q.allow
  <2>1. CASE step \notin {"idle", "validate"}
    BY <1>1, <2>1 DEF DeployInv, Approved
  <2>2. CASE AcceptRequest
    BY <1>1, <2>2 DEF AcceptRequest, Accepts
  <2> QED BY <1>1, <2>1, <2>2, RequestStays
<1> QED BY <1>1, <1>2, AttestationsStay

LEMMA DoneStaysInPlace ==
    ASSUME DeployInv, [DeploymentNext]_vars PROVE DoneIsInPlace'
<1> SUFFICES ASSUME NEW p \in Run, NEW r \in done'[p]
             PROVE  /\ runs'[p].status = "success"
                    /\ (AddressesAreDistinct => runs'[p].changes[r] \in ChangeKinds)
                    /\ infra'[r] = Config[runs'[p].commit][r]
  BY DEF DoneIsInPlace
<1>0. DeploymentTypeOK
  BY DEF DeployInv
<1>1. CASE r \in done[p] /\ infra'[r] = infra[r]
  <2>1. /\ runs[p].status = "success"
        /\ (AddressesAreDistinct => runs[p].changes[r] \in ChangeKinds)
        /\ infra[r] = Config[runs[p].commit][r]
    BY <1>1 DEF DeployInv, DoneIsInPlace
  <2> QED BY <1>0, <1>1, <2>1, AttestationsStay
<1>2. ASSUME CompleteChange(r), applier = "deploy", NEW q \in running, q.run = p
      PROVE  /\ runs'[p].status = "success"
             /\ (AddressesAreDistinct => runs'[p].changes[r] \in ChangeKinds)
             /\ infra'[r] = Config[runs'[p].commit][r]
  <2>1. step = "apply" /\ r \in left /\ r \in Resource
    BY <1>0, <1>2 DEF DeploymentTypeOK, CompleteChange
  <2>2. runs[p].status = "success" /\ runs[p].commit = q.commit
    BY <1>2, <2>1 DEF DeployInv, Approved
  <2>3. plan["deploy"].commit = q.commit
    BY <1>2, <2>1 DEF DeployInv, PlanIsOwn
  <2>4. AddressesAreDistinct => runs[p].changes[r] \in ChangeKinds
    BY <1>2, <2>1 DEF DeployInv, ApplyIsReviewed, Changed
  <2>5. infra'[r] = Config[q.commit][r]
    BY <1>0, <1>2, <2>1, <2>3 DEF CompleteChange, DeploymentTypeOK
  <2> QED BY <1>0, <2>2, <2>4, <2>5, AttestationsStay
<1> QED BY <1>0, <1>1, <1>2, DoneGrows

\* The plan a deployment makes.
LEMMA RegeneratedPlan ==
    ASSUME DeploymentTypeOK, Regenerate, NEW q \in running'
    PROVE  /\ q \in running /\ q.run \in Run /\ q.commit \in Commits
           /\ plan'["deploy"].commit = q.commit
           /\ plan'["deploy"].changes = ChangeSet(q.commit)
           /\ step = "plan" /\ step' = "compare"
           /\ UNCHANGED <<infra, done, runs>>
<1>1. q \in running /\ \A p \in running : p = q
  BY DEF Regenerate, DeploymentTypeOK
<1>2. q.run \in Run /\ q.commit \in Commits
  BY <1>1 DEF DeploymentTypeOK, Requests
<1>3. plan' = [plan EXCEPT !["deploy"] = NewPlan(q.commit)]
  BY <1>1 DEF Regenerate
<1>4. plan'["deploy"] = NewPlan(q.commit)
  BY <1>3 DEF DeploymentTypeOK, Actors
<1> QED BY <1>1, <1>2, <1>4 DEF NewPlan, Regenerate, reviewVars

LEMMA PlanStaysOwn ==
    ASSUME DeployInv, [DeploymentNext]_vars PROVE PlanIsOwn'
<1> SUFFICES ASSUME step' \in {"compare", "apply"}, NEW q \in running'
             PROVE  /\ plan'["deploy"].commit = q.commit
                    /\ \A r \in Resource :
                         Config[q.commit][r] = Absent =>
                            plan'["deploy"].changes[r] \in {"unlisted", "delete"}
  BY DEF PlanIsOwn
<1>0. DeploymentTypeOK /\ q \in running
  BY RequestStays DEF DeployInv
<1>1. CASE Regenerate
  <2>1. /\ plan'["deploy"].commit = q.commit
        /\ plan'["deploy"].changes = ChangeSet(q.commit)
    BY <1>0, <1>1, RegeneratedPlan
  <2>2. \A r \in Resource : ChangeSet(q.commit)[r] = KindOf(infra[r], Config[q.commit][r])
    BY DEF ChangeSet
  <2> QED BY <2>1, <2>2, KindOfAbsence
<1>2. CASE /\ step \in {"compare", "apply"}
           /\ plan'["deploy"].commit = plan["deploy"].commit
           /\ plan'["deploy"].changes = plan["deploy"].changes
  BY <1>0, <1>2 DEF DeployInv, PlanIsOwn
<1> QED BY <1>0, <1>1, <1>2, DeployPlanStays

LEMMA PlanStaysFresh ==
    ASSUME DeployInv, [DeploymentNext]_vars PROVE PlanIsFresh'
<1> SUFFICES ASSUME step' = "compare", NEW q \in running'
             PROVE  /\ \A r \in done'[q.run] : plan'["deploy"].changes[r] \notin ChangeKinds
                    /\ ~plan'["deploy"].stale =>
                         \A r \in Resource :
                            plan'["deploy"].changes[r] = "create" => infra'[r] = Absent
                    /\ ~drifted' => plan'["deploy"].changes = ChangeSet(q.commit)'
  BY DEF PlanIsFresh
<1>0. DeploymentTypeOK /\ q \in running /\ q.run \in Run /\ q.commit \in Commits
  BY RequestStays DEF DeployInv, DeploymentTypeOK, Requests
<1>1. CASE Regenerate
  <2>1. /\ plan'["deploy"].changes = ChangeSet(q.commit)
        /\ step = "plan"
        /\ UNCHANGED <<infra, done, runs>>
    BY <1>0, <1>1, RegeneratedPlan
  <2>2. \A r \in done[q.run] : r \in Resource /\ infra[r] = Config[q.commit][r]
    BY <1>0, <2>1 DEF DeployInv, Approved, DoneIsInPlace, DeploymentTypeOK
  <2>3. \A r \in done[q.run] : ChangeSet(q.commit)[r] \notin ChangeKinds
    BY <2>2, KindOfDifference DEF ChangeSet
  <2>4. \A r \in Resource : ChangeSet(q.commit)[r] = "create" => infra[r] = Absent
    BY KindOfCreation DEF ChangeSet
  <2> QED BY <2>1, <2>3, <2>4 DEF ChangeSet
<1>2. CASE /\ step = "compare"
           /\ plan'["deploy"].changes = plan["deploy"].changes
           /\ plan["deploy"].stale => plan'["deploy"].stale
  <2>1. /\ \A r \in done[q.run] : plan["deploy"].changes[r] \notin ChangeKinds
        /\ ~plan["deploy"].stale =>
             \A r \in Resource :
                plan["deploy"].changes[r] = "create" => infra[r] = Absent
        /\ ~drifted => plan["deploy"].changes = ChangeSet(q.commit)
    BY <1>0, <1>2 DEF DeployInv, PlanIsFresh
  <2>2. done'[q.run] \subseteq done[q.run]
    BY <1>0, <1>2, DoneGrows DEF DeploymentTypeOK
  <2>3. CASE infra' = infra /\ (drifted => drifted')
    BY <1>2, <2>1, <2>2, <2>3 DEF ChangeSet
  <2>4. CASE drifted' /\ plan'["deploy"].stale
    BY <1>2, <2>1, <2>2, <2>4
  <2>5. ASSUME drifted', NEW i \in Resource, Drift(i)
        PROVE  \A r \in Resource : infra[r] = Absent => infra'[r] = Absent
    BY <1>0, <2>5 DEF Drift, DeploymentTypeOK
  <2> QED BY <1>0, <1>2, <2>1, <2>2, <2>3, <2>4, <2>5, CompareSteps
<1> QED BY <1>0, <1>1, <1>2, DeployPlanStays DEF BeginApply

LEMMA ApplyStaysReviewed ==
    ASSUME DeployInv, [DeploymentNext]_vars PROVE ApplyIsReviewed'
<1> SUFFICES ASSUME step' = "apply", NEW q \in running'
             PROVE  /\ AddressesAreDistinct =>
                         plan'["deploy"].changes = runs'[q.run].changes
                    /\ Destructive(plan'["deploy"].changes) =
                         Destructive(runs'[q.run].changes)
                    /\ left' \subseteq Changed(plan'["deploy"].changes)
                    /\ \A r \in left' :
                         plan'["deploy"].changes[r] = "create" => infra'[r] = Absent
  BY DEF ApplyIsReviewed, Changed
<1>0. DeploymentTypeOK /\ q \in running /\ q.run \in Run
  BY RequestStays DEF DeployInv, DeploymentTypeOK, Requests
<1>1. CASE BeginApply
  <2>1. step = "compare" /\ ~plan["deploy"].stale /\ UNCHANGED <<plan, infra, runs>>
    BY <1>1 DEF BeginApply, TakesLock, infraVars, reviewVars
  <2>2. /\ Matches(runs[q.run].changes, plan["deploy"].changes)
        /\ left' = Changed(plan["deploy"].changes)
    BY <1>0, <1>1 DEF BeginApply, TakesLock, Reviewed
  <2>4. runs[q.run].changes \in ChangeSets /\ plan["deploy"].changes \in ChangeSets
    BY <1>0 DEF DeploymentTypeOK, Runs, Plans, Actors
  <2>5. AddressesAreDistinct => plan["deploy"].changes = runs[q.run].changes
    BY <2>2, <2>4, AttestationsDetermineChanges
  <2>6. Destructive(plan["deploy"].changes) = Destructive(runs[q.run].changes)
    BY <2>2 DEF Matches, Attestation
  <2>3. \A r \in Resource : plan["deploy"].changes[r] = "create" => infra[r] = Absent
    BY <1>0, <2>1 DEF DeployInv, PlanIsFresh
  <2> QED BY <2>1, <2>2, <2>3, <2>5, <2>6 DEF Changed
<1>2. CASE step = "apply" /\ plan'["deploy"].changes = plan["deploy"].changes
  <2>1. runs[q.run].status = "success"
    BY <1>0, <1>2 DEF DeployInv, Approved
  <2>2. runs'[q.run].changes = runs[q.run].changes
    BY <1>0, <2>1, AttestationsStay
  <2>3. /\ AddressesAreDistinct => plan["deploy"].changes = runs[q.run].changes
        /\ Destructive(plan["deploy"].changes) = Destructive(runs[q.run].changes)
        /\ left \subseteq Changed(plan["deploy"].changes)
        /\ \A r \in left : plan["deploy"].changes[r] = "create" => infra[r] = Absent
    BY <1>0, <1>2 DEF DeployInv, ApplyIsReviewed
  <2>4. /\ left' \subseteq left
        /\ \A r \in left' : infra[r] = Absent => infra'[r] = Absent
    BY <1>0, <1>2, ApplySteps
  <2> QED BY <1>2, <2>2, <2>3, <2>4
<1> QED BY <1>0, <1>1, <1>2, DeployPlanStays DEF Regenerate

LEMMA VerdictStaysFresh ==
    ASSUME DeployInv, [DeploymentNext]_vars PROVE VerdictIsFresh'
<1> SUFFICES ASSUME step' = "verdict", ~remaining', ~drifted', NEW q \in running'
             PROVE  ~HasChanges(q.commit)'
  BY DEF VerdictIsFresh
<1>0. DeploymentTypeOK /\ q \in running
  BY RequestStays DEF DeployInv
<1>1. CASE CheckConvergence
  <2>1. ~HasChanges(q.commit) /\ UNCHANGED <<infra, output>>
    BY <1>0, <1>1 DEF CheckConvergence
  <2> QED BY <2>1 DEF HasChanges, ChangeSet, Changed
<1>2. CASE step = "verdict"
  <2>1. ~remaining /\ UNCHANGED <<infra, output, drifted>>
    BY <1>0, <1>2, VerdictSteps
  <2>2. ~HasChanges(q.commit)
    BY <1>0, <1>2, <2>1 DEF DeployInv, VerdictIsFresh
  <2> QED BY <2>1, <2>2 DEF HasChanges, ChangeSet, Changed
<1> QED BY <1>0, <1>1, <1>2, VerdictBegins

\* The invariant of the deployment, for any resources, commits and plan runs.
THEOREM DeployInvariance == DeploymentSpec => []DeployInv
<1>1. ASSUME DeployInv, [DeploymentNext]_vars PROVE DeployInv'
  BY <1>1, NextTypes, ApprovedStays, DoneStaysInPlace, PlanStaysOwn, PlanStaysFresh,
     ApplyStaysReviewed, VerdictStaysFresh DEF DeployInv
<1> QED BY <1>1, InitInv, PTL DEF DeploymentSpec

---------------------------------------------------------------------------
(* The properties *)

\* A change by a deployment is a change of its apply, and it was reviewed.
LEMMA DeployChange ==
    ASSUME DeployInv, [DeploymentNext]_vars,
           NEW r \in Resource, NEW q \in running, DeployChanges(r)
    PROVE  /\ CompleteChange(r) \/ FailChange(r)
           /\ runs[q.run].status = "success" /\ runs[q.run].commit = q.commit
           /\ Destructive(runs[q.run].changes) => q.allow
           /\ plan["deploy"].commit = q.commit
           /\ AddressesAreDistinct => plan["deploy"].changes = runs[q.run].changes
           /\ Destructive(plan["deploy"].changes) = Destructive(runs[q.run].changes)
           /\ plan["deploy"].changes[r] \in ChangeKinds
           /\ plan["deploy"].changes[r] = "create" => infra[r] = Absent
           /\ Config[q.commit][r] = Absent => plan["deploy"].changes[r] = "delete"
<1>0. DeploymentTypeOK /\ applier = "deploy" /\ step = "apply"
  BY DEF DeployInv, DeploymentTypeOK, DeployChanges
<1>1. CompleteChange(r) \/ FailChange(r)
  <2>1. infra' # infra /\ r \in left /\ r \notin left'
    BY DEF DeployChanges
  <2>2. ASSUME NEW i \in Resource, CompleteChange(i) \/ FailChange(i) PROVE i = r
    BY <2>1, <2>2 DEF CompleteChange, FailChange
  <2>3. ASSUME NEW i \in Resource, Drift(i) PROVE FALSE
    BY <2>1, <2>3 DEF Drift, applyVars
  <2> QED BY <2>1, <2>2, <2>3
          DEF DeploymentNext, WorkflowStep, vars, infraVars, Merge, DispatchPlan,
              AttestPlan, FailPlan, ExpirePlan, DispatchDeploy, AcceptRequest,
              Regenerate, FinishNoOp, BeginApply, CheckConvergence, Converged,
              FailDeploy, EndsDeploy,
              ShellPlan, ShellApply, EndApply, FailShellApply
<1>2. /\ runs[q.run].status = "success" /\ runs[q.run].commit = q.commit
      /\ Destructive(runs[q.run].changes) => q.allow
  BY <1>0 DEF DeployInv, Approved
<1>3. /\ plan["deploy"].commit = q.commit
      /\ Config[q.commit][r] = Absent => plan["deploy"].changes[r] \in {"unlisted", "delete"}
  BY <1>0 DEF DeployInv, PlanIsOwn
<1>4. r \in left
  BY DEF DeployChanges
<1>5. /\ AddressesAreDistinct => plan["deploy"].changes = runs[q.run].changes
      /\ Destructive(plan["deploy"].changes) = Destructive(runs[q.run].changes)
      /\ plan["deploy"].changes[r] \in ChangeKinds
      /\ plan["deploy"].changes[r] = "create" => infra[r] = Absent
  BY <1>0, <1>4 DEF DeployInv, ApplyIsReviewed, Changed
<1> QED BY <1>1, <1>2, <1>3, <1>5 DEF ChangeKinds

\* Whatever happened to the infrastructure and to main since the review, a
\* deployment changes only what its attestation lists, to what its commit wants,
\* provided that no two resources share a sanitized address.
THEOREM DeploymentsChangeWhatWasReviewed ==
    AddressesAreDistinct => (DeploymentSpec => ChangesAsReviewed)
<1> SUFFICES ASSUME AddressesAreDistinct PROVE DeploymentSpec => ChangesAsReviewed
  OBVIOUS
<1> DEFINE AsReviewed ==
      \A r \in Resource, q \in running :
          DeployChanges(r) =>
            /\ runs[q.run].status = "success" /\ runs[q.run].commit = q.commit
            /\ runs[q.run].changes[r] \in ChangeKinds
            /\ infra'[r] = Config[q.commit][r] \/ failed'
<1>1. DeployInv /\ [DeploymentNext]_vars => AsReviewed
  <2> SUFFICES ASSUME DeployInv, [DeploymentNext]_vars,
                      NEW r \in Resource, NEW q \in running, DeployChanges(r)
               PROVE  infra'[r] = Config[q.commit][r] \/ failed'
    BY DeployChange
  <2>1. CASE CompleteChange(r)
    BY <2>1, DeployChange
    DEF CompleteChange, DeployChanges, DeployInv, DeploymentTypeOK
  <2>2. CASE FailChange(r)
    BY <2>2 DEF FailChange
  <2> QED BY <2>1, <2>2, DeployChange
<1> QED BY <1>1, DeployInvariance, PTL DEF DeploymentSpec, ChangesAsReviewed

\* No deployment without the opt-in deletes or replaces a resource, or loses it
\* in a change that fails.
THEOREM DestructionNeedsConsent == DeploymentSpec => DestroysOnlyWithConsent
<1> DEFINE WithConsent ==
      \A r \in Resource, q \in running :
          /\ DeployChanges(r)
          /\ \/ infra'[r] \in {Absent, Tainted} /\ infra[r] # Absent
             \/ runs[q.run].changes[r] \in {"delete", "replace", "recreate"}
          => q.allow
<1>1. DeployInv /\ [DeploymentNext]_vars => WithConsent
  <2> SUFFICES ASSUME DeployInv, [DeploymentNext]_vars,
                      NEW r \in Resource, NEW q \in running, DeployChanges(r),
                      \/ infra'[r] \in {Absent, Tainted} /\ infra[r] # Absent
                      \/ runs[q.run].changes[r] \in {"delete", "replace", "recreate"}
               PROVE  q.allow
    OBVIOUS
  <2>0. /\ applier = "deploy" /\ infra'[r] # infra[r]
        /\ infra \in [Resource -> Value \union {Absent, Tainted}]
        /\ q.run \in Run /\ q.commit \in Commits
    BY DEF DeployInv, DeploymentTypeOK, DeployChanges, Requests
  <2>1. runs[q.run].changes \in ChangeSets /\ plan["deploy"].changes \in ChangeSets
    BY <2>0 DEF DeployInv, DeploymentTypeOK, Runs, Plans, Actors
  <2>2. CASE runs[q.run].changes[r] \in {"delete", "replace", "recreate"}
    BY <2>1, <2>2, DeployChange, FlagsAreRight
  <2>3. CASE infra'[r] \in {Absent, Tainted} /\ infra[r] # Absent
    <3>1. plan["deploy"].changes[r] \in {"delete", "replace", "recreate"}
      <4>1. CASE CompleteChange(r)
        <5>1. infra'[r] = Config[q.commit][r]
          BY <2>0, <4>1, DeployChange DEF CompleteChange
        <5> QED BY <2>0, <2>3, <5>1, DeployChange, ConstantTypes
      <4>2. CASE FailChange(r)
        <5>1. infra'[r] \in Remains(plan["deploy"].changes[r], infra[r])
          BY <2>0, <4>2 DEF FailChange
        <5>2. plan["deploy"].changes[r] \in ChangeKinds \ {"create"}
          BY <2>3, DeployChange
        <5>3. plan["deploy"].changes[r] # "update"
          BY <2>0, <2>3, <5>1, ConstantTypes DEF Remains
        <5> QED BY <5>2, <5>3 DEF ChangeKinds
      <4> QED BY <4>1, <4>2, DeployChange
    <3>2. Destructive(plan["deploy"].changes)
      BY <2>1, <3>1, FlagsAreRight
    <3> QED BY <3>2, DeployChange
  <2> QED BY <2>2, <2>3
<1> QED BY <1>1, DeployInvariance, PTL DEF DeploymentSpec, DestroysOnlyWithConsent

\* A plan run of which a change is done is not applied again.
THEOREM PlanRunsApplyOnce ==
    AddressesAreDistinct => (DeploymentSpec => AppliedOnce)
<1> SUFFICES ASSUME AddressesAreDistinct PROVE DeploymentSpec => AppliedOnce
  OBVIOUS
<1> DEFINE Once ==
      \A q \in running : step = "compare" /\ step' = "apply" => done[q.run] = {}
<1>1. DeployInv /\ [DeploymentNext]_vars => Once
  <2> SUFFICES ASSUME DeployInv, [DeploymentNext]_vars, NEW q \in running,
                      step = "compare", step' = "apply", NEW r \in done[q.run]
               PROVE  FALSE
    OBVIOUS
  <2>1. DeploymentTypeOK /\ q.run \in Run
    BY DEF DeployInv, DeploymentTypeOK, Requests
  <2>2. BeginApply
    BY <2>1, DeployPlanStays DEF Regenerate
  <2>3. plan["deploy"].changes = runs[q.run].changes
    <3>1. Matches(runs[q.run].changes, plan["deploy"].changes)
      BY <2>2 DEF BeginApply, Reviewed
    <3>2. runs[q.run].changes \in ChangeSets /\ plan["deploy"].changes \in ChangeSets
      BY <2>1 DEF DeploymentTypeOK, Runs, Plans, Actors
    <3> QED BY <3>1, <3>2, AttestationsDetermineChanges
  <2>4. runs[q.run].changes[r] \in ChangeKinds
    BY <2>1 DEF DeployInv, DoneIsInPlace
  <2>5. plan["deploy"].changes[r] \notin ChangeKinds
    BY DEF DeployInv, PlanIsFresh
  <2> QED BY <2>3, <2>4, <2>5
<1> QED BY <1>1, DeployInvariance, PTL DEF DeploymentSpec, AppliedOnce

\* Success is reported for an infrastructure, and after an apply for outputs,
\* as the commit wants them, or somebody changed them after the deployment's
\* last plan: the plan compared or the plan that checks convergence.
THEOREM SuccessIsConvergence == DeploymentSpec => SuccessMeansConverged
<1> DEFINE Converges ==
      \A q \in running :
          /\ FinishNoOp \/ Converged
          /\ \/ \E r \in Resource : infra[r] # Config[q.commit][r]
             \/ Converged /\ output # Output[q.commit]
          => drifted
<1>1. DeployInv /\ [DeploymentNext]_vars => Converges
  <2> SUFFICES ASSUME DeployInv, NEW q \in running, ~drifted, FinishNoOp \/ Converged
               PROVE  /\ \A r \in Resource : infra[r] = Config[q.commit][r]
                      /\ Converged => output = Output[q.commit]
    OBVIOUS
  <2>0. q.commit \in Commits
    BY DEF DeployInv, DeploymentTypeOK, Requests
  <2>1. Converged => ~HasChanges(q.commit)
    BY DEF Converged, DeployInv, VerdictIsFresh
  <2>2. Changed(ChangeSet(q.commit)) = {}
    <3>1. CASE FinishNoOp
      BY <2>0, <3>1, ChangeSetType, FlagsAreRight DEF FinishNoOp, DeployInv, PlanIsFresh
    <3>2. CASE Converged
      BY <2>1, <3>2 DEF HasChanges
    <3> QED BY <3>1, <3>2
  <2>3. \A r \in Resource : ChangeSet(q.commit)[r] \notin ChangeKinds
    BY <2>2 DEF Changed
  <2>4. \A r \in Resource : infra[r] = Config[q.commit][r]
    BY <2>3, KindOfDifference DEF ChangeSet
  <2> QED BY <2>1, <2>4 DEF HasChanges
<1> QED BY <1>1, DeployInvariance, PTL DEF DeploymentSpec, SuccessMeansConverged

===========================================================================
