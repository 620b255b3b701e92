----------------------------- MODULE Deployment ----------------------------
(***************************************************************************)
(* The controlled deployment of the infrastructure with Terraform.         *)
(*                                                                         *)
(* A run of the Terraform Plan workflow plans the head of main against the *)
(* live infrastructure and uploads an attestation of the plan, which says  *)
(* what changes and no values (PlanAttestation).  An operator reviews it   *)
(* and dispatches the Terraform Deploy workflow with the number of the     *)
(* plan run.  The deployment validates the plan run, plans again, compares *)
(* the two attestations, applies the plan it made itself and checks with a *)
(* third plan that nothing is left to change (scripts/terraform_workflow.py *)
(* command_deploy).  Meanwhile main moves on, other plan runs go their way, *)
(* somebody changes a resource by hand, and an operator's shell plans and  *)
(* applies with the same script (command_plan, command_apply).             *)
(*                                                                         *)
(* Terraform, AWS and GitHub are external.  Terraform holds the lock of    *)
(* the state from the beginning of an apply to its end, an apply changes   *)
(* one resource at a time and may fail at each, and a saved plan is        *)
(* refused once the state was written after it.                            *)
(***************************************************************************)
EXTENDS PlanAttestation

CONSTANTS
    Value,        \* configurations a resource may have
    Replaces,     \* pairs <<old, new>> that no in-place update can reach
    Run,          \* numbers of the runs of the Terraform Plan workflow
    MaxCommit,    \* commits main will ever have
    Config,       \* what each commit wants each resource to be
    Output,       \* the root module's outputs at each commit
    MaxMeddling   \* bound of the model: changes by hand and plans of the shell

Absent == "absent"      \* the resource does not exist
Tainted == "tainted"    \* its creation failed half-way: it is to be replaced
Commits == 1 .. MaxCommit

ASSUME DeploymentAssumption ==
    /\ MaxCommit \in Nat \ {0}
    /\ MaxMeddling \in Nat
    /\ Absent \notin Value /\ Tainted \notin Value
    /\ Config \in [Commits -> [Resource -> Value \union {Absent}]]
    /\ Output \in [Commits -> Value]

VARIABLES
    main,        \* the head of main
    infra,       \* the live infrastructure
    output,      \* the outputs the state records
    runs,        \* the plan runs, with the attestations they uploaded
    running,     \* the deployment that runs, if any
    step,        \* how far the running deployment has come
    plan,        \* the saved plan of the deployment and of the shell
    remaining,   \* the deployment's plan after its apply found changes
    applier,     \* who holds the state lock for an apply
    left,        \* resources the apply under way has yet to change
    failed,      \* a change of the apply under way failed
    drifted,     \* history: somebody else has changed the infrastructure
                 \* since the deployment's last plan
    done,        \* history: changes an apply of the plan run completed and
                 \* nobody has touched since
    meddling     \* changes by hand and plans of the shell so far

reviewVars == <<main, runs>>
deployVars == <<running, step, remaining>>
applyVars == <<applier, left, failed>>
infraVars == <<infra, output, drifted, done>>
vars == <<reviewVars, deployVars, plan, applyVars, infraVars, meddling>>

---------------------------------------------------------------------------
(* Change sets *)

\* What a plan makes of a resource that is old and is to be new.
KindOf(old, new) ==
    IF old = new THEN IF old = Absent THEN "unlisted" ELSE "no-op"
    ELSE IF old = Absent  THEN "create"
    ELSE IF new = Absent  THEN "delete"
    ELSE IF old = Tainted THEN "recreate"
    ELSE IF <<old, new>> \in Replaces THEN "replace"
    ELSE "update"

\* The change set a plan of commit c finds now.
ChangeSet(c) == [r \in Resource |-> KindOf(infra[r], Config[c][r])]

Changed(changes) == {r \in Resource : changes[r] \in ChangeKinds}

\* Exit code 2 of terraform plan -detailed-exitcode: resources or outputs of
\* commit c differ from what is there.
HasChanges(c) == Changed(ChangeSet(c)) # {} \/ output # Output[c]

---------------------------------------------------------------------------
(* Types *)

\* changes: what the run attested.  old: the run is over 24 hours old and its
\* attestation is gone.
Runs == [status : {"none", "running", "success", "failed"}, commit : Commits,
         changes : ChangeSets, old : BOOLEAN]

\* A dispatched deployment: the plan run it names, the head of main when it
\* was dispatched, and the opt-in to destructive changes.
Requests == [run : Run, commit : Commits, allow : BOOLEAN]

Actors == {"deploy", "shell"}

\* stale: the state was written since.
Plans == [commit : Commits, changes : ChangeSets, stale : BOOLEAN]

NoChangeSet == [r \in Resource |-> "unlisted"]
NoPlan == [commit |-> 1, changes |-> NoChangeSet, stale |-> TRUE]
NewPlan(c) ==
    [commit |-> c, changes |-> ChangeSet(c), stale |-> FALSE]

DeploymentTypeOK ==
    /\ main \in Commits
    /\ infra \in [Resource -> Value \union {Absent, Tainted}]
    /\ output \in Value \union {Absent}
    /\ runs \in [Run -> Runs]
    /\ running \subseteq Requests /\ \A p, q \in running : p = q
    /\ step \in {"idle", "validate", "plan", "compare", "apply", "converge", "verdict"}
    /\ step = "idle" <=> running = {}
    /\ plan \in [Actors -> Plans]
    /\ remaining \in BOOLEAN
    /\ applier \in Actors \union {"nobody"}
    /\ applier = "deploy" <=> step = "apply"
    /\ left \subseteq Resource
    /\ applier = "nobody" => left = {}
    /\ failed \in BOOLEAN
    /\ drifted \in BOOLEAN
    /\ done \in [Run -> SUBSET Resource]
    /\ meddling \in Nat

DeploymentInit ==
    /\ main = 1
    /\ infra = [r \in Resource |-> Absent]
    /\ output = Absent
    /\ runs = [p \in Run |-> [status |-> "none", commit |-> 1,
                              changes |-> NoChangeSet, old |-> FALSE]]
    /\ running = {} /\ step = "idle"
    /\ plan = [a \in Actors |-> NoPlan] /\ remaining = FALSE
    /\ applier = "nobody" /\ left = {} /\ failed = FALSE
    /\ drifted = FALSE
    /\ done = [p \in Run |-> {}]
    /\ meddling = 0

---------------------------------------------------------------------------
(* The Terraform Plan workflow *)

\* A pull request is merged.
Merge ==
    /\ main < MaxCommit
    /\ main' = main + 1
    /\ UNCHANGED <<runs, deployVars, plan, applyVars, infraVars, meddling>>

\* A plan run starts at the head of main, one at a time.
DispatchPlan(p) ==
    /\ runs[p].status = "none"
    /\ \A q \in Run : runs[q].status # "running"
    /\ runs' = [runs EXCEPT ![p].status = "running", ![p].commit = main]
    /\ UNCHANGED <<main, deployVars, plan, applyVars, infraVars, meddling>>

\* The run plans its commit and uploads the attestation.
AttestPlan(p) ==
    /\ runs[p].status = "running"
    /\ applier = "nobody"
    /\ runs' = [runs EXCEPT ![p].status = "success",
                            ![p].changes = ChangeSet(runs[p].commit)]
    /\ UNCHANGED <<main, deployVars, plan, applyVars, infraVars, meddling>>

\* One of its steps fails, or the lock is not to be had for five minutes.
FailPlan(p) ==
    /\ runs[p].status = "running"
    /\ runs' = [runs EXCEPT ![p].status = "failed"]
    /\ UNCHANGED <<main, deployVars, plan, applyVars, infraVars, meddling>>

\* 24 hours pass.
ExpirePlan(p) ==
    /\ runs[p].status = "success" /\ ~runs[p].old
    /\ runs' = [runs EXCEPT ![p].old = TRUE]
    /\ UNCHANGED <<main, deployVars, plan, applyVars, infraVars, meddling>>

---------------------------------------------------------------------------
(* The Terraform Deploy workflow *)

\* Mutant: no concurrency group.
DispatchDeployUngrouped(p, allow) ==
    /\ runs[p].status # "none"
    /\ \E c \in {main, runs[p].commit} :
         running' = running \union {[run |-> p, commit |-> c, allow |-> allow]}
    /\ step' = "validate"
    /\ UNCHANGED <<reviewVars, remaining, plan, applyVars, infraVars, meddling>>

\* An operator dispatches a deployment.  Its commit is the head of main then;
\* when the deployment has waited for a running one, or is a re-run, main may
\* have moved on since the plan run.  The concurrency group admits one.
DispatchDeploy(p, allow) ==
    /\ step = "idle"
    /\ runs[p].status # "none"
    /\ \E c \in {main, runs[p].commit} :
         running' = {[run |-> p, commit |-> c, allow |-> allow]}
    /\ step' = "validate"
    /\ UNCHANGED <<reviewVars, remaining, plan, applyVars, infraVars, meddling>>

\* The deployment ends; its temporary files are removed.
EndsDeploy ==
    /\ step' = "idle"
    /\ running' = {}
    /\ plan' = [plan EXCEPT !["deploy"] = NoPlan]
    /\ remaining' = FALSE
    /\ drifted' = FALSE
    /\ UNCHANGED <<reviewVars, infra, output, done, meddling>>

\* validate_workflow_run and load_reviewed_attestation.
Accepts(q) ==
    /\ runs[q.run].status = "success"
    /\ runs[q.run].commit = q.commit
    /\ ~runs[q.run].old
    /\ Destructive(runs[q.run].changes) => q.allow

AcceptRequest ==
    /\ step = "validate"
    /\ \A q \in running : Accepts(q)
    /\ step' = "plan"
    /\ UNCHANGED <<reviewVars, running, remaining, plan, applyVars, infraVars, meddling>>

\* terraform plan of the checked out commit.
Regenerate ==
    /\ step = "plan"
    /\ applier = "nobody"
    /\ \E q \in running : plan' = [plan EXCEPT !["deploy"] = NewPlan(q.commit)]
    /\ drifted' = FALSE
    /\ step' = "compare"
    /\ UNCHANGED <<reviewVars, running, remaining, applyVars, infra, output, done, meddling>>

Reviewed(q) == Matches(runs[q.run].changes, plan["deploy"].changes)

\* Mutant: the reviewed plan alone decides that there is nothing to do.
FinishNoOpAsReviewed ==
    /\ step = "compare"
    /\ \A q \in running : NoChanges(runs[q.run].changes)
    /\ EndsDeploy
    /\ UNCHANGED applyVars

\* Both plans change no resource: success without an apply, whatever exit
\* code the plan had.
FinishNoOp ==
    /\ step = "compare"
    /\ \A q \in running :
         NoChanges(runs[q.run].changes) /\ Reviewed(q) /\ NoChanges(plan["deploy"].changes)
    /\ EndsDeploy
    /\ UNCHANGED applyVars

\* terraform apply of actor a's saved plan gets hold of the lock.
TakesLock(a) ==
    /\ applier = "nobody"
    /\ ~plan[a].stale
    /\ applier' = a
    /\ left' = Changed(plan[a].changes)
    /\ failed' = FALSE

\* Mutant: the plan made now is applied without a comparison.
BeginApplyUncompared ==
    /\ step = "compare"
    /\ TakesLock("deploy")
    /\ step' = "apply"
    /\ UNCHANGED <<reviewVars, running, remaining, plan, infraVars, meddling>>

BeginApply ==
    /\ step = "compare"
    /\ \A q \in running : ~NoChanges(runs[q.run].changes) /\ Reviewed(q)
    /\ TakesLock("deploy")
    /\ step' = "apply"
    /\ UNCHANGED <<reviewVars, running, remaining, plan, infraVars, meddling>>

\* terraform plan after the apply; the state is unlocked again before the
\* verdict, but only its exit code counts.
CheckConvergence ==
    /\ step = "converge"
    /\ applier = "nobody"
    /\ remaining' = \E q \in running : HasChanges(q.commit)
    /\ drifted' = FALSE
    /\ step' = "verdict"
    /\ UNCHANGED <<reviewVars, running, plan, applyVars, infra, output, done, meddling>>

\* Mutant: exit code 2 of the last plan is accepted like 0.
ConvergedWhatever ==
    /\ step = "verdict"
    /\ EndsDeploy
    /\ UNCHANGED applyVars

\* That plan found nothing: success.
Converged ==
    /\ step = "verdict"
    /\ ~remaining
    /\ EndsDeploy
    /\ UNCHANGED applyVars

\* The deployment fails in whatever step it is: the request is refused, the
\* change sets differ, the plan to apply is stale, the last plan has changes,
\* another command fails, the job's 45 minutes are over, the runner is lost.
\* A lock left behind is for an operator to break.
FailDeploy ==
    /\ step # "idle"
    /\ EndsDeploy
    /\ IF applier = "deploy"
         THEN applier' = "nobody" /\ left' = {} /\ failed' = FALSE
         ELSE UNCHANGED applyVars

---------------------------------------------------------------------------
(* The operator's shell *)

\* command_plan replaces the saved plan and its manifest.
ShellPlan(c) ==
    /\ c <= main
    /\ applier = "nobody"
    /\ plan' = [plan EXCEPT !["shell"] = NewPlan(c)]
    /\ meddling < MaxMeddling
    /\ meddling' = meddling + 1
    /\ UNCHANGED <<reviewVars, deployVars, applyVars, infraVars>>

\* command_apply applies the plan its manifest vouches for.
ShellApply ==
    /\ TakesLock("shell")
    /\ UNCHANGED <<reviewVars, deployVars, plan, infraVars, meddling>>

---------------------------------------------------------------------------
(* terraform apply *)

\* The applier writes the state: no plan made before can be applied any more.
\* The shell's is of no use then; the deployment compares its own even so.
Outdates ==
    plan' = [plan EXCEPT !["deploy"].stale = TRUE,
                         !["shell"] = IF applier = "shell" THEN @ ELSE NoPlan]

\* What a failed change may leave behind.
Remains(kind, old) ==
    {v \in Value \union {Absent, Tainted} :
        \/ v = old
        \/ kind = "create" /\ v = Tainted
        \/ kind = "update" /\ old \in Value /\ v \in Value
        \/ kind \in {"replace", "recreate"} /\ v \in {Absent, Tainted}}

\* An update needs a resource to update; the provider creates and deletes
\* whatever it finds.
CompleteChange(r) ==
    /\ r \in left
    /\ plan[applier].changes[r] = "update" => infra[r] # Absent
    /\ infra' = [infra EXCEPT ![r] = Config[plan[applier].commit][r]]
    /\ left' = left \ {r}
    /\ done' = [p \in Run |->
                  IF applier = "deploy" /\ \E q \in running : q.run = p
                    THEN done[p] \union {r} ELSE done[p] \ {r}]
    /\ drifted' = (drifted \/ applier = "shell")
    /\ Outdates
    /\ UNCHANGED <<reviewVars, deployVars, applier, failed, output, meddling>>

FailChange(r) ==
    /\ r \in left
    /\ \E v \in Remains(plan[applier].changes[r], infra[r]) :
         infra' = [infra EXCEPT ![r] = v]
    /\ left' = left \ {r}
    /\ failed' = TRUE
    /\ done' = [p \in Run |-> done[p] \ {r}]
    /\ drifted' = (drifted \/ applier = "shell")
    /\ IF infra' = infra THEN UNCHANGED plan ELSE Outdates
    /\ UNCHANGED <<reviewVars, deployVars, applier, output, meddling>>

\* The apply ends.  When nothing failed, the state records the outputs and a
\* deployment goes on to its last plan.
EndApply ==
    /\ applier # "nobody"
    /\ left = {} /\ ~failed
    /\ output' = Output[plan[applier].commit]
    /\ applier' = "nobody"
    /\ step' = IF applier = "deploy" THEN "converge" ELSE step
    /\ plan' = [plan EXCEPT !["deploy"].stale = TRUE, !["shell"] = NoPlan]
    /\ drifted' = (drifted \/ applier = "shell")
    /\ UNCHANGED <<reviewVars, running, remaining, left, failed, infra, done, meddling>>

\* The shell's apply fails or is interrupted; FailDeploy is the deployment's.
FailShellApply ==
    /\ applier = "shell"
    /\ applier' = "nobody" /\ left' = {} /\ failed' = FALSE
    /\ UNCHANGED <<reviewVars, deployVars, plan, infraVars, meddling>>

---------------------------------------------------------------------------
\* Somebody changes or deletes a resource by hand; a tainted one stays so.
Drift(r) ==
    /\ infra[r] # Absent
    /\ \E v \in (IF infra[r] = Tainted THEN {Absent} ELSE Value \union {Absent}) :
         v # infra[r] /\ infra' = [infra EXCEPT ![r] = v]
    /\ drifted' = TRUE
    /\ done' = [p \in Run |-> done[p] \ {r}]
    /\ UNCHANGED <<reviewVars, deployVars, plan, applyVars, output>>
    /\ meddling < MaxMeddling
    /\ meddling' = meddling + 1

WorkflowStep ==
    \/ AcceptRequest \/ Regenerate \/ FinishNoOp \/ BeginApply
    \/ CheckConvergence \/ Converged \/ FailDeploy

DeploymentNext ==
    \/ Merge
    \/ \E p \in Run :
         \/ DispatchPlan(p) \/ AttestPlan(p) \/ FailPlan(p) \/ ExpirePlan(p)
         \/ \E allow \in BOOLEAN : DispatchDeploy(p, allow)
    \/ WorkflowStep
    \/ \E c \in Commits : ShellPlan(c)
    \/ ShellApply
    \/ \E r \in Resource : CompleteChange(r) \/ FailChange(r) \/ Drift(r)
    \/ EndApply
    \/ FailShellApply

DeploymentSpec == DeploymentInit /\ [][DeploymentNext]_vars

---------------------------------------------------------------------------
(* Properties *)

\* A change of r by the apply of a deployment.
DeployChanges(r) == applier = "deploy" /\ r \in left \ left' /\ infra'[r] # infra[r]

\* A deployment changes only resources that its attestation, made of the very
\* commit it deploys, lists with a change, and brings them to what that
\* commit wants unless a change failed.
ChangesAsReviewed ==
    [][\A r \in Resource, q \in running :
          DeployChanges(r) =>
            /\ runs[q.run].status = "success" /\ runs[q.run].commit = q.commit
            /\ runs[q.run].changes[r] \in ChangeKinds
            /\ infra'[r] = Config[q.commit][r] \/ failed']_vars

\* A deployment that was not allowed to never destroys a resource, by
\* deleting it, by replacing it or by a failed replacement.
DestroysOnlyWithConsent ==
    [][\A r \in Resource, q \in running :
          /\ DeployChanges(r)
          /\ \/ infra'[r] \in {Absent, Tainted} /\ infra[r] # Absent
             \/ runs[q.run].changes[r] \in {"delete", "replace", "recreate"}
          => q.allow]_vars

\* "Create a new reviewed plan before retry" (command_deploy): once an apply
\* has completed a change of a plan run, no deployment of that plan run
\* applies again, be it a retry after a failure or a re-run after a success,
\* until somebody has touched that very resource.
AppliedOnce ==
    [][\A q \in running : step = "compare" /\ step' = "apply" => done[q.run] = {}]_vars

\* A deployment reports success only for an infrastructure that is as its
\* commit wants it, and after an apply for outputs that are, unless somebody
\* else changed it after the deployment's last plan: the one it compared, or
\* after an apply the one that checks convergence.  What happens between the
\* first plan and the last is for the last one to find.
SuccessMeansConverged ==
    [][\A q \in running :
          /\ FinishNoOp \/ Converged
          /\ \/ \E r \in Resource : infra[r] # Config[q.commit][r]
             \/ Converged /\ output # Output[q.commit]
          => drifted]_vars
===========================================================================
