--------------------------- MODULE PlanAttestation ---------------------------
(***************************************************************************)
(* The value-free attestation of a Terraform plan: for every managed       *)
(* resource the plan's JSON lists, its sanitized address, its normalised   *)
(* action and the reason Terraform gives, and from these the counts and    *)
(* two flags.  Two attestations are compared field by field and by the     *)
(* fingerprint of the whole, which tells apart what the fields tell apart. *)
(*                                                                         *)
(* The list is sorted by its contents, so it is a bag.  Sanitizing hides   *)
(* string indices, ARNs, account numbers and the like, so resources may    *)
(* share an address.  Context fields, types, names and providers follow    *)
(* from the plan run and the resource.  What build_attestation has written *)
(* parse_attestation reads.                                                *)
(***************************************************************************)
EXTENDS Naturals, Sequences, FiniteSets

CONSTANTS
    Resource,     \* the managed resources
    Address       \* their sanitized addresses

ASSUME AttestationAssumption ==
    /\ IsFiniteSet(Resource)
    /\ DOMAIN Address = Resource

\* What a plan makes of a resource; "recreate" replaces a tainted one.
ChangeKinds == {"create", "update", "delete", "replace", "recreate"}
Kinds == ChangeKinds \union {"no-op", "unlisted"}

ChangeSets == [Resource -> Kinds]

\* The actions terraform show -json lists for a resource.
PlannedActions(kind) ==
    IF kind \in {"replace", "recreate"} THEN <<"delete", "create">> ELSE <<kind>>

\* Its action_reason.
Reason(kind) ==
    IF kind = "recreate"     THEN "replace_because_tainted"
    ELSE IF kind = "replace" THEN "replace_because_cannot_update"
    ELSE IF kind = "delete"  THEN "delete_because_no_resource_config"
    ELSE "none"

ActionOrder == {"create", "update", "delete", "replace", "no-op"}

\* SUPPORTED_ACTIONS: other lists are refused, and the plan run with them.
SupportedActions ==
    [actions \in {<<a>> : a \in ActionOrder \ {"replace"}}
                 \union {<<"delete", "create">>, <<"create", "delete">>} |->
        IF Len(actions) = 1 THEN actions[1] ELSE "replace"]

Action(kind) == SupportedActions[PlannedActions(kind)]

Listed(changes) == {r \in Resource : changes[r] # "unlisted"}

\* Mutant: the address is left out.
AttestedAnonymously(r, kind) == [action |-> Action(kind), action_reason |-> Reason(kind)]

\* _resources_from_plan, for one managed resource.
Attested(r, kind) ==
    [address |-> Address[r], action |-> Action(kind), action_reason |-> Reason(kind)]

\* The sorted list of all of them.
ResourceChanges(changes) ==
    [c \in {Attested(r, changes[r]) : r \in Listed(changes)} |->
        Cardinality({r \in Listed(changes) : Attested(r, changes[r]) = c})]

\* Some resource has one of these actions: their counts are not all zero.
Has(changes, actions) == \E r \in Listed(changes) : Action(changes[r]) \in actions

NoChanges(changes) == ~Has(changes, {"create", "update", "delete", "replace"})

\* Mutant: what destroys is what deletes.
DestructiveDeletes(changes) == Has(changes, {"delete"})

Destructive(changes) == Has(changes, {"delete", "replace"})

\* build_attestation; the counts follow from the list.
Attestation(changes) ==
    [resource_changes    |-> ResourceChanges(changes),
     destructive_changes |-> Destructive(changes),
     no_changes          |-> NoChanges(changes)]

\* compare_deployment_attestations
Matches(reviewed, regenerated) == Attestation(reviewed) = Attestation(regenerated)

\* The infrastructure has no indexed resources whose index is hidden, so its
\* addresses stay apart.
AddressesAreDistinct == \A r, s \in Resource : Address[r] = Address[s] => r = s
==============================================================================
