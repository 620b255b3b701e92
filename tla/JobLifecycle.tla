--------------------------- MODULE JobLifecycle ----------------------------
(***************************************************************************)
(* What the processing pipeline promises about one document job, with      *)
(* every operation atomic: no snapshots, no clocks, no leases.  A job is   *)
(* claimed by one attempt at a time, each claim counts, an attempt that    *)
(* owns the job (and no other) ends its own claim, the stored result is    *)
(* the owner's, a job dies only after it was attempted, and a terminal job *)
(* stays as it is.                                                         *)
(***************************************************************************)
EXTENDS Integers

CONSTANT Attempt    \* attempt identifiers, 0 excluded

VARIABLES
    status,
    attempts,       \* claims so far
    owner,          \* the attempt that holds the job, 0 for none
    result          \* the attempt whose extraction is stored, 0 for none

life == <<status, attempts, owner, result>>

LifeInit ==
    /\ status \in {"ABSENT", "PENDING_UPLOAD"}
    /\ attempts = 0
    /\ owner = 0
    /\ result = 0

\* Only the passing of the lease, which this level does not show, takes a
\* job from its owner; the new owner is another attempt.
Claim(a) ==
    /\ \/ status = "PENDING_UPLOAD"
       \/ status = "PROCESSING" /\ owner # a
    /\ status' = "PROCESSING"
    /\ attempts' = attempts + 1
    /\ owner' = a
    /\ UNCHANGED result

Release ==
    /\ status = "PROCESSING"
    /\ status' = "PENDING_UPLOAD"
    /\ owner' = 0
    /\ UNCHANGED <<attempts, result>>

Succeed ==
    /\ status = "PROCESSING"
    /\ status' = "SUCCEEDED"
    /\ owner' = 0
    /\ result' = owner
    /\ UNCHANGED attempts

Fail ==
    /\ status = "PROCESSING"
    /\ status' = "FAILED"
    /\ owner' = 0
    /\ UNCHANGED <<attempts, result>>

Die ==
    /\ status = "PROCESSING" \/ (status = "PENDING_UPLOAD" /\ attempts >= 1)
    /\ status' = "DEAD"
    /\ owner' = 0
    /\ UNCHANGED <<attempts, result>>

LifeNext == (\E a \in Attempt : Claim(a)) \/ Release \/ Succeed \/ Fail \/ Die

LifeSpec == LifeInit /\ [][LifeNext]_life
===========================================================================
