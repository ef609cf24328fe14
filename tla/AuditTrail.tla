----------------------------- MODULE AuditTrail -----------------------------
(***************************************************************************)
(* What the witness path promises an auditor, without queues or threads:   *)
(* every finished request meets one fate, a request counts as sealed only  *)
(* with its seal on disk, and a seal is never on disk without the records  *)
(* it binds, so whoever finds a seal can replay it (gate G1c of PROMPT.md, *)
(* "every sealed request in the run verifies externally").                 *)
(***************************************************************************)
EXTENDS FiniteSets

CONSTANTS
    Request,   \* finished requests
    Bound,     \* Bound[r]: the records the seal of r binds
    Seal       \* Seal[r]: the seal of r

VARIABLES
    fate,      \* fate[r]: "none", "pending", "sealed", "dropped" or "lost"
    disk       \* what an auditor of the store directory finds

vars == <<fate, disk>>

Init ==
    /\ fate = [r \in Request |-> "none"]
    /\ disk = {}

\* A finished request is taken on, or refused at once.
Accept(r) ==
    /\ fate[r] = "none"
    /\ \E f \in {"pending", "dropped"} : fate' = [fate EXCEPT ![r] = f]
    /\ UNCHANGED disk

\* The records of a pending request appear in any order, its seal after them.
Put(r) ==
    /\ fate[r] = "pending"
    /\ \/ \E o \in Bound[r] : disk' = disk \cup {o}
       \/ Bound[r] \subseteq disk /\ disk' = disk \cup {Seal[r]}
    /\ UNCHANGED fate

Certify(r) ==
    /\ fate[r] = "pending"
    /\ Seal[r] \in disk
    /\ fate' = [fate EXCEPT ![r] = "sealed"]
    /\ UNCHANGED disk

Drop(r) ==
    /\ fate[r] = "pending"
    /\ fate' = [fate EXCEPT ![r] = "dropped"]
    /\ UNCHANGED disk

\* The process ends with requests pending.
Lose ==
    /\ fate' = [r \in Request |-> IF fate[r] = "pending" THEN "lost" ELSE fate[r]]
    /\ UNCHANGED disk

Next ==
    \/ Lose
    \/ \E r \in Request : Accept(r) \/ Put(r) \/ Certify(r) \/ Drop(r)

Spec == Init /\ [][Next]_vars
=============================================================================
