--------------------------- MODULE RecordDelivery ---------------------------
(***************************************************************************)
(* What the control plane and one DNS agent promise together about record  *)
(* changes: a change is served only after it was committed, a change that  *)
(* is served stays served, and every committed change comes to be served,  *)
(* or the control plane shows that it gave up on it.                       *)
(* The writes are numbered in commit order; all of them add a record.      *)
(***************************************************************************)
EXTENDS Integers

CONSTANT MaxWrites \* bound: changes ever committed

VARIABLES
    records,  \* the record changes committed so far
    served,   \* the record changes the DNS daemon serves
    failed    \* those the control plane has given up sending

deliveryVars == <<records, served, failed>>

DeliveryInit == records = {} /\ served = {} /\ failed = {}

CommitRecord ==
    /\ \E n \in 1 .. MaxWrites : n \notin records /\ records' = records \cup {n}
    /\ UNCHANGED <<served, failed>>

\* Some of what is committed and not served yet begins to be served.
Serve ==
    /\ served' \in SUBSET records
    /\ served \subseteq served'
    /\ served' # served
    /\ UNCHANGED <<records, failed>>

\* For good: a record given up may still come to be served with a whole body.
GiveUp ==
    /\ \E n \in records \ failed : failed' = failed \cup {n}
    /\ UNCHANGED <<records, served>>

DeliveryNext == CommitRecord \/ Serve \/ GiveUp

DeliverySafety == DeliveryInit /\ [][DeliveryNext]_deliveryVars

\* The whole promise.  Writes are bounded and nothing leaves `served' or
\* `failed', so this says of each record that it gets there.
DeliverySpec ==
    /\ DeliverySafety
    /\ []<>(records \subseteq served \cup failed)
=============================================================================
