---------------------------- MODULE GatedDelivery ----------------------------
(***************************************************************************)
(* What the generation pipeline promises for one job, without saying how:  *)
(* a tree of files is built, a gate judges it, a rejected tree is repaired *)
(* and judged again at most Limit times, and the only tree that is ever    *)
(* delivered is the one the gate accepted last.  A job whose repairs are   *)
(* used up is handed to a human, and a job that is lost (its process dies) *)
(* may be begun again from nothing.  GenerationGraph implements this.      *)
(***************************************************************************)
EXTENDS Naturals

CONSTANTS
    Limit,      \* how many repairs one run may make: a natural number
    Trees       \* the trees of files a run can hold

VARIABLES
    stage,      \* where the run is
    attempts,   \* repairs made by the run
    tree,       \* the tree the run holds
    judged      \* the tree the gate judged last

vars == <<stage, attempts, tree, judged>>

Idle == {"idle", "delivered", "handed_over"}
Live == {"building", "accepted", "rejected", "exhausted"}

TypeOK ==
    /\ stage \in Idle \cup Live
    /\ attempts \in 0..Limit
    /\ tree \in Trees
    /\ judged \in Trees

Init ==
    /\ stage = "idle"
    /\ attempts = 0
    /\ tree \in Trees
    /\ judged \in Trees

\* A run begins with an empty count of repairs, whatever an earlier run did.
Begin ==
    /\ stage \in Idle
    /\ stage' = "building"
    /\ attempts' = 0
    /\ tree' \in Trees
    /\ judged' \in Trees

Build ==
    /\ stage = "building"
    /\ tree' \in Trees
    /\ UNCHANGED <<stage, attempts, judged>>

Accept ==
    /\ stage = "building"
    /\ stage' = "accepted"
    /\ judged' = tree
    /\ UNCHANGED <<attempts, tree>>

\* A rejected tree is repaired while repairs are left, and only then.
Reject ==
    /\ stage = "building"
    /\ stage' = IF attempts < Limit THEN "rejected" ELSE "exhausted"
    /\ judged' = tree
    /\ UNCHANGED <<attempts, tree>>

Repair ==
    /\ stage = "rejected"
    /\ stage' = "building"
    /\ attempts' = attempts + 1
    /\ tree' \in Trees
    /\ UNCHANGED judged

Deliver ==
    /\ stage = "accepted"
    /\ tree = judged
    /\ stage' = "delivered"
    /\ UNCHANGED <<attempts, tree, judged>>

HandOver ==
    /\ stage = "exhausted"
    /\ attempts = Limit
    /\ stage' = "handed_over"
    /\ UNCHANGED <<attempts, tree, judged>>

\* Work a human approved goes back to the gate, never straight to delivery.
Approved ==
    /\ stage = "exhausted"
    /\ stage' = "building"
    /\ UNCHANGED <<attempts, tree, judged>>

Lose ==
    /\ stage \in Live
    /\ stage' = "idle"
    /\ UNCHANGED <<attempts, tree, judged>>

Next ==
    \/ Begin \/ Build \/ Accept \/ Reject \/ Repair
    \/ Deliver \/ HandOver \/ Approved \/ Lose

Spec == Init /\ [][Next]_vars
==============================================================================
