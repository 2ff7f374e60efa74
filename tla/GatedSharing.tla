---------------------------- MODULE GatedSharing ----------------------------
(***************************************************************************)
(* What the escalation memory and the semantic cache promise alike: a      *)
(* result belongs to the tenant whose job produced it, and another tenant  *)
(* gets it only after it was reused often enough to be shared.  What a     *)
(* newer result has replaced earns nothing for its successor.              *)
(***************************************************************************)
EXTENDS Naturals, Sequences

CONSTANTS Tenants, PromoteAt

VARIABLES
    owner,      \* the tenant of each result, in the order they were stored
    reuses,     \* how often each was reused
    shared,     \* those that any tenant may get
    served      \* which tenant got which

vars == <<owner, reuses, shared, served>>

Init ==
    /\ owner = <<>>
    /\ reuses = <<>>
    /\ shared = {}
    /\ served = {}

Store(t) ==
    /\ owner' = Append(owner, t)
    /\ reuses' = Append(reuses, 0)
    /\ UNCHANGED <<shared, served>>

\* A result counts a reuse, is shared once it has enough of them, and is given
\* to a tenant it belongs to or was shared with before, or some of this.
Use(i) ==
    /\ reuses' \in {reuses, [reuses EXCEPT ![i] = @ + 1]}
    /\ shared' \in {shared, shared \cup {i}}
    /\ shared' # shared => reuses'[i] >= PromoteAt
    /\ served' \in {served} \cup
          {served \cup {<<t, i>>} :
              t \in {t \in Tenants : t = owner[i] \/ i \in shared}}
    /\ UNCHANGED owner

Next ==
    \/ \E t \in Tenants : Store(t)
    \/ \E i \in DOMAIN owner : Use(i)

Spec == Init /\ [][Next]_vars
=============================================================================
