----------------------------- MODULE MCCapacity -----------------------------
(***************************************************************************)
(* Instance of Capacity for TLC: jobs of two tenants, calls to acquire     *)
(* and to release a slot.                                                  *)
(***************************************************************************)
EXTENDS Capacity

CONSTANTS j1, j2, j3, t1, t2, a1, a2, a3, r1, r2

MCJobs == {j1, j2, j3}
MCTenants == {t1, t2}

\* j1 and j2 are of one tenant, j3 is of another.
MCTenantOf == [j \in MCJobs |-> IF j = j3 THEN t2 ELSE t1]

\* j1 calls twice and is released twice.
MCAcquires == {a1, a2, a3}
MCReleases == {r1, r2}
MCJobOf == [c \in MCAcquires \cup MCReleases |-> IF c = a2 THEN j2 ELSE j1]
=============================================================================
