---------------------------- MODULE MCEscalation ----------------------------
(* Three jobs of one tenant, enough to store a fix and reuse it until it is  *)
(* shared, and one of a tenant with a small budget that may then get it.     *)
EXTENDS Escalation

CONSTANTS j1, j2, j3, b1, alice, bob

MCJobs == {j1, j2, j3, b1}
MCTenants == {alice, bob}
MCTenantOf == [j \in MCJobs |-> IF j = b1 THEN bob ELSE alice]
MCProblemOf == [j \in MCJobs |-> IF j = j3 THEN "semgrep near" ELSE "semgrep"]
MCSimilar == {"semgrep", "semgrep near"} \X {"semgrep", "semgrep near"}
MCEnabled == MCTenants
MCConsenting == MCTenants
MCClean == {j1, j2, b1}
MCBudget == [t \in MCTenants |-> IF t = alice THEN 3 ELSE 1]
=============================================================================
