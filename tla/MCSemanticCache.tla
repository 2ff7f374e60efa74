---------------------------- MODULE MCSemanticCache ----------------------------
(* Two tenants and a look-up without one, two keys, three entries.           *)
EXTENDS SemanticCache

CONSTANTS t1, t2, anyone, k1, k2

MCTenants == {t1, t2}
MCKeys == {k1, k2}
MCTTLs == {0, 2}
=============================================================================
