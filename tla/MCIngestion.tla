---------------------------- MODULE MCIngestion ----------------------------
(* Two tenants' documents and an object without a prefix; a long, a short,   *)
(* a hopeless and a too short text.                                          *)
EXTENDS Ingestion, TLC

MCTenants == {"a", "b"}
MCObjectKeys == {"a/1", "b/1", "loose"}
MCTenantOf == ("a/1" :> "a") @@ ("b/1" :> "b") @@ ("loose" :> "none")

Text(name, words, readable) ==
    [name |-> name, words |-> words, readable |-> readable]
MCTexts == {Text("long", 7, TRUE), Text("short", 3, TRUE),
            Text("broken", 5, FALSE), Text("scrap", 1, TRUE)}
=============================================================================
