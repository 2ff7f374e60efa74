---------------------------- MODULE MCSpecDialogue ----------------------------
(* Two users, four options that append, set, require and conflict, and the  *)
(* kinds of patches a model answers with.                                   *)
EXTENDS SpecDialogue

CONSTANTS u1, u2

MCUsers == {u1, u2}
MCPaths == {"entities", "endpoints", "payment"}
MCDotted == {"domain_model.entities"}

Review(body) == [name |-> "Review", body |-> body]
MCList(items) == [list |-> TRUE, items |-> items]
Word(w) == [name |-> w, body |-> "word"]
MCScalar(w) == [list |-> FALSE, items |-> <<Word(w)>>]

MCValues ==
    {MCList(<<>>), MCList(<<Review("full")>>), MCList(<<Review("short")>>),
     MCScalar("none"), MCScalar("razorpay"), MCScalar("stripe")}
MCDefault == [p \in MCPaths |-> IF p = "payment" THEN MCScalar("none")
                                ELSE MCList(<<>>)]

Rule(type, arg) == [type |-> type, arg |-> arg]
Bind(path, operation, value) ==
    [path |-> path, operation |-> operation, value |-> value]

MCOptions == {"reviews", "razorpay", "stripe", "pci"}
MCRules ==
    [o \in MCOptions |->
        CASE o = "reviews" -> {Rule("requires_vertical", "ecommerce")}
          [] o = "razorpay" -> {Rule("none", "none")}
          [] o = "stripe" -> {Rule("conflicts_with", "razorpay")}
          [] o = "pci" -> {Rule("requires_option", "razorpay")}]
MCBindings ==
    [o \in MCOptions |->
        CASE o = "reviews" ->
               <<Bind("entities", "append_if_missing", Review("full")),
                 Bind("entities", "append_if_missing", Review("short")),
                 Bind("endpoints", "append", Review("full"))>>
          [] o = "razorpay" -> <<Bind("payment", "set", Word("razorpay"))>>
          [] o = "stripe" -> <<Bind("payment", "set", Word("stripe"))>>
          [] o = "pci" ->
               <<Bind("endpoints", "append", Review("full")),
                 Bind("endpoints", "append", Review("short")),
                 Bind("endpoints", "remove", Review("full"))>>]

ASSUME PackAssumption == PackIsConsistent

MCMessages ==
    {[integrations |-> {"razorpay"}, documented |-> {}, regulations |-> {},
      mentioned |-> {}, known |-> {}, short |-> FALSE],
     [integrations |-> {}, documented |-> {}, regulations |-> {},
      mentioned |-> {"Order"}, known |-> {"Order"}, short |-> FALSE]}

\* A patch with the dotted key the prompts ask for beside a nested one.
Edit == ("entities" :> MCList(<<Review("short")>>))
        @@ ("domain_model.entities" :> MCList(<<Review("full")>>))
MCJunk == {MCScalar("nonsense")}
Broken == "endpoints" :> MCScalar("nonsense")
MCProposals == {Edit, Broken}
=============================================================================
