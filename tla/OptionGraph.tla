----------------------------- MODULE OptionGraph -----------------------------
(***************************************************************************)
(* The option-graph engine (agents/option_graph/engine.py): which options  *)
(* may be selected, and the patch a selection stands for.  The engine is   *)
(* deterministic and keeps nothing but the graph it was loaded with.       *)
(*                                                                         *)
(* A value of the specification is a list, or a scalar that stands alone.  *)
(* An item of a list has a name, by which append_if_missing and remove     *)
(* find it, and a body.                                                    *)
(***************************************************************************)
EXTENDS SpecIR

CONSTANTS
    Options,
    Rules,      \* the eligibility rules of each option
    Bindings,   \* the bindings of each option, in their order
    EntityPath, EndpointPath

List(items) == [list |-> TRUE, items |-> items]
Scalar(v) == [list |-> FALSE, items |-> <<v>>]
Items(value) == IF value.list THEN value.items ELSE <<>>

-----------------------------------------------------------------------------
(* Eligibility.  A context is the set of options selected so far and the   *)
(* vertical of the pack.                                                   *)

CheckRule(rule, ctx) ==
    \/ rule.type = "none"
    \/ rule.type = "requires_option" /\ rule.arg \in ctx.selected
    \/ rule.type = "conflicts_with" /\ rule.arg \notin ctx.selected
    \/ rule.type = "requires_vertical" /\ rule.arg = ctx.vertical

IsEligible(o, ctx) == \A rule \in Rules[o] : CheckRule(rule, ctx)

SectionStatus(options, ctx) ==
    [o \in options |-> [selected |-> o \in ctx.selected,
                        eligible |-> IsEligible(o, ctx)]]

-----------------------------------------------------------------------------
(* Bindings.  They build the patch from nothing: what the specification    *)
(* holds already is not looked at.                                         *)

Named(items, name) == {i \in DOMAIN items : items[i].name = name}

\* Slip: an absent list is not created.
ExistingNothing(patch, path) ==
    IF path \in DOMAIN patch THEN patch[path] ELSE Scalar("None")

Existing(patch, path) ==
    IF path \in DOMAIN patch THEN patch[path] ELSE List(<<>>)

SetNested(patch, path, value) ==
    [p \in DOMAIN patch \cup {path} |-> IF p = path THEN value ELSE patch[p]]

\* An item equal to the value is removed once, else all of its name.
Without(items, item) ==
    IF \E i \in DOMAIN items : items[i] = item
    THEN RemoveAt(items, CHOOSE i \in DOMAIN items :
                            /\ items[i] = item
                            /\ \A j \in 1..(i - 1) : items[j] # item)
    ELSE SelectSeq(items, LAMBDA x : x.name # item.name)

\* A list that is already in the patch is not extended by an item whose name
\* it has when the operation says so.
Appends(patch, b) ==
    /\ b.operation \in {"append", "append_if_missing"}
    /\ b.operation = "append_if_missing" =>
          Named(Existing(patch, b.path).items, b.value.name) = {}

BindingRaises(patch, b) ==
    \/ b.operation \notin {"set", "append", "append_if_missing", "remove"}
    \/ /\ b.operation \in {"append", "append_if_missing"}
       /\ ~Existing(patch, b.path).list

ApplyBinding(patch, b) ==
    LET old == Existing(patch, b.path)
    IN CASE b.operation = "set" -> SetNested(patch, b.path, Scalar(b.value))
         [] Appends(patch, b) ->
              SetNested(patch, b.path, List(Append(old.items, b.value)))
         [] b.operation = "append_if_missing" /\ ~Appends(patch, b) -> patch
         [] b.operation = "remove" ->
              IF b.path \in DOMAIN patch /\ old.list
              THEN SetNested(patch, b.path, List(Without(old.items, b.value)))
              ELSE patch

NoPatch == [p \in {} |-> List(<<>>)]

Step(acc, b) ==
    IF ~acc.ok \/ BindingRaises(acc.patch, b)
    THEN [acc EXCEPT !.ok = FALSE]
    ELSE [ok |-> TRUE,
          patch |-> ApplyBinding(acc.patch, b),
          entities |-> acc.entities
             + IF Appends(acc.patch, b) /\ b.path = EntityPath THEN 1 ELSE 0,
          endpoints |-> acc.endpoints
             + IF Appends(acc.patch, b) /\ b.path = EndpointPath THEN 1 ELSE 0]

\* What the bindings of an option make, after each of them.
Applied(o, ctx) ==
    LET acc[i \in 0..Len(Bindings[o])] ==
            IF i = 0
            THEN [ok |-> IsEligible(o, ctx), patch |-> NoPatch,
                  entities |-> 0, endpoints |-> 0]
            ELSE Step(acc[i - 1], Bindings[o][i])
    IN acc

\* The delta of an option, or a ValueError (ok is FALSE).
EvaluateSelection(o, ctx) == Applied(o, ctx)[Len(Bindings[o])]

\* One provenance entry for each binding.
Provenance(o) == [i \in DOMAIN Bindings[o] |-> Bindings[o][i].path]

-----------------------------------------------------------------------------
(* What the packs of the repository keep to, and nothing that loads a pack *)
(* asks for: no option excludes itself, every operation is a known one, an *)
(* option does not append to what it has set, and it only appends to the   *)
(* list of entities.                                                       *)

Appending == {"append", "append_if_missing"}

PackIsConsistent ==
    \A o \in Options :
        /\ \A rule \in Rules[o] : rule.type = "conflicts_with" => rule.arg # o
        /\ Bindings[o] \in Seq({Bindings[o][i] : i \in DOMAIN Bindings[o]})
        /\ \A i \in DOMAIN Bindings[o] :
              LET b == Bindings[o][i]
              IN /\ b.operation \in Appending \cup {"set", "remove"}
                 /\ b.path = EntityPath => b.operation \in Appending
                 /\ b.operation \in Appending =>
                       \A j \in 1..(i - 1) :
                          Bindings[o][j].path = b.path =>
                             Bindings[o][j].operation # "set"
=============================================================================
