-------------------------------- MODULE SpecIR --------------------------------
(***************************************************************************)
(* The application specification as agents see it (core/spec_ir.py): a     *)
(* value with a version, a status, a lock, a hash and a content, which is  *)
(* never changed in place.  A delta makes the next version, a lock makes   *)
(* the last one.                                                           *)
(*                                                                         *)
(* The content maps each path of the specification to what stands there.   *)
(* A patch is a nested dictionary: it maps some paths to new values.  A    *)
(* patch written with a dot inside a key ("domain_model.entities") has a   *)
(* top-level key that is no field of ApplicationSpec.                      *)
(***************************************************************************)
EXTENDS Naturals, SequencesExt

CONSTANTS
    Paths,      \* the paths a patch can address by nesting
    Dotted,     \* the same paths written as one key with dots
    Values,     \* what can stand at a path
    Junk,       \* what a patch can hold besides, and no field takes
    Default     \* what make_empty_spec puts at each path

ASSUME SpecAssumption ==
    /\ Paths \cap Dotted = {}
    /\ Default \in [Paths -> Values]

Keys == Paths \cup Dotted

\* The patches, that is the functions from some keys to values.
Patches == UNION {[K -> Values \cup Junk] : K \in SUBSET Keys}

\* The hash leaves out every volatile field: it is a function of the content,
\* and two contents are taken to have two hashes.
ComputeHash(content) == <<content>>
NoHash == <<>>

ApplicationSpec ==
    [version : Nat \ {0},
     status : {"draft", "in_review", "frozen"},
     frozen : BOOLEAN,
     hash : {NoHash} \cup {ComputeHash(c) : c \in [Paths -> Values]},
     content : [Paths -> Values],
     provenance : Seq(Paths)]

MakeEmptySpec ==
    [version |-> 1, status |-> "draft", frozen |-> FALSE, hash |-> NoHash,
     content |-> Default, provenance |-> <<>>]

\* Slip: the merge takes what the patch leaves out for absent.
DeepMergeResets(content, patch) ==
    [p \in Paths |-> IF p \in DOMAIN patch THEN patch[p] ELSE Default[p]]

\* What a patch addresses replaces what was there, lists included; keys that
\* are no fields are dropped when the merged dictionary is validated.
DeepMerge(content, patch) ==
    [p \in Paths |-> IF p \in DOMAIN patch THEN patch[p] ELSE content[p]]

\* Slip: the guard looks at a status, and a lock does not leave that one.
TakesDeltaUnlessApproved(spec, patch) ==
    /\ spec.status # "approved"
    /\ DeepMerge(spec.content, patch) \in [Paths -> Values]

\* A frozen specification takes no delta, and what comes of a merge has to
\* validate.
TakesDelta(spec, patch) ==
    /\ ~spec.frozen
    /\ DeepMerge(spec.content, patch) \in [Paths -> Values]

ApplyDelta(spec, patch, sources) ==
    [spec EXCEPT !.version = @ + 1,
                 !.status = "in_review",
                 !.frozen = FALSE,
                 !.hash = NoHash,
                 !.content = DeepMerge(@, patch),
                 !.provenance = @ \o sources]

Freeze(spec) ==
    [spec EXCEPT !.frozen = TRUE,
                 !.status = "frozen",
                 !.hash = ComputeHash(spec.content)]
=============================================================================
