-------------------------- MODULE MCGenerationGraph --------------------------
(***************************************************************************)
(* Instance of GenerationGraph for TLC: a protected scaffold file, pom, and*)
(* a source file, src, which two modules and the reviewer's stub share.    *)
(***************************************************************************)
EXTENDS GenerationGraph

CONSTANTS pom, src

MCPaths == {pom, src}
MCScaffold == {pom}
MCProtected == {pom}
MCOwnPath == [m \in 1..MaxModules |-> src]

\* A passing report, reports that blame the source or the protected file, and
\* a report that fails without naming a file.
MCVerdicts ==
    {[passed |-> TRUE, failing |-> {}],
     [passed |-> FALSE, failing |-> {src}],
     [passed |-> FALSE, failing |-> {pom, src}],
     [passed |-> FALSE, failing |-> {}]}
==============================================================================
