-------------------------- MODULE MCGenerateRequest --------------------------
(***************************************************************************)
(* Instance of GenerateRequest for TLC: three requests to generate and one *)
(* to save a draft, for two different specs.                               *)
(***************************************************************************)
EXTENDS GenerateRequest

CONSTANTS g1, g2, g3, d1, h1, h2

MCGenerators == {g1, g2, g3}
MCDrafters == {d1}
MCHashes == {h1, h2}
==============================================================================
