---------------------------- MODULE MCJobService -----------------------------
(***************************************************************************)
(* Instance of JobService for TLC: one job, two concurrent submissions of  *)
(* answers (or none), one watching client.                                 *)
(***************************************************************************)
EXTENDS JobService

CONSTANTS creator, a1, a2, c1

MCAnswers == {a1, a2}
MCNoAnswers == {}
MCClients == {c1}
MCOutcomes == {"delivered", "paused_human"}
==============================================================================
