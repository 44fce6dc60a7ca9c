---------------------------- MODULE MCRunService ----------------------------
(***************************************************************************)
(* The run service for TLC, with two holes. The holes are interchangeable, *)
(* but a symmetry set would be unsound here: CallsReturn is checked in the *)
(* same run.                                                               *)
(***************************************************************************)
EXTENDS RunService

CONSTANTS h1, h2
=============================================================================
