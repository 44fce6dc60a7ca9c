----------------------------- MODULE MCEngineFanOut -----------------------------
(***************************************************************************)
(* Two branches on two subagents run the same two call sites, as the       *)
(* callback of a fan-out does: which of them gets which ordinal of the     *)
(* second site is decided by the order in which the first asks settled.    *)
(***************************************************************************)
EXTENDS EngineRefinement, TLC

CONSTANTS s1, s2, a1, a2, b1, b2

MCActorOrder  == (a1 :> 1) @@ (a2 :> 2)
MCBranchOrder == <<b1, b2>>
MCProg == (b1 :> <<<<s1, a1>>, <<s2, a1>>>>) @@ (b2 :> <<<<s1, a2>>, <<s2, a2>>>>)
================================================================================
