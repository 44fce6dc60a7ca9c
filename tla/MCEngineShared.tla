----------------------------- MODULE MCEngineShared -----------------------------
(***************************************************************************)
(* Two branches first ask a subagent of their own and then the same third  *)
(* one, each at call sites of its own: replayed asks and new asks of one   *)
(* subagent meet, in whatever order the answers let them.                  *)
(***************************************************************************)
EXTENDS WorkflowEngine, TLC

CONSTANTS s1, s2, s3, s4, a1, a2, a3, b1, b2

MCActorOrder  == (a1 :> 1) @@ (a2 :> 2) @@ (a3 :> 3)
MCBranchOrder == <<b1, b2>>
MCProg == (b1 :> <<<<s1, a1>>, <<s2, a3>>>>) @@ (b2 :> <<<<s3, a2>>, <<s4, a3>>>>)
================================================================================
