------------------------------- MODULE MCGovernor -------------------------------
(***************************************************************************)
(* Two runs share a key: A with the requesters a1 and a2, B with b1; agent    *)
(* is the main agent.                                                       *)
(***************************************************************************)
EXTENDS ConcurrencyGovernor

CONSTANTS a1, a2, b1, agent, A, B

MCRunOf == [r \in Requests |-> IF r = agent THEN Observer ELSE IF r = b1 THEN B ELSE A]
================================================================================
