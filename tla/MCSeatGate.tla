------------------------------- MODULE MCSeatGate -------------------------------
(***************************************************************************)
(* Four subagents of a run whose bound moves between one and three.          *)
(***************************************************************************)
EXTENDS SeatGate

CONSTANTS s1, s2, s3, s4
================================================================================
