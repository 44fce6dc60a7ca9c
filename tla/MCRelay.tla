------------------------------ MODULE MCRelay ------------------------------
(***************************************************************************)
(* Two bridge generations: in the first both ends send a message, in the   *)
(* second the desktop sends two of two fragments each.                     *)
(***************************************************************************)
EXTENDS RelaySession

MCWorkload == [e \in Ends |-> IF e = Host THEN <<<<1>>, <<2, 2>>>>
                                         ELSE <<<<1>>, <<>>>>]

=============================================================================
