---------------------- MODULE MCMPIDisseminationBarrier ----------------------
(***************************************************************************)
(* The instance of MPIDisseminationBarrier that TLC checks.                *)
(***************************************************************************)
EXTENDS MPIDisseminationBarrier

MCPow2 == [k \in 0..num_rounds |-> 2 ^ k]
=============================================================================
