----------------------- MODULE MCDisseminationBarrier -----------------------
(***************************************************************************)
(* The instance of DisseminationBarrier that TLC checks: 5 threads are not *)
(* a power of two, so that the last of 3 rounds tells a thread of arrivals *)
(* that an earlier round has told it of.                                   *)
(***************************************************************************)
EXTENDS DisseminationBarrier

MCPow2 == [k \in 0..total_rounds |-> 2 ^ k]
=============================================================================
