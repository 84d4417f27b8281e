------------------------------ MODULE Barrier ------------------------------
(***************************************************************************)
(* What every barrier of Barrier_Synchronization promises to a program     *)
(* that calls it in a loop: nobody returns from its n-th call before       *)
(* everybody has entered theirs.                                           *)
(***************************************************************************)
EXTENDS Naturals

CONSTANTS
    Procs,      \* the threads, or processes, that the barrier is built for
    Calls       \* calls that each of them makes (NUM_ITERATIONS of the tests)

VARIABLES
    entered,    \* calls that a process has begun
    returned    \* calls that have returned to it

bvars == <<entered, returned>>

Init ==
    /\ entered = [p \in Procs |-> 0]
    /\ returned = [p \in Procs |-> 0]

Enter(p) ==
    /\ entered[p] = returned[p]
    /\ entered[p] < Calls
    /\ entered' = [entered EXCEPT ![p] = @ + 1]
    /\ UNCHANGED returned

Return(p) ==
    /\ returned[p] < entered[p]
    /\ \A q \in Procs : entered[q] >= entered[p]
    /\ returned' = [returned EXCEPT ![p] = @ + 1]
    /\ UNCHANGED entered

Next == \E p \in Procs : Enter(p) \/ Return(p)

Spec == Init /\ [][Next]_bvars
-----------------------------------------------------------------------------
\* No process is ahead of another by a completed call that the other has not
\* even begun: the reason to call a barrier.
Together == \A p, q \in Procs : returned[p] <= entered[q]

\* Every process gets through all its calls.
EveryCallReturns == <>[](\A p \in Procs : returned[p] = Calls)
=============================================================================
