-------------------------- MODULE CombinedBarrier --------------------------
(***************************************************************************)
(* The MPI-OpenMP barrier of Combined/combined_barrier.c, called in a loop *)
(* by every thread of every process.  The threads of a process meet in the *)
(* OpenMP dissemination barrier, thread 0 then goes to the MCS barrier of  *)
(* the processes and flips globalsense, on which its other threads spin.   *)
(* The two inner barriers are used by what they promise (module Barrier):  *)
(* a call returns when all have entered it.                                *)
(***************************************************************************)
EXTENDS Integers

CONSTANTS
    numProcesses,
    num_threads,    \* per process
    Calls           \* NUM_ITERATIONS

Ranks == 0..(numProcesses - 1)
Threads == 0..(num_threads - 1)
Workers == Ranks \X Threads

ASSUME SizeAssumption ==
    numProcesses \in Nat \ {0} /\ num_threads \in Nat \ {0}
ASSUME LoopAssumption == Calls \in Nat

VARIABLES
    globalsense,    \* of each process
    localsense,     \* of each call: a local variable of combined_barrier
    pc,             \* where a thread is in combined_barrier
    calls           \* the loop counter of the program: calls completed

vars == <<globalsense, localsense, pc, calls>>

Init ==
    /\ globalsense = [r \in Ranks |-> 1]
    /\ localsense = [w \in Workers |-> 1]
    /\ pc = [w \in Workers |-> "out"]
    /\ calls = [w \in Workers |-> 0]

Goto(w, from, to) ==
    /\ pc[w] = from
    /\ pc' = [pc EXCEPT ![w] = to]

\* Calls of the inner barriers that a thread, or a process, has entered.
OmpEntered(w) == calls[w] + (IF pc[w] \in {"out", "omp_call"} THEN 0 ELSE 1)
McsEntered(r) ==
    calls[<<r, 0>>] + (IF pc[<<r, 0>>] \in {"mcs", "flip"} THEN 1 ELSE 0)

ReadSense(r, t) ==
    /\ calls[<<r, t>>] < Calls
    /\ Goto(<<r, t>>, "out", "omp_call")
    /\ localsense' = [localsense EXCEPT ![<<r, t>>] = globalsense[r]]
    /\ UNCHANGED <<globalsense, calls>>

OmpEnter(r, t) ==
    /\ Goto(<<r, t>>, "omp_call", "omp")
    /\ UNCHANGED <<globalsense, localsense, calls>>

\* Mutation of OmpReturn: localsense is set after the OpenMP barrier.
OmpReturnAndRead(r, t) ==
    /\ \A u \in Threads : OmpEntered(<<r, u>>) >= OmpEntered(<<r, t>>)
    /\ Goto(<<r, t>>, "omp", IF t = 0 THEN "mcs" ELSE "spin")
    /\ localsense' = [localsense EXCEPT ![<<r, t>>] = globalsense[r]]
    /\ UNCHANGED <<globalsense, calls>>

\* Thread 0 goes on into the MCS barrier, the others spin.
OmpReturn(r, t) ==
    /\ \A u \in Threads : OmpEntered(<<r, u>>) >= OmpEntered(<<r, t>>)
    /\ Goto(<<r, t>>, "omp", IF t = 0 THEN "mcs" ELSE "spin")
    /\ UNCHANGED <<globalsense, localsense, calls>>

\* Mutation of McsReturn: the processes do not meet.
McsReturnAlone(r) ==
    /\ Goto(<<r, 0>>, "mcs", "flip")
    /\ UNCHANGED <<globalsense, localsense, calls>>

McsReturn(r) ==
    /\ \A q \in Ranks : McsEntered(q) >= McsEntered(r)
    /\ Goto(<<r, 0>>, "mcs", "flip")
    /\ UNCHANGED <<globalsense, localsense, calls>>

\* Mutation of Flip: globalsense is counted up, not inverted.
FlipByCounting(r) ==
    /\ Goto(<<r, 0>>, "flip", "out")
    /\ globalsense' = [globalsense EXCEPT ![r] = @ + 1]
    /\ calls' = [calls EXCEPT ![<<r, 0>>] = @ + 1]
    /\ UNCHANGED localsense

Flip(r) ==
    /\ Goto(<<r, 0>>, "flip", "out")
    /\ globalsense' = [globalsense EXCEPT ![r] = 1 - @]
    /\ calls' = [calls EXCEPT ![<<r, 0>>] = @ + 1]
    /\ UNCHANGED localsense

\* The read that ends the spinning, and the return.
Leave(r, t) ==
    /\ localsense[<<r, t>>] # globalsense[r]
    /\ Goto(<<r, t>>, "spin", "out")
    /\ calls' = [calls EXCEPT ![<<r, t>>] = @ + 1]
    /\ UNCHANGED <<globalsense, localsense>>

Step(r, t) ==
    \/ ReadSense(r, t) \/ OmpEnter(r, t) \/ OmpReturn(r, t) \/ Leave(r, t)
    \/ t = 0 /\ (McsReturn(r) \/ Flip(r))

\* The parallel regions end when every thread is through its loop.
Terminated ==
    /\ \A w \in Workers : pc[w] = "out" /\ calls[w] = Calls
    /\ UNCHANGED vars

Next == Terminated \/ \E r \in Ranks, t \in Threads : Step(r, t)

\* Every thread runs, and an inner barrier that all have entered lets all go.
Spec ==
    /\ Init
    /\ [][Next]_vars
    /\ \A r \in Ranks, t \in Threads : WF_vars(Step(r, t))
-----------------------------------------------------------------------------
TypeOK ==
    /\ globalsense \in [Ranks -> {0, 1}]
    /\ localsense \in [Workers -> {0, 1}]
    /\ pc \in [Workers -> {"out", "omp_call", "omp", "mcs", "flip", "spin"}]
    /\ calls \in [Workers -> 0..Calls]
    /\ \A w \in Workers : pc[w] # "out" => calls[w] < Calls
    /\ \A w \in Workers : pc[w] \in {"mcs", "flip"} => w[2] = 0
    /\ \A w \in Workers : pc[w] = "spin" => w[2] # 0

\* The unsynchronised read of line 21 never straddles the flip: the threads
\* of a process that are in the same call have read the same globalsense.
SameSense ==
    \A r \in Ranks : \A t, u \in Threads :
        /\ pc[<<r, t>>] # "out" /\ pc[<<r, u>>] # "out"
        /\ calls[<<r, t>>] = calls[<<r, u>>]
        => localsense[<<r, t>>] = localsense[<<r, u>>]

Entered == [w \in Workers |-> calls[w] + (IF pc[w] = "out" THEN 0 ELSE 1)]

Promise == INSTANCE Barrier WITH
    Procs <- Workers, entered <- Entered, returned <- calls

\* The barrier holds for all threads of all processes: nobody leaves a call
\* before every thread of every process has entered it.
Refines == Promise!Spec

\* The barrier opens: no thread misses the flip of globalsense it spins on.
EveryCallReturns == Promise!EveryCallReturns
=============================================================================
