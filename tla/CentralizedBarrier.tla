------------------------- MODULE CentralizedBarrier -------------------------
(***************************************************************************)
(* The sense-reversing counter barrier of OpenMP/Centralized, called in a  *)
(* loop by every thread of a parallel region (test_centralized.c).  An     *)
(* access to shared memory is one step.  Threads spin on globalsense       *)
(* outside the critical section in which the last one writes it.           *)
(***************************************************************************)
EXTENDS Integers, FiniteSets

CONSTANTS
    num_threads,
    Calls,      \* NUMBER_OF_ITER
    Nobody      \* no thread is in the critical section

Threads == 0..(num_threads - 1)

ASSUME ThreadsAssumption == num_threads \in Nat \ {0}
ASSUME LoopAssumption == Calls \in Nat
ASSUME NobodyAssumption == Nobody \notin Threads

VARIABLES
    count,          \* threads that have not arrived
    globalsense,
    localsense,
    critical,       \* the thread in the omp critical section, or Nobody
    loaded,         \* the value of count in a thread's register
    pc,             \* where a thread is in OpenMP_CentralizedBarrier
    calls           \* the loop counter of the program: calls completed

vars == <<count, globalsense, localsense, critical, loaded, pc, calls>>

Init ==
    /\ count = num_threads
    /\ globalsense = 1
    /\ localsense = [t \in Threads |-> 1]
    /\ critical = Nobody
    /\ loaded = [t \in Threads |-> 0]
    /\ pc = [t \in Threads |-> "out"]
    /\ calls = [t \in Threads |-> 0]

Goto(t, from, to) ==
    /\ pc[t] = from
    /\ pc' = [pc EXCEPT ![t] = to]

\* Mutation of Flip: the sense of the thread is the same in every call.
FlipNothing(t) ==
    /\ calls[t] < Calls
    /\ Goto(t, "out", "enter")
    /\ UNCHANGED <<count, globalsense, localsense, critical, loaded, calls>>

Flip(t) ==
    /\ calls[t] < Calls
    /\ Goto(t, "out", "enter")
    /\ localsense' = [localsense EXCEPT ![t] = 1 - @]
    /\ UNCHANGED <<count, globalsense, critical, loaded, calls>>

\* Mutation of EnterCritical: count is not guarded.
EnterUnguarded(t) ==
    /\ Goto(t, "enter", "load")
    /\ critical' = t
    /\ UNCHANGED <<count, globalsense, localsense, loaded, calls>>

EnterCritical(t) ==
    /\ critical = Nobody
    /\ Goto(t, "enter", "load")
    /\ critical' = t
    /\ UNCHANGED <<count, globalsense, localsense, loaded, calls>>

LoadCount(t) ==
    /\ Goto(t, "load", "store")
    /\ loaded' = [loaded EXCEPT ![t] = count]
    /\ UNCHANGED <<count, globalsense, localsense, critical, calls>>

\* All but the last thread leave the critical section here.
StoreCount(t) ==
    /\ count' = loaded[t] - 1
    /\ IF count' = 0
       THEN Goto(t, "store", "reset") /\ UNCHANGED critical
       ELSE Goto(t, "store", "spin") /\ critical' = Nobody
    /\ UNCHANGED <<globalsense, localsense, loaded, calls>>

\* Mutation of ResetCount: the thread that resets is not counted.
ResetShort(t) ==
    /\ Goto(t, "reset", "invert")
    /\ count' = num_threads - 1
    /\ UNCHANGED <<globalsense, localsense, critical, loaded, calls>>

\* Mutation of ResetCount: count is left at 0.
ResetForgotten(t) ==
    /\ Goto(t, "reset", "invert")
    /\ UNCHANGED <<count, globalsense, localsense, critical, loaded, calls>>

ResetCount(t) ==
    /\ Goto(t, "reset", "invert")
    /\ count' = num_threads
    /\ UNCHANGED <<globalsense, localsense, critical, loaded, calls>>

InvertGlobalsense(t) ==
    /\ Goto(t, "invert", "spin")
    /\ globalsense' = localsense[t]
    /\ critical' = Nobody
    /\ UNCHANGED <<count, localsense, loaded, calls>>

\* The read that ends the spinning, and the return.
Leave(t) ==
    /\ globalsense = localsense[t]
    /\ Goto(t, "spin", "out")
    /\ calls' = [calls EXCEPT ![t] = @ + 1]
    /\ UNCHANGED <<count, globalsense, localsense, critical, loaded>>

Step(t) ==
    \/ Flip(t) \/ EnterCritical(t) \/ LoadCount(t) \/ StoreCount(t)
    \/ ResetCount(t) \/ InvertGlobalsense(t) \/ Leave(t)

\* The parallel region ends when every thread is through its loop.
Terminated ==
    /\ \A t \in Threads : pc[t] = "out" /\ calls[t] = Calls
    /\ UNCHANGED vars

Next == Terminated \/ \E t \in Threads : Step(t)

\* Every thread of the region has a processor sooner or later.  The critical
\* section need not be fair.
Spec == Init /\ [][Next]_vars /\ \A t \in Threads : WF_vars(Step(t))
-----------------------------------------------------------------------------
TypeOK ==
    /\ count \in 0..num_threads
    /\ globalsense \in {0, 1}
    /\ localsense \in [Threads -> {0, 1}]
    /\ critical \in Threads \cup {Nobody}
    /\ loaded \in [Threads -> 0..num_threads]
    /\ pc \in [Threads -> {"out", "enter", "load", "store", "reset", "invert",
                           "spin"}]
    /\ calls \in [Threads -> 0..Calls]
    /\ \A t \in Threads : pc[t] # "out" => calls[t] < Calls

Entered == [t \in Threads |-> calls[t] + (IF pc[t] = "out" THEN 0 ELSE 1)]

\* The threads that are counted and wait for the others, with a localsense
\* that globalsense does not have yet.
Waiting == {t \in Threads : pc[t] = "spin" /\ localsense[t] # globalsense}

\* When nobody is in the critical section count is exact: no arrival is lost
\* or counted twice, and none of a later call slips in before the reset.
CountIsExact == critical = Nobody => count = num_threads - Cardinality(Waiting)

Promise == INSTANCE Barrier WITH
    Procs <- Threads, entered <- Entered, returned <- calls

\* The barrier holds: a thread leaves its n-th call when all have entered it.
Refines == Promise!Spec

\* The barrier opens: every thread gets through its loop, however the others
\* are scheduled between the inversion of globalsense and their next call.
EveryCallReturns == Promise!EveryCallReturns
=============================================================================
