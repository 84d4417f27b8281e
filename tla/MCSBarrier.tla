----------------------------- MODULE MCSBarrier -----------------------------
(***************************************************************************)
(* The MCS tree barrier over MPI of MPI/MCS (the same functions are in     *)
(* Combined/mcs.c), called in a loop by every process.  Arrivals climb a   *)
(* tree of four children per node, wakeups descend another one of two.     *)
(* MPI_Recv names its source and its tag and messages do not overtake each *)
(* other, so a channel is the number of its messages.  MPI_Send may return *)
(* at once or when the message is received: MPI does not say which.        *)
(***************************************************************************)
EXTENDS Integers

CONSTANTS
    numProcesses,
    Calls           \* NUM_ITERATIONS

Ranks == 0..(numProcesses - 1)

ASSUME ProcessesAssumption == numProcesses \in Nat \ {0}
ASSUME LoopAssumption == Calls \in Nat

VARIABLES
    arrivals,   \* messages tagged ARRIVAL on their way from a process
    wakeups,    \* messages tagged WAKEUP on their way to a process
    pc,         \* where a process is in mcs_barrier
    i,          \* its loop counter there
    calls       \* the loop counter of the program: calls completed

vars == <<arrivals, wakeups, pc, i, calls>>
-----------------------------------------------------------------------------
\* Mutation of HaveChild: the last process is nobody's child.
HaveChildButLast(r, k) == r * 4 + k + 1 < numProcesses - 1

\* init_mcs_barrier: the node of rank r.
HaveChild(r, k) == r * 4 + k + 1 < numProcesses

\* Mutation of HasPointer: the last process is not woken.
HasPointerButLast(r, k) == r * 2 + k + 1 < numProcesses - 1

HasPointer(r, k) == r * 2 + k + 1 < numProcesses
ChildPointer(r, k) == r * 2 + k + 1

Init ==
    /\ arrivals = [r \in Ranks |-> 0]
    /\ wakeups = [r \in Ranks |-> 0]
    /\ pc = [r \in Ranks |-> "out"]
    /\ i = [r \in Ranks |-> 0]
    /\ calls = [r \in Ranks |-> 0]

Goto(r, from, to) ==
    /\ pc[r] = from
    /\ pc' = [pc EXCEPT ![r] = to]

Enter(r) ==
    /\ calls[r] < Calls
    /\ Goto(r, "out", "gather")
    /\ i' = [i EXCEPT ![r] = 0]
    /\ UNCHANGED <<arrivals, wakeups, calls>>

\* A turn of the first loop: the arrival of one child, if there is one.
Gather(r) ==
    /\ i[r] < 4
    /\ Goto(r, "gather", "gather")
    /\ LET child == r * 4 + i[r] + 1 IN
        IF HaveChild(r, i[r])
        THEN arrivals[child] > 0 /\ arrivals' = [arrivals EXCEPT ![child] = @ - 1]
        ELSE UNCHANGED arrivals
    /\ i' = [i EXCEPT ![r] = @ + 1]
    /\ UNCHANGED <<wakeups, calls>>

\* The root turns around; any other process tells its parent.
Root(r) ==
    /\ r = 0
    /\ i[r] = 4
    /\ Goto(r, "gather", "wake")
    /\ i' = [i EXCEPT ![r] = 0]
    /\ UNCHANGED <<arrivals, wakeups, calls>>

Report(r) ==
    /\ r # 0
    /\ i[r] = 4
    /\ Goto(r, "gather", "sleep") \/ Goto(r, "gather", "report")
    /\ arrivals' = [arrivals EXCEPT ![r] = @ + 1]
    /\ UNCHANGED <<wakeups, i, calls>>

\* The MPI_Send of Report that has waited for its receiver.
Reported(r) ==
    /\ arrivals[r] = 0
    /\ Goto(r, "report", "sleep")
    /\ UNCHANGED <<arrivals, wakeups, i, calls>>

\* Mutation of Awake: the process does not wait for its wakeup.
AwakeAlready(r) ==
    /\ Goto(r, "sleep", "wake")
    /\ i' = [i EXCEPT ![r] = 0]
    /\ UNCHANGED <<arrivals, wakeups, calls>>

Awake(r) ==
    /\ wakeups[r] > 0
    /\ Goto(r, "sleep", "wake")
    /\ wakeups' = [wakeups EXCEPT ![r] = @ - 1]
    /\ i' = [i EXCEPT ![r] = 0]
    /\ UNCHANGED <<arrivals, calls>>

\* A turn of the last loop: the wakeup of one child, if there is one.
Wake(r) ==
    /\ i[r] < 2
    /\ IF HasPointer(r, i[r])
       THEN /\ wakeups' = [wakeups EXCEPT ![ChildPointer(r, i[r])] = @ + 1]
            /\ \/ Goto(r, "wake", "wake") /\ i' = [i EXCEPT ![r] = @ + 1]
               \/ Goto(r, "wake", "waking") /\ UNCHANGED i
       ELSE /\ Goto(r, "wake", "wake")
            /\ i' = [i EXCEPT ![r] = @ + 1]
            /\ UNCHANGED wakeups
    /\ UNCHANGED <<arrivals, calls>>

\* The MPI_Send of Wake that has waited for its receiver.
Woken(r) ==
    /\ Goto(r, "waking", "wake")
    /\ wakeups[ChildPointer(r, i[r])] = 0
    /\ i' = [i EXCEPT ![r] = @ + 1]
    /\ UNCHANGED <<arrivals, wakeups, calls>>

Leave(r) ==
    /\ i[r] = 2
    /\ Goto(r, "wake", "out")
    /\ calls' = [calls EXCEPT ![r] = @ + 1]
    /\ UNCHANGED <<arrivals, wakeups, i>>

Step(r) ==
    \/ Enter(r) \/ Gather(r) \/ Root(r) \/ Report(r) \/ Reported(r)
    \/ Awake(r) \/ Wake(r) \/ Woken(r) \/ Leave(r)

\* MPI_Finalize when every process is through its loop.
Terminated ==
    /\ \A r \in Ranks : pc[r] = "out" /\ calls[r] = Calls
    /\ UNCHANGED vars

Next == Terminated \/ \E r \in Ranks : Step(r)

\* Every process runs, and messages that are sent arrive.
Spec == Init /\ [][Next]_vars /\ \A r \in Ranks : WF_vars(Step(r))
-----------------------------------------------------------------------------
\* A channel never holds more than one message, so MPI need buffer no more:
\* no process starts an episode that its neighbour in a tree has not seen end.
TypeOK ==
    /\ arrivals \in [Ranks -> 0..1]
    /\ wakeups \in [Ranks -> 0..1]
    /\ pc \in [Ranks -> {"out", "gather", "report", "sleep", "wake", "waking"}]
    /\ i \in [Ranks -> 0..4]
    /\ calls \in [Ranks -> 0..Calls]

Entered == [r \in Ranks |-> calls[r] + (IF pc[r] = "out" THEN 0 ELSE 1)]

Promise == INSTANCE Barrier WITH
    Procs <- Ranks, entered <- Entered, returned <- calls

\* The barrier holds: although arrival and wakeup use different trees, nobody
\* is woken before everybody has arrived in this very episode.
Refines == Promise!Spec

\* The barrier opens, whether MPI_Send waits for its receiver or not.
EveryCallReturns == Promise!EveryCallReturns

\* MPI_Finalize finds no message that nobody has received.
NothingLeftOver ==
    (\A r \in Ranks : pc[r] = "out" /\ calls[r] = Calls)
        => \A r \in Ranks : arrivals[r] = 0 /\ wakeups[r] = 0
=============================================================================
