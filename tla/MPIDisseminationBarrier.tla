---------------------- MODULE MPIDisseminationBarrier ----------------------
(***************************************************************************)
(* The dissemination barrier over MPI of MPI/Dissemination, called in a    *)
(* loop by every process.  Unlike the OpenMP one it has no round numbers:  *)
(* MPI keeps the messages of a process that is ahead.  All messages have   *)
(* one tag and do not overtake each other, and MPI_Recv names its source,  *)
(* so the messages from one process to another are a number.               *)
(***************************************************************************)
EXTENDS Integers

CONSTANTS
    numProcesses,
    num_rounds,     \* ceil(log2(numProcesses))
    pow2,           \* pow2[i] is pow(2, i)
    Calls           \* NUM_ITERATIONS

Ranks == 0..(numProcesses - 1)

ASSUME ProcessesAssumption == numProcesses \in Nat \ {0}
ASSUME LoopAssumption == Calls \in Nat
ASSUME RoundsAssumption ==
    /\ num_rounds \in Nat
    /\ pow2 \in [0..num_rounds -> Nat]
    /\ pow2[0] = 1
    /\ \A i \in 1..num_rounds : pow2[i] = 2 * pow2[i - 1]
    /\ numProcesses <= pow2[num_rounds]
    /\ \A i \in 0..(num_rounds - 1) : pow2[i] < numProcesses

VARIABLES
    net,        \* messages on their way, by source and destination
    pc,         \* where a process is in my_mpi_barrier
    i,          \* the round of its call
    calls       \* the loop counter of the program: calls completed

vars == <<net, pc, i, calls>>

Rank2Send(r) == (r + pow2[i[r]]) % numProcesses

\* Mutation of Rank2Receive: the neighbour on the other side.
Rank2ReceiveNext(r) == (r + pow2[i[r]]) % numProcesses

Rank2Receive(r) == (numProcesses - pow2[i[r]] + r) % numProcesses

Init ==
    /\ net = [c \in Ranks \X Ranks |-> 0]
    /\ pc = [r \in Ranks |-> "out"]
    /\ i = [r \in Ranks |-> 0]
    /\ calls = [r \in Ranks |-> 0]

Goto(r, from, to) ==
    /\ pc[r] = from
    /\ pc' = [pc EXCEPT ![r] = to]

Enter(r) ==
    /\ calls[r] < Calls
    /\ Goto(r, "out", "send")
    /\ i' = [i EXCEPT ![r] = 0]
    /\ UNCHANGED <<net, calls>>

Send(r) ==
    /\ i[r] < num_rounds
    /\ Goto(r, "send", "receive")
    /\ LET c == <<r, Rank2Send(r)>> IN
        net' = [net EXCEPT ![c] = @ + 1]
    /\ UNCHANGED <<i, calls>>

\* Mutation of Receive: the message is looked at and stays.
ReceiveNothing(r) ==
    /\ Goto(r, "receive", "send")
    /\ net[<<Rank2Receive(r), r>>] > 0
    /\ i' = [i EXCEPT ![r] = @ + 1]
    /\ UNCHANGED <<net, calls>>

Receive(r) ==
    /\ Goto(r, "receive", "send")
    /\ LET c == <<Rank2Receive(r), r>> IN
        net[c] > 0 /\ net' = [net EXCEPT ![c] = @ - 1]
    /\ i' = [i EXCEPT ![r] = @ + 1]
    /\ UNCHANGED calls

\* Mutation of Leave: the number of rounds is rounded down.
LeaveEarly(r) ==
    /\ i[r] = num_rounds - 1
    /\ Goto(r, "send", "out")
    /\ calls' = [calls EXCEPT ![r] = @ + 1]
    /\ UNCHANGED <<net, i>>

Leave(r) ==
    /\ i[r] = num_rounds
    /\ Goto(r, "send", "out")
    /\ calls' = [calls EXCEPT ![r] = @ + 1]
    /\ UNCHANGED <<net, i>>

Step(r) == Enter(r) \/ Send(r) \/ Receive(r) \/ Leave(r)

\* MPI_Finalize when every process is through its loop.
Terminated ==
    /\ \A r \in Ranks : pc[r] = "out" /\ calls[r] = Calls
    /\ UNCHANGED vars

Next == Terminated \/ \E r \in Ranks : Step(r)

\* MPI_Send is sure to return while nothing else is on its way to the same
\* process; with a message unreceived there it may wait.
Sure(r) ==
    /\ pc[r] = "send" /\ i[r] < num_rounds => net[<<r, Rank2Send(r)>>] = 0
    /\ Step(r)

\* Every process runs, and messages that are sent arrive.
Spec == Init /\ [][Next]_vars /\ \A r \in Ranks : WF_vars(Sure(r))
-----------------------------------------------------------------------------
\* A process that is ahead sends at most into the next call: MPI never keeps
\* more than two messages from one process to another.
TypeOK ==
    /\ net \in [Ranks \X Ranks -> 0..2]
    /\ pc \in [Ranks -> {"out", "send", "receive"}]
    /\ i \in [Ranks -> 0..num_rounds]
    /\ calls \in [Ranks -> 0..Calls]

Entered == [r \in Ranks |-> calls[r] + (IF pc[r] = "out" THEN 0 ELSE 1)]

Promise == INSTANCE Barrier WITH
    Procs <- Ranks, entered <- Entered, returned <- calls

\* The barrier holds although a message carries no round and no call: one
\* that a faster process has sent for its next call is never taken for one
\* of this call.
Refines == Promise!Spec

\* The barrier opens, if MPI keeps one message without making its sender wait.
EveryCallReturns == Promise!EveryCallReturns

\* MPI_Finalize finds no message that nobody has received.
NothingLeftOver ==
    (\A r \in Ranks : pc[r] = "out" /\ calls[r] = Calls)
        => \A c \in Ranks \X Ranks : net[c] = 0
=============================================================================
