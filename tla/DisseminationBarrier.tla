------------------------ MODULE DisseminationBarrier ------------------------
(***************************************************************************)
(* The dissemination barrier of OpenMP/Dissemination (the same file is in  *)
(* Combined), called in a loop by every thread of a parallel region.  In   *)
(* round i a thread signals the one 2^i places ahead and waits for the one *)
(* 2^i places behind; one cell per thread takes the signals of all rounds. *)
(***************************************************************************)
EXTENDS Integers

CONSTANTS
    num_threads,
    total_rounds,   \* ceil(log2(num_threads))
    pow2,           \* pow2[i] is (int)pow(2, i)
    Calls           \* NUMBER_OF_ITER

Threads == 0..(num_threads - 1)

ASSUME ThreadsAssumption == num_threads \in Nat \ {0}
ASSUME LoopAssumption == Calls \in Nat
ASSUME RoundsAssumption ==
    /\ total_rounds \in Nat
    /\ pow2 \in [0..total_rounds -> Nat]
    /\ pow2[0] = 1
    /\ \A i \in 1..total_rounds : pow2[i] = 2 * pow2[i - 1]
    /\ num_threads <= pow2[total_rounds]
    /\ \A i \in 0..(total_rounds - 1) : pow2[i] < num_threads

VARIABLES
    round_no,       \* barrier_array[t].round_no
    msg_received,   \* barrier_array[t].msg_received
    pc,             \* where a thread is in OpenMP_DisseminationBarrier
    i,              \* the round of its call
    calls           \* the loop counter of the program: calls completed

vars == <<round_no, msg_received, pc, i, calls>>

SendTo(t) == (t + pow2[i[t]]) % num_threads
RecvFrom(t) == (num_threads + t - pow2[i[t]]) % num_threads

Init ==
    /\ round_no = [t \in Threads |-> 0]
    /\ msg_received = [t \in Threads |-> -1]
    /\ pc = [t \in Threads |-> "out"]
    /\ i = [t \in Threads |-> 0]
    /\ calls = [t \in Threads |-> 0]

Goto(t, from, to) ==
    /\ pc[t] = from
    /\ pc' = [pc EXCEPT ![t] = to]

\* Mutation of Enter: the rounds go on where the last call ended.
EnterOldRound(t) ==
    /\ calls[t] < Calls
    /\ Goto(t, "out", "loop")
    /\ UNCHANGED <<round_no, msg_received, i, calls>>

Enter(t) ==
    /\ calls[t] < Calls
    /\ Goto(t, "out", "loop")
    /\ i' = [i EXCEPT ![t] = 0]
    /\ UNCHANGED <<round_no, msg_received, calls>>

StartRound(t) ==
    /\ i[t] < total_rounds
    /\ Goto(t, "loop", "meet")
    /\ round_no' = [round_no EXCEPT ![t] = @ + 1]
    /\ UNCHANGED <<msg_received, i, calls>>

\* Mutation of Meet: the thread does not wait for its partner's round.
MeetAnyone(t) ==
    /\ Goto(t, "meet", "send")
    /\ UNCHANGED <<round_no, msg_received, i, calls>>

\* The read that ends the first spinning: the partner is in the same round.
Meet(t) ==
    /\ round_no[SendTo(t)] = round_no[t]
    /\ Goto(t, "meet", "send")
    /\ UNCHANGED <<round_no, msg_received, i, calls>>

Send(t) ==
    /\ Goto(t, "send", "receive")
    /\ msg_received' = [msg_received EXCEPT ![SendTo(t)] = t]
    /\ UNCHANGED <<round_no, i, calls>>

\* Mutation of Receive: the thread does not wait.
ReceiveNothing(t) ==
    /\ Goto(t, "receive", "reset")
    /\ UNCHANGED <<round_no, msg_received, i, calls>>

Receive(t) ==
    /\ msg_received[t] = RecvFrom(t)
    /\ Goto(t, "receive", "reset")
    /\ UNCHANGED <<round_no, msg_received, i, calls>>

\* Mutation of Reset: the loop counter stays.
ResetSameRound(t) ==
    /\ Goto(t, "reset", "loop")
    /\ msg_received' = [msg_received EXCEPT ![t] = -1]
    /\ UNCHANGED <<round_no, i, calls>>

Reset(t) ==
    /\ Goto(t, "reset", "loop")
    /\ msg_received' = [msg_received EXCEPT ![t] = -1]
    /\ i' = [i EXCEPT ![t] = @ + 1]
    /\ UNCHANGED <<round_no, calls>>

Leave(t) ==
    /\ i[t] = total_rounds
    /\ Goto(t, "loop", "out")
    /\ calls' = [calls EXCEPT ![t] = @ + 1]
    /\ UNCHANGED <<round_no, msg_received, i>>

Step(t) ==
    \/ Enter(t) \/ StartRound(t) \/ Meet(t) \/ Send(t) \/ Receive(t)
    \/ Reset(t) \/ Leave(t)

\* The parallel region ends when every thread is through its loop.
Terminated ==
    /\ \A t \in Threads : pc[t] = "out" /\ calls[t] = Calls
    /\ UNCHANGED vars

Next == Terminated \/ \E t \in Threads : Step(t)

\* Every thread of the region has a processor sooner or later.
Spec == Init /\ [][Next]_vars /\ \A t \in Threads : WF_vars(Step(t))
-----------------------------------------------------------------------------
TypeOK ==
    /\ round_no \in [Threads -> 0..(Calls * total_rounds)]
    /\ msg_received \in [Threads -> Threads \cup {-1}]
    /\ pc \in [Threads -> {"out", "loop", "meet", "send", "receive", "reset"}]
    /\ i \in [Threads -> 0..total_rounds]
    /\ calls \in [Threads -> 0..Calls]

Entered == [t \in Threads |-> calls[t] + (IF pc[t] = "out" THEN 0 ELSE 1)]

Promise == INSTANCE Barrier WITH
    Procs <- Threads, entered <- Entered, returned <- calls

\* The barrier holds: after its last round a thread has heard, directly or
\* not, of the arrival of every other thread, and of this call's arrival.
Refines == Promise!Spec

\* One cell is enough for the signals of all rounds and of consecutive calls:
\* a signal is never overwritten or erased before its receiver has seen it.
SignalsAreSeen ==
    [][\A t \in Threads :
        msg_received'[t] # msg_received[t] =>
            \/ msg_received[t] = -1
            \/ pc[t] = "reset" /\ pc'[t] = "loop"]_vars

\* The barrier opens: the rendezvous of every round takes place although a
\* partner may be ahead by the time its round number is read.
EveryCallReturns == Promise!EveryCallReturns
=============================================================================
