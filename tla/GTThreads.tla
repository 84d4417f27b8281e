----------------------------- MODULE GTThreads -----------------------------
(***************************************************************************)
(* The thread library of GT_Threads (gtthread_sched.c, gtthread_mutex.c)   *)
(* on its one processor, under a program whose threads make any calls that *)
(* the API allows, with one mutex.  A signal that ends the quantum comes   *)
(* where SIGVTALRM is unblocked: in the program's own code, in the loops   *)
(* of join and lock, and in the places that Windows opens, where the code  *)
(* has it unblocked in the middle of a change.                             *)
(*                                                                         *)
(* A thread is its gtthread structure, an execution is a stack that runs;  *)
(* ctx says which execution swapcontext has saved in which structure.  What *)
(* runs after one is lost ("leaving", "returning", "searching") or a number *)
(* is given twice ("creating") is not modelled: there OneTurnEach, which   *)
(* fails at that step, is all that can be asked.                           *)
(***************************************************************************)
EXTENDS Integers, Sequences, FiniteSets, SequencesExt

CONSTANTS
    MaxThreads,     \* bound: threads created, main included
    Windows         \* the places of the library where a signal comes: a pc, or
                    \* "searching" for search_thread

ASSUME ThreadsAssumption == MaxThreads \in Nat \ {0}
ASSUME WindowsAssumption ==
    Windows \subseteq {"searching", "creating", "cancelling", "leaving",
                       "returning", "set", "enqueue", "first", "next", "linked",
                       "take", "pop", "unlink", "popped"}

Threads == 0..(MaxThreads - 1)

INSTANCE Steque WITH Nodes <- Threads, NULL <- -1

VARIABLES
    threads_queue,
    global_thread_id,
    cancelled, completed,   \* the threads with the flag
    ret_val, waiting_for_me,
    ctx,            \* the execution saved in thread_context
    running,        \* the execution on the processor
    pc, arg,        \* where an execution is, and the argument of its call or
                    \* the node that it enqueues or pops
    lock,           \* mutex.lock
    lock_queue,     \* mutex.lock_queue: its items are not used
    nodes,          \* the nodes of lock_queue that are allocated
    holds,          \* executions between the return of lock and unlock
    got,            \* history: what joins have reported of whom
    over            \* how the process has ended

structs == <<global_thread_id, cancelled, ret_val>>
mutex == <<lock, lock_queue, nodes, holds>>
sched == <<threads_queue, completed, waiting_for_me, ctx, running>>
vars == <<structs, mutex, sched, pc, arg, got, over>>

\* gtthread_self, getFrontThread
Current == threads_queue.front

Init ==
    /\ threads_queue = Enqueue(EmptySteque, 0)
    /\ global_thread_id = 1
    /\ cancelled = {}
    /\ completed = {}
    /\ ret_val = [t \in Threads |-> "garbage"]
    /\ waiting_for_me = [t \in Threads |-> -1]
    /\ ctx = [t \in Threads |-> t]
    /\ running = 0
    /\ pc = [e \in Threads |-> IF e = 0 THEN "run" ELSE "none"]
    /\ arg = [e \in Threads |-> 0]
    /\ lock = 0
    /\ lock_queue = EmptySteque
    /\ nodes = {}
    /\ holds = {}
    /\ got = {}
    /\ over = "no"

\* An execution is on the processor, in one of these places.
At(e, places) == over = "no" /\ running = e /\ pc[e] \in places

Goto(e, to) == pc' = [pc EXCEPT ![e] = to]

\* A call with argument t goes on at some place of the library; a call returns.
CallGoto(e, t, to) == Goto(e, to) /\ arg' = [arg EXCEPT ![e] = t]
Return(e) == CallGoto(e, 0, "run")
-----------------------------------------------------------------------------
\* Mutation of Skips: run_next does not look at the cancelled flag.
SkipsNone(q) == FALSE

Skips(q) == ~IsEmpty(q) /\ q.front \in cancelled

\* The loop of run_next, which pops threads until one is not cancelled.
SkipCancelled[q \in Steques] == IF Skips(q) THEN SkipCancelled[Pop(q)] ELSE q

\* "if(waiting_for_me) waiting_for_me = -1": not if main, thread 0, waits.
NoLongerAwaited(S) ==
    [t \in Threads |-> IF t \in S /\ waiting_for_me[t] # 0 THEN -1
                                                          ELSE waiting_for_me[t]]

\* run_next with the queue q: its caller goes on if nobody is left.
RunNext(q, current) ==
    LET rest == SkipCancelled[q]
        dropped == Members(q) \ Members(rest)
    IN  /\ threads_queue' = rest
        /\ completed' = completed \cup dropped
        /\ waiting_for_me' = NoLongerAwaited(dropped)
        /\ IF IsEmpty(rest)
           THEN UNCHANGED <<ctx, running>>
           ELSE /\ ctx' = [ctx EXCEPT ![current] = running]
                /\ running' = ctx'[rest.front]

\* Mutation of CycleAndRunFront: the front is read after the queue has turned.
CycleAndRunNewFront(q) ==
    /\ ~IsEmpty(q)
    /\ RunNext(Cycle(q), Cycle(q).front)

\* cycle_and_run_front with the queue q
CycleAndRunFront(q) ==
    /\ ~IsEmpty(q)
    /\ RunNext(Cycle(q), q.front)

\* The queue in the middle of search_thread(t), which turns it by pop and
\* enqueue, where it has found t and unblocks the signal.
TurnedPast[q \in Steques, t \in Threads] ==
    IF q.back = t THEN q ELSE TurnedPast[Cycle(q), t]

\* search_thread, which turns the queue once round; search_thread_in_all_threads
Queued(t) == t \in Members(threads_queue)
Known(t) == t < global_thread_id

Gone(t) == t \in completed \cup cancelled

\* gtthread_yield, called by the program and by the loops of join and lock.
Yield(e) ==
    /\ \/ At(e, {"run"})
       \/ At(e, {"joining"}) /\ ~Gone(arg[e])
       \/ At(e, {"spin"}) /\ lock = 1
    /\ CycleAndRunFront(threads_queue)
    /\ UNCHANGED <<structs, mutex, pc, arg, got, over>>

\* alrm_handler, wherever the signal is not blocked: also in a search by a join
\* or a cancel that the program calls.
Preempt(e) ==
    /\ At(e, {"run", "joining", "spin"} \cup Windows)
    /\ \E q \in {threads_queue} \cup
                 {TurnedPast[threads_queue, t] :
                    t \in IF pc[e] = "run" /\ "searching" \in Windows
                          THEN Members(threads_queue) ELSE {}} :
            CycleAndRunFront(q)
    /\ UNCHANGED <<structs, mutex, pc, arg, got, over>>

\* gtthread_create, up to the load of global_thread_id++ ...
Create(e) ==
    /\ At(e, {"run"})
    /\ global_thread_id < MaxThreads
    /\ CallGoto(e, global_thread_id, "creating")
    /\ UNCHANGED <<structs, mutex, sched, got, over>>

\* ... and from its store on.
CreateThread(e) ==
    /\ At(e, {"creating"})
    /\ global_thread_id' = arg[e] + 1
    /\ threads_queue' = Enqueue(threads_queue, arg[e])
    /\ pc' = [pc EXCEPT ![e] = "run", ![arg[e]] = "run"]
    /\ arg' = [arg EXCEPT ![e] = 0]
    /\ UNCHANGED <<cancelled, ret_val, mutex, completed, waiting_for_me, ctx,
                   running, got, over>>

\* Mutation of Leave: the completed flag is not set.
LeaveUnmarked(e, value, to) ==
    /\ threads_queue' = Pop(threads_queue)
    /\ ret_val' = [ret_val EXCEPT ![Current] = value]
    /\ waiting_for_me' = NoLongerAwaited({Current})
    /\ CallGoto(e, Current, to)
    /\ UNCHANGED <<global_thread_id, mutex, completed, ctx, running, got, over>>

\* The first part of gtthread_exit: the front thread leaves the queue.
Leave(e, value, to) ==
    /\ threads_queue' = Pop(threads_queue)
    /\ completed' = completed \cup {Current}
    /\ ret_val' = [ret_val EXCEPT ![Current] = value]
    /\ waiting_for_me' = NoLongerAwaited({Current})
    /\ CallGoto(e, Current, to)
    /\ UNCHANGED <<global_thread_id, mutex, ctx, running, got, over>>

\* gtthread_exit, called by the program or when a thread's function returns.
Exit(e) ==
    /\ At(e, {"run"})
    /\ \/ Leave(e, "exited", "leaving")
       \/ e # 0 /\ Leave(e, "exited", "returning")
    /\ UNCHANGED cancelled

\* The rest of it, with the signal unblocked by search_thread_in_all_threads:
\* another thread runs.  If there is none gtthread_exit returns: into the
\* program that has called it, or through uc_link to the exit(0) of the
\* thread's creator in run_next.
Depart(e) ==
    /\ At(e, {"leaving", "returning"})
    /\ RunNext(threads_queue, arg[e])
    /\ IF ~IsEmpty(threads_queue')
       THEN CallGoto(e, 0, "gone") /\ UNCHANGED over
       ELSE IF pc[e] = "leaving"
       THEN CallGoto(e, 0, "ghost") /\ UNCHANGED over
       ELSE over' = "exit 0" /\ UNCHANGED <<pc, arg>>
    /\ UNCHANGED <<structs, mutex, got>>

\* The program goes on in a thread that has exited.  Every call that looks at
\* the empty queue, a signal, and a second exit are exit(1) in steque.c.
GhostEnds(e) ==
    /\ At(e, {"ghost"})
    /\ \/ over' = "exit 1"
       \/ e = 0 /\ over' = "exit 0"
    /\ UNCHANGED <<structs, mutex, sched, pc, arg, got>>

MainReturns ==
    /\ At(0, {"run"})
    /\ over' = "exit 0"
    /\ UNCHANGED <<structs, mutex, sched, pc, arg, got>>

\* Mutation of Cancel: it looks for the thread in all_threads.
CancelAnyThread(e, t) ==
    /\ At(e, {"run"})
    /\ Known(t)
    /\ cancelled' = cancelled \cup {t}
    /\ IF t = Current
       THEN Leave(e, "canceled", "leaving")
       ELSE /\ CallGoto(e, t, "cancelling")
            /\ UNCHANGED <<global_thread_id, ret_val, mutex, sched, got, over>>

\* gtthread_cancel of oneself is an exit; of another one it sets the flag ...
Cancel(e, t) ==
    /\ At(e, {"run"})
    /\ Queued(t)
    /\ cancelled' = cancelled \cup {t}
    /\ IF t = Current
       THEN Leave(e, "canceled", "leaving")
       ELSE /\ CallGoto(e, t, "cancelling")
            /\ UNCHANGED <<global_thread_id, ret_val, mutex, sched, got, over>>

\* ... and then the value, with the signal unblocked by search_thread.
CancelValue(e) ==
    /\ At(e, {"cancelling"})
    /\ ret_val' = [ret_val EXCEPT ![arg[e]] = "canceled"]
    /\ Return(e)
    /\ UNCHANGED <<global_thread_id, cancelled, mutex, sched, got, over>>

Report(t) == got' = got \cup {<<t, ret_val[t]>>}

\* gtthread_join of a thread that is no longer in the queue.
JoinLate(e, t) ==
    /\ At(e, {"run"})
    /\ Known(t) /\ ~Queued(t)
    /\ Report(t)
    /\ UNCHANGED <<structs, mutex, sched, pc, arg, over>>

\* gtthread_join up to its loop: refused if the target waits for the caller.
Join(e, t) ==
    /\ At(e, {"run"})
    /\ Queued(t) /\ t # Current
    /\ waiting_for_me' = [waiting_for_me EXCEPT ![t] = Current]
    /\ IF waiting_for_me[Current] = t
       THEN /\ IF t \in cancelled THEN Report(t) ELSE UNCHANGED got
            /\ UNCHANGED <<pc, arg>>
       ELSE /\ CallGoto(e, t, "joining")
            /\ UNCHANGED got
    /\ UNCHANGED <<structs, mutex, threads_queue, completed, ctx, running, over>>

JoinReturn(e) ==
    /\ At(e, {"joining"})
    /\ Gone(arg[e])
    /\ Report(arg[e])
    /\ Return(e)
    /\ UNCHANGED <<structs, mutex, sched, over>>
-----------------------------------------------------------------------------
\* gtthread_mutex_lock finds the mutex free or taken.
Lock(e) ==
    /\ At(e, {"run"})
    /\ e \notin holds
    /\ Goto(e, IF lock = 0 THEN "set" ELSE "enqueue")
    /\ UNCHANGED <<structs, mutex, sched, arg, got, over>>

LockSet(e) ==
    /\ At(e, {"set"})
    /\ lock' = 1
    /\ holds' = holds \cup {e}
    /\ Goto(e, "run")
    /\ UNCHANGED <<structs, sched, arg, lock_queue, nodes, got, over>>

\* What malloc may return: a node that is free.  Those that no pointer is left
\* to are all the same.  Bound: MaxThreads nodes.
FreeNodes == Threads \ nodes
Mallocs ==
    {n \in FreeNodes : n = lock_queue.back \/ n \in Members(lock_queue)}
        \cup {CHOOSE n \in FreeNodes : TRUE}

\* steque_enqueue of lock_queue, which another locker may interrupt: up to the
\* test of back ...
LockNode(e) ==
    /\ At(e, {"enqueue"})
    /\ FreeNodes # {}
    /\ \E n \in Mallocs :
            /\ nodes' = nodes \cup {n}
            /\ lock_queue' = NewNode(lock_queue, n)
            /\ CallGoto(e, n, IF lock_queue.back = -1 THEN "first" ELSE "next")
    /\ UNCHANGED <<structs, sched, lock, holds, got, over>>

\* The use of a node that is not allocated.
Fault == over' = "fault" /\ UNCHANGED <<lock_queue, nodes, holds, pc, arg>>

\* ... the store of the link ...
LockLink(e) ==
    /\ At(e, {"first", "next"})
    /\ IF pc[e] = "next" /\ lock_queue.back \notin nodes
       THEN Fault
       ELSE /\ lock_queue' = IF pc[e] = "first"
                             THEN LinkFront(lock_queue, arg[e])
                             ELSE LinkNext(lock_queue, arg[e])
            /\ Goto(e, "linked")
            /\ UNCHANGED <<nodes, holds, arg, over>>
    /\ UNCHANGED <<structs, sched, lock, got>>

\* Mutation of LockBack: N is not counted up.
LockBackUncounted(e) ==
    /\ At(e, {"linked"})
    /\ lock_queue' = [lock_queue EXCEPT !.back = arg[e]]
    /\ CallGoto(e, 0, "spin")
    /\ UNCHANGED <<structs, sched, lock, nodes, holds, got, over>>

\* ... and that of back.
LockBack(e) ==
    /\ At(e, {"linked"})
    /\ lock_queue' = SetBack(lock_queue, arg[e])
    /\ CallGoto(e, 0, "spin")
    /\ UNCHANGED <<structs, sched, lock, nodes, holds, got, over>>

\* Mutation of SpinEnds: the wait is an if, not a loop.
SpinEndsUntested(e) ==
    /\ At(e, {"spin"})
    /\ Goto(e, "take")
    /\ UNCHANGED <<structs, mutex, sched, arg, got, over>>

\* The read that ends the loop.
SpinEnds(e) ==
    /\ At(e, {"spin"})
    /\ lock = 0
    /\ Goto(e, "take")
    /\ UNCHANGED <<structs, mutex, sched, arg, got, over>>

LockTake(e) ==
    /\ At(e, {"take"})
    /\ lock' = 1
    /\ Goto(e, "pop")
    /\ UNCHANGED <<structs, sched, arg, lock_queue, nodes, holds, got, over>>

\* steque_front and steque_pop of lock_queue, which another locker may interrupt:
\* up to the load of front ...
LockPop(e) ==
    /\ At(e, {"pop"})
    /\ IF lock_queue.front = -1
       THEN over' = "exit 1" /\ UNCHANGED <<pc, arg>>
       ELSE IF lock_queue.front \notin nodes
       THEN over' = "fault" /\ UNCHANGED <<pc, arg>>
       ELSE CallGoto(e, lock_queue.front, "unlink") /\ UNCHANGED over
    /\ UNCHANGED <<structs, mutex, sched, got>>

\* ... the store of front, which is loaded again ...
LockUnlink(e) ==
    /\ At(e, {"unlink"})
    /\ IF lock_queue.front \notin nodes
       THEN Fault
       ELSE /\ lock_queue' = Unlink(lock_queue)
            /\ Goto(e, "popped")
            /\ UNCHANGED <<nodes, holds, arg, over>>
    /\ UNCHANGED <<structs, sched, lock, got>>

\* ... and from the test of front on.
LockPopped(e) ==
    /\ At(e, {"popped"})
    /\ IF arg[e] \notin nodes
       THEN Fault
       ELSE /\ lock_queue' = Free(lock_queue, arg[e])
            /\ nodes' = nodes \ {arg[e]}
            /\ holds' = holds \cup {e}
            /\ Return(e)
            /\ UNCHANGED over
    /\ UNCHANGED <<structs, sched, lock, got>>

\* Mutation of Unlock: the holder takes the next waiter off the queue, and the
\* waiter does so again.
UnlockPops(e) ==
    /\ At(e, {"run"})
    /\ e \in holds
    /\ lock' = 0
    /\ holds' = holds \ {e}
    /\ lock_queue' = IF lock_queue.front = -1 THEN lock_queue ELSE Pop(lock_queue)
    /\ nodes' = nodes \ {lock_queue.front}
    /\ UNCHANGED <<structs, sched, pc, arg, got, over>>

Unlock(e) ==
    /\ At(e, {"run"})
    /\ e \in holds
    /\ lock' = 0
    /\ holds' = holds \ {e}
    /\ UNCHANGED <<structs, sched, pc, arg, lock_queue, nodes, got, over>>

Step(e) ==
    \/ Yield(e) \/ Create(e) \/ CreateThread(e)
    \/ Exit(e) \/ Depart(e) \/ GhostEnds(e)
    \/ \E t \in Threads : Cancel(e, t) \/ JoinLate(e, t) \/ Join(e, t)
    \/ CancelValue(e) \/ JoinReturn(e)
    \/ Lock(e) \/ LockSet(e)
    \/ LockNode(e) \/ LockLink(e) \/ LockBack(e)
    \/ SpinEnds(e) \/ LockTake(e) \/ LockPop(e) \/ LockUnlink(e)
    \/ LockPopped(e) \/ Unlock(e)

Terminated == over # "no" /\ UNCHANGED vars

Next == Terminated \/ MainReturns \/ \E e \in Threads : Step(e) \/ Preempt(e)

\* The timer ends every quantum, and no quantum is too short for the test of
\* join's loop.
Spec ==
    /\ Init
    /\ [][Next]_vars
    /\ WF_vars(Next)
    /\ SF_vars(\E e \in Threads : Preempt(e))
    /\ \A e \in Threads : SF_vars(JoinReturn(e))
-----------------------------------------------------------------------------
TypeOK ==
    /\ threads_queue \in Steques
    /\ global_thread_id \in 1..MaxThreads
    /\ cancelled \in SUBSET Threads
    /\ completed \in SUBSET Threads
    /\ ret_val \in [Threads -> {"garbage", "exited", "canceled"}]
    /\ waiting_for_me \in [Threads -> Threads \cup {-1}]
    /\ ctx \in [Threads -> Threads]
    /\ running \in Threads
    /\ pc \in [Threads -> {"none", "run", "creating", "joining", "cancelling",
                "leaving", "returning", "gone", "ghost", "set", "enqueue", "first",
                "next", "linked", "spin", "take", "pop", "unlink", "popped"}]
    /\ arg \in [Threads -> Threads]
    /\ lock \in {0, 1}
    /\ lock_queue \in Steques /\ lock_queue.N <= MaxThreads
    /\ nodes \in SUBSET Threads
    /\ holds \in SUBSET Threads
    /\ got \in SUBSET (Threads \X {"garbage", "exited", "canceled"})
    /\ over \in {"no", "exit 0", "exit 1", "fault"}

\* The run queue is a well-formed list of every thread that has been created
\* and has not ended, each once; the front one is on the processor, unless it
\* is just leaving, and each of the others has its own execution saved.  A
\* thread that is being created has a number that no other thread has.
OneTurnEach ==
    LET queue == Items(threads_queue)
    IN  /\ Represents(threads_queue, queue)
        /\ ToSet(queue) = (0..(global_thread_id - 1)) \ completed
        /\ pc[running] \in {"leaving", "returning", "ghost"} \/ running = Current
        /\ \A t \in ToSet(queue) \ {running} : ctx[t] = t
        /\ \A e \in Threads : pc[e] = "creating" => arg[e] = global_thread_id

\* README.md, "safe concurrent manipulation of shared data": two threads are
\* never both between gtthread_mutex_lock and gtthread_mutex_unlock.
MutualExclusion ==
    Cardinality(holds) <= 1 /\ (holds # {} => lock = 1)

\* A thread that has taken the mutex after a wait finds an item in lock_queue,
\* although the items are taken by whoever comes first and those of cancelled
\* threads stay: it does not meet the exit(1) of steque_front, and no locker
\* follows a pointer to a node that is not allocated.
LockQueueSuffices ==
    /\ \A e \in Threads : pc[e] = "pop" => lock_queue.front # -1
    /\ over # "fault"

\* The library is a thread library as the program sees it: a thread ends once
\* with one value, a join reports that value and never garbage, and the mutex
\* passes from one thread to another, neither of which has ended.
API == INSTANCE ThreadAPI
    WITH created <- global_thread_id,
         value <- [t \in Threads |-> IF Gone(t) THEN ret_val[t] ELSE "garbage"],
         reports <- got,
         holders <- holds,
         Values <- {"exited", "canceled"},
         NoValue <- "garbage"

Implements == API!Spec

\* gtthread_cancel and gtthread_exit end a thread: from then on it executes
\* nothing of the program, unless it is the last of the process.
GoneStaysGone ==
    [][\A e \in Threads : Gone(e) /\ ~IsEmpty(threads_queue) =>
        pc'[e] = pc[e] \/ pc[e] \in {"leaving", "returning"}]_vars

\* A join returns once its target is cancelled or out of the run queue, in
\* whatever order the two and the others run, unless the joiner is cancelled
\* or the process ends.
JoinReturns ==
    \A e \in Threads :
        (pc[e] = "joining" /\ (arg[e] \in cancelled \/ ~Queued(arg[e])))
            ~> (pc[e] # "joining" \/ e \in cancelled \/ over # "no")
=============================================================================
