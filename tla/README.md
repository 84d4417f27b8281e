# Verification of Advanced_Operating_Systems

TLA+ models of the programs in this repository, the TLC runs that check them on
small instances, and TLAPS proofs of what holds for every size.

    tlc -config MCRVM.cfg MCRVM          # a run: the table below names module and cfg
    tlapm RVM_proofs.tla                 # the proofs of a module

## 1. The system

The repository holds three independent course projects.

### Recoverable_Virtual_Memory: librvm

A library for one process that keeps named memory *segments* persistent and
changes them in transactions (`code/rvm.cpp`).

| State | Where | Changed by |
|---|---|---|
| segment files `<name>.txt` | disk | map (create, extend), truncate (apply), destroy |
| `redo.txt` | disk | commit (append), truncate (empty), destroy (filter) |
| `rvm_map`: image, `mapped`, `tid` per segment | memory | map, unmap, destroy, begin, commit, abort |
| `rvm_trans_map`: `modSegParts` (undo entries) | memory | begin, about_to_modify, commit, abort |
| `globalt_id` | memory | begin, also when it fails |

The parts interact through the two kinds of file: commit appends the new bytes of
every declared range to `redo.txt`; truncate, called explicitly or first of all by
every map, copies the log into the segment files; map reads a segment file into
memory; destroy removes a segment's records from the log and then its file. All
`exit(1)` paths and every real crash leave just the two kinds of file.

*Hard:* crashes between two writes; redo.txt is emptied before its records are
applied; stdio writes parts of a commit early; overlapping undo and redo records;
unmapping and mapping again in a transaction; segments with a tid nobody frees.
*Correct means:* committed bytes survive, uncommitted bytes never reappear, abort
restores the committed bytes, a replay never meets a missing file.

### Barrier_Synchronization

Five barriers, each called in a loop by all the threads or processes of a program.

| Barrier | State | Communication |
|---|---|---|
| OpenMP/Centralized | `count`, `globalsense`, `localsense[]` | shared memory, one critical section |
| OpenMP/Dissemination (= Combined/dissemination.c) | `round_no`, `msg_received` per thread | shared memory, spinning |
| MPI/MCS (= Combined/mcs.c) | messages in flight, a tree node per process | MPI messages, two tags |
| MPI/Dissemination | messages in flight | MPI messages, one tag |
| Combined | `globalsense` per process, `localsense` per call | calls the OpenMP dissemination and the MCS barrier, then spins |

*Hard:* consecutive calls overlap (a fast thread is in its next call while a slow
one still spins in this one), unsynchronised reads, counts that are not powers of
two, `MPI_Send` that may or may not wait for its receiver.
*Correct means:* nobody returns from a call before all have entered it, everybody
returns once all have entered.

### GT_Threads

A preemptive user-level thread library (`gtthread_sched.c`: run queue, SIGVTALRM,
create, join, exit, yield, cancel; `gtthread_mutex.c`: a spinning mutex; `steque.c`:
the queue), demonstrations with pthreads (dining philosophers, producer-consumer,
defcon, tennis) and 45 test programs.

| Part | State | Communication |
|---|---|---|
| scheduler | `threads_queue`, `all_threads`; per thread its context, `cancelled`, `completed`, `ret_val`, `waiting_for_me` | calls and SIGVTALRM; a joiner polls its target's flags |
| mutex | `lock`, `lock_queue` | calls; a waiter yields until `lock` is 0 |
| dining philosophers | `servings`, five mutexes, `holds_left`, `holds_right`, `meals_eaten` | pthread mutexes |
| producer-consumer | a steque, `g_num_prod`, two mutexes | pthread mutexes, held only in part |

*Hard:* a signal between any two instructions in which it is not blocked, and
`sigprocmask` calls that do not nest: an inner helper unblocks the signal for its
caller; a mutex whose own queue nothing protects; threads cancelled in the middle of a join
or of a wait for the mutex.
*Correct means:* each live thread is in the queue once, with its own execution saved;
a cancelled one never runs again; a join returns, with the value of a thread that has
ended; the mutex excludes; no philosopher waits for ever.

## 2. The modules

| Module | Models |
|---|---|
| `RecoverableMemory` | abstract: what librvm promises; no log, no file |
| `RVM` | librvm, its files and its crashes |
| `RVMRefinement` | the refinement mapping from `RVM` to `RecoverableMemory` |
| `MCRVM` | the instance of both that TLC checks |
| `Barrier` | abstract: a barrier called in a loop, for any set of processes |
| `CentralizedBarrier`, `DisseminationBarrier`, `MCSBarrier`, `MPIDisseminationBarrier`, `CombinedBarrier` | the five barriers; each defines its refinement mapping to `Barrier` |
| `Dining` | the dining philosophers |
| `ThreadAPI` | abstract: what the thread library promises a program; no queue, no signal, no processor |
| `Steque` | the linked list of steque.c: its operations on a record of `front`, `back`, `N` and the nodes' `next` |
| `GTThreads` | the scheduler and the mutex, one composed state machine over a `Steque`; defines its refinement mapping to `ThreadAPI` |
| `ProducerConsumer` | the producer, its consumers and main over a `Steque`, statement by statement |
| `MCDisseminationBarrier`, `MCMPIDisseminationBarrier` | powers of two for TLC |
| `*_proofs` | theorems (section 6) |

Operators named `...` "Mutation of X" in a module are plausible bugs of X. They are
used by no specification; with X replaced by one of them a property must fail.

### How RVM corresponds to rvm.cpp

* A segment is `SegSize` blocks. A range (offset, size) is a set of blocks, an undo
  or redo entry a segment with a function from such a set to bytes. What the log
  format looks like as text is left out; its order and its replay are kept.
* The library is single-threaded, so a call is one action unless a crash inside it
  leaves something on disk. Then `pc` and `arg` say where it is: `TruncateStart`,
  `TruncateApply` (a record), `TruncateReturn` or, when rvm_map is the caller,
  `MapReturn`; `DestroyStart`, `DestroyScan`, `DestroyRewrite`, `DestroyRemove`;
  `CommitFlush` (a record that stdio writes early), `CommitClose`.
* `owner` is `segment.tid` (0 for -1), `undo[t]` is `modSegParts`, `running` the
  transactions not finished; a finished entry stays in `rvm_trans_map` and no later
  call looks at it. `committed` is a history variable: what completed commits have
  fixed. `Norm` forgets the difference between blanks, file holes and missing bytes,
  of which nothing is promised.
* `exit(1)`, a signal, a power failure: action `Crash`, followed by `rvm_init` of
  the next process. `CrashWindows` names the calls that a crash may cut while
  `redo.txt` is not what it should be ("truncate", "scan" of destroy, "commit").
  With `CrashWindows = {}` crashes strike everywhere else, within a call too
  (before any record is on its way, and in destroy before the file is removed).
* Callers keep the rules of the API and of the test cases: every map of a segment
  asks for the same size; commit and abort are given a running transaction; a
  program stores only where it has declared; destroy is not called with undo entries
  of a running transaction on the segment. Outside them the code has undefined
  behaviour (`rvm_abort_trans` of an empty list, 482; an erased iterator, 256; the
  NULL of `findRVMobjPtr`, 422).
* A destroy that a crash has cut promises nothing about that segment (`DestroyPart`
  of the abstract memory), and everything about the others.

### How the barriers correspond to their code

Each module has `pc` per thread or process, one action per access to shared memory
or per MPI call, and `calls`, the loop counter of the driver. `Entered` derives from
`pc` and `calls` the number of calls entered; `calls` is the number returned. These
two are all that `Barrier` has.

*Memory.* Each read and write of an `int` is one atomic step and steps take effect
in order. C promises neither for these plain variables; it is what the build gives
(the Makefiles pass no `-O`, so each access is a load or a store and no loop is
hoisted) on a machine with total store order, except that a later load may overtake
an earlier store to another variable. That reordering is not modelled.

*MPI.* Messages from one process to another with one tag stay in order and are not
lost. `MPI_Recv` always names source and tag, so a channel is a counter. In
`MCSBarrier` each `MPI_Send` may return at once or wait until its message is received.
In `MPIDisseminationBarrier` all processes send before they receive, so a send that
waits for its receiver would block all of them in the first round: the model lets
`MPI_Send` wait as long as an earlier message in the same channel is not received and
requires it to return otherwise (`Sure`). The barrier relies on that much buffering.

*Combined.* `OmpReturn` and `McsReturn` use the inner barriers by their promise (all
have entered), which `DisseminationBarrier` and `MCSBarrier` are shown to keep.

### How Dining corresponds to its code

`pc` is the place in `philosodine`, `pchopstick[c]` the owner of the mutex,
`holds[p]` the two flags of philosopher.c as a set of chopsticks. Each mutex call and
each flag change is a step. `is_eating` is where `pc` is. `N` is 5 in the code; the
model and its theorems take any number from two on. A pthread mutex is free for whoever
comes; nothing is assumed about an order of waiters.

### How GTThreads corresponds to gtthread_sched.c and gtthread_mutex.c

* A *thread* is a `gtthread` structure, an *execution* is what runs on a stack.
  `swapcontext` saves the running execution in the structure it is given: `ctx`. That
  the two agree is a property (`OneTurnEach`), not an assumption.
* Preemption. `Preempt` is `alrm_handler`: at any step of the program's own code ("run"),
  in the loops of join and lock, and in the places named by `Windows`, where the
  library has SIGVTALRM unblocked in the middle of a change because an inner helper has
  unblocked it: between test and set in the mutex ("set", "take"), anywhere in the enqueue and
  the pop of its queue (below), between mark and value in
  cancel ("cancelling"), between pop and switch in exit ("leaving", "returning"), between
  the load and the store of `global_thread_id++` ("creating"), and where search_thread has
  found its thread and has still to turn the run queue on ("searching", which is no `pc`:
  the signal then finds the queue of `TurnedPast`).
  With `Windows = {}` the behaviours are those of period 0, where `Preempt` is the
  program calling `gtthread_yield`, and of a timer whose signals miss these places.
  What goes wrong in them is in section 5.
* `threads_queue` is a `Steque` whose nodes are the threads, so the assignments of
  `steque_cycle`, `steque_pop` and `steque_enqueue` to `front`, `back`, `next` and `N` are
  part of the state. `all_threads` only grows, and a search in it finds whatever has been
  created (`Known`); its turning is left out.
* `Yield` is `gtthread_yield` by the program or by the loops. `RunNext` drops the cancelled
  threads at the front (`SkipCancelled`, the loop as a recursive function). `Create` and
  `CreateThread` are the two halves of `gtthread_create`, `Exit` and `Depart` those of
  `gtthread_exit`, `Cancel` and `CancelValue` those of `gtthread_cancel` of another thread; a
  cancel of oneself is an exit. `Join` is the part before the loop, `JoinReturn` the part after it,
  `JoinLate` the join of a thread that is no longer queued.
* If the last thread exits, `gtthread_exit` returns to its caller ("ghost"), where the next
  use of the library ends the process in steque.c; through uc_link it is `exit(0)`.
* `ret_val` is "garbage" until it is set, as `malloc` leaves it. `got` is a history variable
  of what joins have reported.
* The program joins identifiers it has been given, does not lock a mutex it holds, and
  unlocks only one it holds. `locked_thread_id` is written and never read, so it is left out,
  and with it the items of `lock_queue`.
* `lock_queue` is a `Steque` whose nodes are what `malloc` returns, named by numbers; `nodes` are those
  allocated. All of `gtthread_mutex_lock` after line 38 has SIGVTALRM unblocked, so its enqueue
  and its pop are steps that `Windows` can part, one for each store of the list: "enqueue" (to
  the test of `back`), "first" or "next" (`front` or the link of the last node), "linked" (`back`), "pop" (`steque_front`
  and the load of `front`), "unlink" (the store of `front`), "popped" (`back`, `free`). An execution in
  one of these places is about to take that step. `malloc` may give a freed node again: any that a
  pointer of the list still leads to, and one of the others, among which there is nothing to
  tell apart. The use of a node that is not allocated, or of `NULL`, and a second `free` end the process (`over` =
  "fault"), `steque_front` of an empty queue is "exit 1".
  In these steps still one, though the code could be parted there too: the load and the store
  of `N++` and `N--` (of `lock_queue` nobody reads `N`), the load of `front->next` with the store of
  `front`, and the test of `front` with `back = NULL`, `free` and `N--`.
* One step, though the code has the signal unblocked between its parts: `Cancel` from the end of the search
  (353) to the mark (364), so that a target that ends in between is not cancelled afterwards; `CreateThread`
  from the store of `global_thread_id` (227) to line 241, where the new thread is in no queue yet; `Join`
  from the searches to the loop, where the target may end or a second joiner come. (A signal in `JoinReturn`, between
  the test and the copy of `ret_val`, is one before the test, since a thread that has ended stays so.)
* `Implements`: to a program the library is `ThreadAPI`. A thread has ended once it is
  completed or cancelled and `ret_val` is set; reports of joins and holders of the mutex
  are the history variables `got` and `holds`. Between mark and value in a cancel the abstract
  thread is still alive, which is why a join that reports there is no step of `ThreadAPI`.

### How Steque corresponds to steque.c

A node is named by its item: a queue of these programs holds an item once. `next` of a node
that is in no list is `NULL`, which is a convention of the model and not something that
`free` does; no operation reads it. `Represents(q, s)` says that the list `q` is the
sequence `s`; `Items` is the walk from the front, `Members` what the pointers lead to.
`steque_push`, which no program calls, has only its theorem.

### How ProducerConsumer corresponds to producer_consumer.c

A step is a statement of the four routines or of the queue operation that they call; the two
tests of the loop condition (130) are two steps, and so are the load and the store of
`N++` and `N--`. Splitting steps further would only add behaviours. A mutex is one bit: an
unlock by somebody else frees it, as glibc's normal mutexes do, and of a free one does
nothing. The second consumer starts when the producer creates it (86). The model ends
(`over`) with the `exit(1)` of an empty pop, at an access through `NULL`, at the use of a freed
node, and when main, whose join of the detached producer fails (62), leaves by
`pthread_exit`: the queue is on its stack.

## 3. The runs

| Run | Instance | Shows |
|---|---|---|
| `rvm` | 2 segments of 2 blocks, 1 value, 2 transactions per process, 2 undo entries, 2 log records | type, `Atomicity`, `Durability`, `LoggedFileExists`, `Isolation`, `UndoIsCommitted`, `CleanImage`, `SegmentsReleased`, refinement |
| `rvm_truncate_crash` | the same, crash window "truncate" | `Durability` fails |
| `rvm_commit_crash` | the same, crash window "commit" | `Atomicity` fails |
| `centralized` | 4 threads, 3 calls | type, `CountIsExact`, refinement, `EveryCallReturns` |
| `dissemination` | 5 threads, 3 calls | type, `SignalsAreSeen`, refinement, `EveryCallReturns` |
| `mcs` | 6 processes, 2 calls | type (channels hold one message), `NothingLeftOver`, refinement, `EveryCallReturns` |
| `mpi_dissemination` | 5 processes, 3 calls | type (channels hold two messages), `NothingLeftOver`, refinement, `EveryCallReturns` |
| `combined` | 2 processes of 3 threads, 3 calls | type, `SameSense`, refinement, `EveryCallReturns` |
| `dining` | 5 philosophers, 4 servings | type, `AssertionsHold`, `NoDeadlock`, `MealsAddUp`, `DinnerEnds` |
| `gtthreads` | 3 threads, `Windows = {}` | type, `OneTurnEach`, `LockQueueSuffices`, `GoneStaysGone`, `JoinReturns`, refinement (`Implements`) |
| `gtthreads_lock` | 3 threads, windows "set" and "take" | `MutualExclusion` fails |
| `producer_consumer` | 2 items | `LoopEndsWhenDone` fails |

### Bounds

`MaxTid`, `MaxUndo` and `MaxLog` bound counters that grow for ever; a transaction
identifier starts again after a crash, so the number of transactions of a behaviour
is not bounded. Two undo entries and two log records are what an overlap, an order
or a partial write needs; the ranges are chosen so that two overlap in one segment
and one starts behind the end of a new file in the other. One stored value is enough to tell
committed from not: every property compares with blank or with `committed`. With
barriers the sense or the channel is reused after two calls, so three calls cover a
reuse while somebody is still in the first; 5 threads make three rounds and are not a
power of two, 6 processes give the MCS trees two levels in which some process has
different parents for arrival and wakeup. Four servings for five philosophers let all but
one sit at the table at once, and count past zero. Three threads are what a cancelled joiner, an
overwritten `waiting_for_me`, or a waiter that is cancelled while another takes the mutex need; a list of three has a first,
a middle and a last node. `MaxThreads` is also the number of nodes for `lock_queue`: each is that of a thread's
one wait, or of a cancelled thread, so without windows in the list they do not run out (a thread that found none would wait in
"enqueue" for ever: TLC would report the deadlock). Two items let the producer go on after the consumers' first, locked turn.

### Deadlock

TLC checks deadlock in every run. The barrier programs, the dinner, GTThreads and
ProducerConsumer end in `Terminated`, which stutters; a barrier that stops anywhere else is a deadlock or fails
`EveryCallReturns`.

## 4. Fairness

librvm has none: a program may stop calling it at any time. In the barriers every
thread or process takes steps as long as it can (weak fairness of `Step`, per
thread): the threads of a parallel region and the processes of an MPI program are
scheduled by the operating system sooner or later. Nothing more is assumed: a thread that
waits for the critical section of the centralized barrier is not guaranteed it
before others, and none is needed, since each call enters it once. Messages that
are sent arrive. The philosophers are pthreads, scheduled likewise; `DinnerEnds` needs no
fair mutex, because the servings run out.

In GTThreads the processor does not stop (`WF(Next)`), the timer goes off again and
again in code where the signal is not blocked (`SF` of `Preempt`, for all executions
together: which one it hits is the scheduler's doing), and a joiner that looks at its
target's flags again and again gets as far as the test once (`SF(JoinReturn)`: no quantum
is shorter than one turn of the loop). That a thread of the program makes
any particular call is not assumed, and `JoinReturns` is about joins whose target has ended.

## 5. Disagreements between code and documents

1. *Durability* (`rvm_truncate_crash`). code/README.md:21 promises that committed
   data is immune of abrupt termination. `rvm_truncate_log` empties `redo.txt` (513)
   before it applies the records (521-550). So does `rvm_destroy` (273-309).
2. *Atomicity* (`rvm_commit_crash`). code/README.md:19 says redo.txt holds only
   transactions that are entirely committed. Records are appended through stdio one by
   one (444-460) and nothing marks the end of a transaction.
3. *Ownership* (by reading, and `SegmentsReleased`). rvm.cpp:323 says begin fails if a segment
   is being modified by a transaction; after an abort it also fails on segments of the dead
   transaction that were not declared (490). `SegmentsReleased` states the exception: no other
   end of a transaction leaves a segment taken.
4. *Destroy after a restart* (by reading). rvm.cpp:222 says the backing store is erased;
   for a segment not mapped by this process the function returns at 245-248.
5. *Mutual exclusion* (`gtthreads_lock`). GT_Threads/README.md:17 promises safe concurrent
   manipulation; `gtthread_mutex_lock` tests and sets with the signal unblocked (41-42, 50-55). Its queue
   is not safe there either (item 12).
6. *Exit loses a context* (GTThreads with `Windows = {"leaving"}`, `OneTurnEach`). The search in
   `gtthread_exit` (314) unblocks the signal after the pop; the handler then saves the
   exiting execution over the context of the next thread.
7. *Join before the value* (`Windows = {"cancelling"}`, `Implements`). `gtthread_cancel` sets the
   mark (364) before the value (367), and a join may return between the two.
8. *Undetected joins in a circle* (by a reachable state of GTThreads). The test at 276 looks
   at `waiting_for_me`, which a second joiner of the same target has overwritten (273).
9. *A search loses a context* (`Windows = {"searching"}`, `OneTurnEach`). `search_thread` unblocks
   the signal at the match (118), with the queue half turned: the handler takes the thread at
   the front for the running one.
10. *Two threads with one number* (`Windows = {"creating"}`, `OneTurnEach`). `gtthread_create`
   counts (227) before it blocks the signal (242).
11. *Consumers leave early* (`producer_consumer`). producer_consumer.c:124 says the loop ends only
   when the queue is empty and the producers are done. From the second turn on the two tests
   are made without the locks, and the producer may enqueue its last item and leave between
   them. The same model also reaches the underflow of `steque_pop`, an access through `NULL` and
   the use of a freed node, all with two items.

12. *The mutex's queue loses an item* (`LockQueueSuffices` with `Windows` = `{"first"}`, `{"next"}`,
   `{"linked"}`, `{"popped"}` or `{"take", "unlink"}`). Nothing keeps two lockers apart in `steque_enqueue`
   (gtthread_mutex.c:47) and `steque_pop` (58). C holds the mutex; A has set `front` (steque.c:20) and is preempted
   before line 24; B finds `back == NULL`, sets `front` to its own node, and `back`; A sets `back`. Then N = 2 but
   A's node is not reachable, the first waiter to run pops B's and leaves `front` NULL, and the next ends
   the process: `steque_front` is `exit(1)`. In "next" the last node may be popped and freed before it is
   linked from; in "linked" somebody else links from the same node; in "popped" the `back` of somebody's enqueue is
   overwritten by NULL; in "unlink" two pops, of threads that have both got the mutex (item 5), free one node.

The runs show 1, 2, 5 and 11. Items 6, 7, 9, 10 and 12 are seen by changing `Windows` in
`GTThreads.cfg`: with `Windows = {}` that run says nothing about them.

## 6. What is proved

Every theorem is for all values of the constants, under the assumptions that the
modules name (sizes are naturals, the special values differ, `pow2` and `total_rounds`
are what their names say).

**librvm.**
`RVM_proofs` has three parts. The first: `TypeCorrect` strengthens `TypeOK` by `Calls`, which says what `arg`,
`pending`, `kept` and `flushed` may be at each `pc`; without it the index into
`undo[arg]` in a commit has no type. `Isolated` adds to it that every undo entry's segment is
owned by its transaction; `TruncationFindsFiles` adds that a segment with an entry in `rvm_map` has a
file and that the segment of a destroy past its scan is in no log. These hold for any `CrashWindows`.
`EndsRelease` proves `SegmentsReleased`, action by action, without an invariant.

The second: `DataIsCommitted` proves `Atomicity`, `Durability`,
`UndoIsCommitted` and `CleanImage` together, under `CrashWindows = {}` (section 5 shows
that without it they are false). The invariant speaks of one *view* of the disk at
every `pc`, not only between calls: the file as the records still on their way
(`pending`, `kept` and `redo`, in the right order for the call) would leave it equals
`committed`; a partial commit has written only records of `undo[arg]`.
An abort needs the first undo entry of a block, a replay the last record: the two
lemmas about the least and the greatest index come from the naturals.
`ReplaysAreCommitted` proves `Atomicity` alone for any `CrashWindows` without `"commit"`: a crash that cuts a
truncation or a destroy loses what was committed (item 1 of section 5), but redo.txt never holds anything
else. Its invariant `Replayable` is idempotence: a replay of the log over the *committed content*, not
over the files, gives it again. It is silent about the records of a truncation, which are not in redo.txt.

The third: `Refinement`: each action maps to the abstract action of its
name, or to a stutter, from the invariants above.

**Barriers.**
`CentralizedBarrier_proofs`: the invariant says that in episode n threads are in call
n or n+1, those waiting have the old or the new sense accordingly, and
count is `num_threads` minus the waiting threads, corrected by what the thread in the
critical section has done. `CountCorrect` and `Refinement` follow.

`DisseminationBarrier_proofs`: that nobody leaves early follows from the meeting of
the round numbers alone. The invariant is the type and shape of a thread's state, its
position (`round_no` is `total_rounds` times the calls ended plus the rounds begun), and its
knowledge: after r rounds of a call a thread knows that the `pow2[r] - 1` threads
next to it on the ring have entered the call too. A meeting doubles that, and after
the last round it is everybody.
`NoSignalLost` proves `SignalsAreSeen` from a second invariant, `SignalInv`: a cell is empty between rounds and
in a round holds the signal of that round or nothing (`Cells`); who is past a rendezvous had its
partner there (`Rendezvous`), who has received in a round has got its partner's signal (`Answered`),
for all rounds begun so far. So who is about to send finds its partner in the same
round with an empty cell (`SendFindsRoom`).

`CombinedBarrier_proofs`: globalsense of a process is the parity of the calls that
its thread 0 has ended; a thread that spins has the sense from before.

`MCSBarrier_proofs`: the invariant counts, for every edge of the two trees, what has been
sent (a process has told its parent of its n-th call, or woken a child out of it) as
what has been received plus what is in the channel, and says that nobody is awake in a call of
which somebody has not told. That the root may wake the others rests on `RootKnows`: if some rank had not
told, the least one would have a parent that has gathered it, which is impossible
(`GatheredFirst`, with the least rank from the well-foundedness of the naturals).
A process is told by one channel only, so channels hold at most one message (`TypeCorrect`),
and none when all calls have ended (`AllReceived`).

`MPIDisseminationBarrier_proofs`: the rounds of a call go to different partners, so a
channel belongs to one round, and what has been sent in that round is what has been
received plus what is in the channel, although no message says its round. So a
receive is of the same round of the same call, and a process knows as much as in
`DisseminationBarrier_proofs`: after r rounds the `pow2[r] - 1` processes behind it. A sender is at most
one call ahead of its receiver, which bounds the channel by two (`TypeCorrect`).

*Deadlock.* Each of the five modules ends with a theorem `DeadlockFree`: until all calls have
ended there is a thread or process that can go on (`CanGo`), that is, whose next step is no wait or whose
wait is over. It is the part of `EveryCallReturns` that can be proved. In `CentralizedBarrier` all would spin
in one episode, but then the last to be counted has not yet reset (`LastFrees`). The other arguments are about
the earliest call, or round, that somebody is still in (`LeastNatural`). In `DisseminationBarrier` a partner to be met is never ahead (`PartnerComes`), so nobody in the earliest
round waits to meet, and whoever waits for a signal there waits for one that can go on; likewise in
`MPIDisseminationBarrier` with the receives, also if MPI_Send waits until the channel is empty. In `MCSBarrier`,
also if every MPI_Send waits for its receiver, nobody gathers in that call (of those who do, the last rank
would wait for a child in an earlier call), so nobody reports, so all sleep, and the least rank has
a waker in an earlier call. In `CombinedBarrier` all would spin, but thread 0 never does.

**Dining.** `Dining_proofs`: the invariant `TableInv` ties the mutexes a philosopher owns and the
chopsticks the flags claim to `pc`. `AssertsNeverFail` is read off it. `DeadlockFree`: the
first chopstick of every philosopher is an even one, so whoever owns an odd one
has both and waits for nothing; the owner of an even one has both, or waits for an odd
one, or is philosopher N - 1 of an odd table and waits for chopstick 0, whose owner has
both or waits for chopstick 1. `ServingsAreEaten`: a second invariant, `CountInv`, says that the meals and the philosophers
between the decrement and the end of the meal add up to the servings taken, that one who has found
a negative number leaves, and that so at most N are lost below zero. What FoldFunction computes is got from
the lemmas on sums (a sum exists, adding one at a place adds one), by size of the domain.

**GTThreads and Steque.** `GTThreads_proofs`, for any number of threads, in four parts.

The list: for any list that represents a sequence, `steque_enqueue` appends, `steque_push` prepends,
`steque_pop` gives the tail, `steque_cycle` moves the head to the end, and the counter says
whether the list is empty; the cases that matter are lists of one node, where `back` changes
too. The pointers lead to exactly the items (`MembersAreItems`), and a walk of `N` nodes meets them in order
(`ItemsAreRepresented`; in place of an induction, the least place where the walk could differ). The
loop of `run_next` that drops cancelled threads (`SkipCancelled`) ends at the first item that is not
cancelled (`SkipCancelledIs`, by well-foundedness).

The run queue: `Turns` proves `OneTurnEach` from the invariant `TurnInv`: the queue represents a
sequence of exactly the threads created and not ended, the thread on the processor is its
front, every other thread's saved context is its own, and a thread inside the library is where
its call can be. `EndedStaysEnded` (`GoneStaysGone`) follows from the same invariant, one
action at a time. Both assume `Windows \subseteq TamePlaces`, the windows that do not split an exit, a creation or a
search: with the others they are false (section 5, items 6, 9 and 10). The conjunct of `OneTurnEach` about a thread that
is being created is empty in the run, where nothing comes into a creation; it is there for item 10.

The lock's queue: `LockQueueHolds` proves `LockQueueSuffices` for any `Windows` but `ListPlaces`, the places between the
stores of an enqueue or of a pop ("first", "next", "linked", "unlink", "popped"), where it is false (item 12). So it holds
also where two threads get the mutex at once (item 5), where threads are cancelled in the wait, and with contexts lost
elsewhere. The invariant `LockInv` (`LockQueueKept`) says `Keeps(q)`: q is a well-formed list of allocated nodes with at least as many
items as threads between their enqueue and their pop (`Waiting`); of `lock_queue` when nobody is in the middle of it, and
otherwise, for the one execution that is, of what its remaining stores will make of `lock_queue`. `TypeCorrect`
needs both invariants and both assumptions: a list has no node twice, so its count is at most the number of nodes.

The promise: `Refinement` proves `Implements`, and `OneHolder` `MutualExclusion`, for `Windows = {}`: signals
come in the program and in the waits of join and lock. The invariant `Sole` says that the thread that
holds the mutex is the only one, and that a return value is set once its thread has ended.
With a window in lock or in cancel they are false (items 5 and 7).

## 7. What is only model-checked

* Liveness (`EveryCallReturns`, `DinnerEnds`, `JoinReturns`), which TLAPS cannot prove; for the barriers
  and the dinner it is proved that they never stand still.
* `ProducerConsumer`: its run is a counterexample.

## 8. Not modelled, and the plan

Done, in this order: `RecoverableMemory`, `RVM`, the refinement and its proofs;
`Barrier` and the five barriers; `Dining`; `GTThreads`, then on `Steque` and as a refinement
of `ThreadAPI`; `ProducerConsumer`; the proofs of all components but the last.

Next: what of `ProducerConsumer` holds although its run fails: who holds which lock, and what the
counters say before the first item is lost.

Not modelled: the other demonstrations and the tests of GT_Threads (defcon, tennis,
gtthread_main, 45 test programs), which are clients of the library or of pthreads; the turning
of `all_threads` under a signal; what runs after a saved context is lost.

Out of scope: parsing of torn log records (a crash inside a record), several rvm
objects in one directory, segments mapped with changing sizes, store-load reordering,
MPI_Barrier itself, timing and cluster scripts.
