-------------------------- MODULE ProducerConsumer --------------------------
(***************************************************************************)
(* GT_Threads/producer_consumer.c: one producer and two consumers share a  *)
(* steque, and after a consumer's first turn nothing holds the locks where *)
(* they are needed.  A step is a statement of the routines or of steque.c, *)
(* a conjunct of the loop condition, or the load or the store of a counter.*)
(* (More steps would only add behaviours.)  A mutex is free or not: glibc  *)
(* unlocks it for whoever asks.                                            *)
(*                                                                         *)
(* A node is the number of its item.  The model ends at a fatal access, at *)
(* the use of a freed node ("undefined"), and where main exits, which has  *)
(* the queue on its stack.                                                 *)
(***************************************************************************)
EXTENDS Integers

CONSTANT LastItem       \* bound: items produced (2600 in the code)

Items == 1..LastItem
Consumers == {"of main", "of producer"}

LOCAL Steque == INSTANCE Steque WITH Nodes <- Items, NULL <- 0

VARIABLES
    queue, freed,       \* the steque; the nodes that have been freed
    g_num_prod,
    g_queue_lock, g_num_prod_lock,
    item,               \* the item that the producer enqueues
    node,               \* the local variable of a consumer's steque_pop
    loaded,             \* what a thread has read of queue.N, to change it
    pc,
    over                \* how the process has ended

locks == <<g_queue_lock, g_num_prod_lock>>
list == <<queue, freed, node, loaded>>
vars == <<list, locks, g_num_prod, item, pc, over>>

Init ==
    /\ queue = Steque!EmptySteque
    /\ freed = {}
    /\ g_num_prod = 1
    /\ g_queue_lock = 0
    /\ g_num_prod_lock = 0
    /\ item = 1
    /\ node = [c \in Consumers |-> 0]
    /\ loaded = [t \in Consumers \cup {"producer"} |-> 0]
    /\ pc = [t \in Consumers \cup {"producer"} |->
                CASE t = "producer" -> "create"
                  [] t = "of main" -> "lock queue"
                  [] OTHER -> "none"]
    /\ over = "no"

Goto(t, from, to) ==
    /\ over = "no"
    /\ pc[t] = from
    /\ pc' = [pc EXCEPT ![t] = to]

Ends(how) == over' = how /\ UNCHANGED <<list, locks, g_num_prod, item>>

\* An access through pointer p: it does what it should, or it is the last one.
Through(p, Access) ==
    IF p \in Items \ freed
    THEN Access /\ UNCHANGED over
    ELSE Ends(IF p = 0 THEN "segmentation fault" ELSE "undefined")

QueueLock(t, from, to) ==
    /\ Goto(t, from, to)
    /\ g_queue_lock = 0
    /\ g_queue_lock' = 1
    /\ UNCHANGED <<list, g_num_prod_lock, g_num_prod, item, over>>

QueueUnlock(t, from, to) ==
    /\ Goto(t, from, to)
    /\ g_queue_lock' = 0
    /\ UNCHANGED <<list, g_num_prod_lock, g_num_prod, over>>

NumProdLock(t, from, to) ==
    /\ Goto(t, from, to)
    /\ g_num_prod_lock = 0
    /\ g_num_prod_lock' = 1
    /\ UNCHANGED <<list, g_queue_lock, g_num_prod, item, over>>

NumProdUnlock(t, from, to) ==
    /\ Goto(t, from, to)
    /\ g_num_prod_lock' = 0
    /\ UNCHANGED <<list, g_queue_lock, g_num_prod, item, over>>

\* A test, which only decides where to go on.
Test(t, from, cond, then, else) ==
    /\ Goto(t, from, IF cond THEN then ELSE else)
    /\ UNCHANGED <<list, locks, g_num_prod, item, over>>

\* queue.N++ and queue.N--
Count(t, by, to) ==
    \/ /\ Goto(t, "load", "store")
       /\ loaded' = [loaded EXCEPT ![t] = queue.N]
       /\ UNCHANGED <<queue, freed, node, locks, g_num_prod, item, over>>
    \/ /\ Goto(t, "store", to)
       /\ queue' = [queue EXCEPT !.N = loaded[t] + by]
       /\ UNCHANGED <<freed, node, loaded, locks, g_num_prod, item, over>>
-----------------------------------------------------------------------------
\* pthread_create of the second consumer
CreateConsumer ==
    /\ over = "no"
    /\ pc["producer"] = "create"
    /\ pc' = [pc EXCEPT !["producer"] = "lock", !["of producer"] = "lock queue"]
    /\ UNCHANGED <<list, locks, g_num_prod, item, over>>

\* steque_enqueue: the assignment of front or of next, that of back, N++.
Enqueue ==
    \/ Test("producer", "link", queue.back = 0, "front", "next")
    \/ /\ Goto("producer", "front", "back")
       /\ queue' = [queue EXCEPT !.front = item]
       /\ UNCHANGED <<freed, node, loaded, locks, g_num_prod, item, over>>
    \/ /\ Goto("producer", "next", "back")
       /\ Through(queue.back,
            /\ queue' = [queue EXCEPT !.next[queue.back] = item]
            /\ UNCHANGED <<freed, node, loaded, locks, g_num_prod, item>>)
    \/ /\ Goto("producer", "back", "load")
       /\ queue' = [queue EXCEPT !.back = item]
       /\ UNCHANGED <<freed, node, loaded, locks, g_num_prod, item, over>>
    \/ Count("producer", 1, "unlock")

\* producer_routine
Produce ==
    \/ CreateConsumer
    \/ QueueLock("producer", "lock", "link")
    \/ Enqueue
    \/ /\ QueueUnlock("producer", "unlock",
            IF item = LastItem THEN "lock count" ELSE "lock")
       /\ item' = IF item = LastItem THEN item ELSE item + 1
    \/ NumProdLock("producer", "lock count", "count")
    \/ /\ Goto("producer", "count", "unlock count")
       /\ g_num_prod' = g_num_prod - 1
       /\ UNCHANGED <<list, locks, item, over>>
    \/ NumProdUnlock("producer", "unlock count", "done")

\* steque_pop
Pop(c) ==
    \/ /\ Goto(c, "pop", "node")
       /\ IF queue.front = 0
          THEN Ends("exit 1")
          ELSE UNCHANGED <<list, locks, g_num_prod, item, over>>
    \/ /\ Goto(c, "node", "item")
       /\ node' = [node EXCEPT ![c] = queue.front]
       /\ UNCHANGED <<queue, freed, loaded, locks, g_num_prod, item, over>>
    \/ /\ Goto(c, "item", "advance")
       /\ Through(node[c], UNCHANGED <<list, locks, g_num_prod, item>>)
    \/ /\ Goto(c, "advance", "last")
       /\ Through(queue.front,
            /\ queue' = [queue EXCEPT !.front = queue.next[queue.front]]
            /\ UNCHANGED <<freed, node, loaded, locks, g_num_prod, item>>)
    \/ Test(c, "last", queue.front = 0, "no back", "free")
    \/ /\ Goto(c, "no back", "free")
       /\ queue' = [queue EXCEPT !.back = 0]
       /\ UNCHANGED <<freed, node, loaded, locks, g_num_prod, item, over>>
    \/ /\ Goto(c, "free", "load")
       /\ Through(node[c],
            /\ freed' = freed \cup {node[c]}
            /\ UNCHANGED <<queue, node, loaded, locks, g_num_prod, item>>)
    \/ Count(c, -1, "unlock")

\* consumer_routine: the locks are taken once and given back in every turn.
Consume(c) ==
    \/ QueueLock(c, "lock queue", "lock count")
    \/ NumProdLock(c, "lock count", "while empty")
    \/ Test(c, "while empty", Steque!IsEmpty(queue), "while producing", "turn")
    \/ Test(c, "while producing", g_num_prod > 0, "turn", "end")
    \/ NumProdUnlock(c, "turn", "if")
    \/ Test(c, "if", Steque!IsEmpty(queue), "unlock", "pop")
    \/ Pop(c)
    \/ QueueUnlock(c, "unlock", "while empty") /\ UNCHANGED item
    \/ NumProdUnlock(c, "end", "end locked")
    \/ QueueUnlock(c, "end locked", "done") /\ UNCHANGED item

\* main has joined its consumer; the producer, detached, cannot be joined, and
\* main leaves by pthread_exit.
MainExits ==
    /\ over = "no"
    /\ pc["of main"] = "done"
    /\ Ends(IF \A t \in DOMAIN pc : pc[t] = "done" THEN "exit 0" ELSE "undefined")
    /\ UNCHANGED pc

Terminated == over # "no" /\ UNCHANGED vars

Next == Terminated \/ MainExits \/ Produce \/ \E c \in Consumers : Consume(c)

Spec == Init /\ [][Next]_vars
-----------------------------------------------------------------------------
\* producer_consumer.c:124, "terminate the loop only when there are no more
\* items in the queue AND the producer threads are all done".
LoopEndsWhenDone ==
    \A c \in Consumers :
        pc[c] \in {"end", "end locked", "done"} => queue.front = 0 /\ g_num_prod = 0
=============================================================================
