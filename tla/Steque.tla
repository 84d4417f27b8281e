------------------------------- MODULE Steque -------------------------------
(***************************************************************************)
(* The linked list of GT_Threads/steque.c.  A steque is the struct of      *)
(* steque.h together with the next fields of the nodes.  A node is named   *)
(* by its item, which a queue of this program holds once; the next field   *)
(* of a node that is in no list is NULL.                                   *)
(***************************************************************************)
EXTENDS Integers, Sequences

CONSTANTS Nodes, NULL

Pointers == Nodes \cup {NULL}

Steques == [front : Pointers, back : Pointers, next : [Nodes -> Pointers], N : Nat]

\* steque_init
EmptySteque ==
    [front |-> NULL, back |-> NULL, next |-> [n \in Nodes |-> NULL], N |-> 0]

\* The stores of steque_enqueue: the new node, its link at the end of the list,
\* and back with the count.
NewNode(q, n) == [q EXCEPT !.next[n] = NULL]
LinkFront(q, n) == [q EXCEPT !.front = n]
LinkNext(q, n) == [q EXCEPT !.next[q.back] = n]
SetBack(q, n) == [front |-> q.front, back |-> n, next |-> q.next, N |-> q.N + 1]

Enqueue(q, n) ==
    LET new == NewNode(q, n)
    IN  SetBack(IF q.back = NULL THEN LinkFront(new, n) ELSE LinkNext(new, n), n)

Push(q, n) ==
    [front |-> n,
     back  |-> IF q.back = NULL THEN n ELSE q.back,
     next  |-> [q.next EXCEPT ![n] = q.front],
     N     |-> q.N + 1]

IsEmpty(q) == q.N = 0

\* The stores of steque_pop: front, and then back, the node and the count.
Unlink(q) == [q EXCEPT !.front = q.next[q.front]]

Free(q, n) ==
    [front |-> q.front,
     back  |-> IF q.front = NULL THEN NULL ELSE q.back,
     next  |-> [q.next EXCEPT ![n] = NULL],
     N     |-> q.N - 1]

\* steque_pop, of a queue with a front (without one it is exit(1)).
Pop(q) == Free(Unlink(q), q.front)

\* Mutation of Cycle: the new back keeps its link.
CycleLinked(q) ==
    IF q.back = NULL THEN q
    ELSE LET looped == [q.next EXCEPT ![q.back] = q.front]
         IN  [q EXCEPT !.front = looped[q.front], !.back = q.front, !.next = looped]

\* steque_cycle: the front node becomes the back one.
Cycle(q) ==
    IF q.back = NULL THEN q
    ELSE LET looped == [q.next EXCEPT ![q.back] = q.front]
         IN  [q EXCEPT !.front = looped[q.front],
                       !.back = q.front,
                       !.next = [looped EXCEPT ![q.front] = NULL]]
-----------------------------------------------------------------------------
\* The list holds the items of s in this order, and its three redundant parts
\* (back, N, the last next) agree with that.
Represents(q, s) ==
    /\ s \in Seq(Nodes)
    /\ \A i, j \in 1..Len(s) : s[i] = s[j] => i = j
    /\ q.N = Len(s)
    /\ q.front = IF s = <<>> THEN NULL ELSE s[1]
    /\ q.back = IF s = <<>> THEN NULL ELSE s[Len(s)]
    /\ \A i \in 1..Len(s) :
            q.next[s[i]] = IF i = Len(s) THEN NULL ELSE s[i + 1]
    /\ \A n \in Nodes : (\A i \in 1..Len(s) : s[i] # n) => q.next[n] = NULL

\* What a walk of N nodes from the front meets.
Items(q) ==
    LET At[i \in Nat \ {0}] ==
            IF i = 1 THEN q.front
            ELSE LET before == At[i - 1]
                 IN  IF before = NULL THEN NULL ELSE q.next[before]
    IN  [i \in 1..q.N |-> At[i]]

\* The nodes that a pointer of the list leads to.
Members(q) == {n \in Nodes : n = q.front \/ \E m \in Nodes : q.next[m] = n}
=============================================================================
