------------------------------- MODULE Dining -------------------------------
(***************************************************************************)
(* The dining philosophers of GT_Threads (dining_main.c, chopsticks.c,     *)
(* philosopher.c), with pthread mutexes: a lock waits until it is free,    *)
(* in no particular order.  Philosopher p has chopstick p on the left and  *)
(* p + 1 on the right; the flags of philosopher.c are the set holds[p].    *)
(***************************************************************************)
EXTENDS Integers, FiniteSets, Functions

CONSTANTS
    N,          \* philosophers, and chopsticks (5 in the code)
    SERVINGS,
    Free        \* nobody has locked the chopstick

Philosophers == 0..(N - 1)

ASSUME TableAssumption == N \in Nat /\ N >= 2
ASSUME ServingsAssumption == SERVINGS \in Nat
ASSUME FreeAssumption == Free \notin Philosophers

VARIABLES
    servings,
    pchopstick,     \* the owner of each chopstick's mutex
    holds,          \* holds_left, holds_right
    meals_eaten,
    pc              \* where a philosopher is in philosodine

vars == <<servings, pchopstick, holds, meals_eaten, pc>>

Left(p) == p
Right(p) == (p + 1) % N

\* Mutation of First: everybody takes the left chopstick first.
FirstLeft(p) == Left(p)

\* The order of pickup_chopsticks.
First(p) == IF p % 2 = 0 THEN Left(p) ELSE Right(p)
Second(p) == IF p % 2 = 0 THEN Right(p) ELSE Left(p)

Init ==
    /\ servings = SERVINGS
    /\ pchopstick = [c \in Philosophers |-> Free]
    /\ holds = [p \in Philosophers |-> {}]
    /\ meals_eaten = [p \in Philosophers |-> 0]
    /\ pc = [p \in Philosophers |-> "ask"]

Goto(p, from, to) ==
    /\ pc[p] = from
    /\ pc' = [pc EXCEPT ![p] = to]

\* Mutation of Ask: one serving too many.
AskOneMore(p) ==
    /\ IF 0 <= servings THEN Goto(p, "ask", "lock1") ELSE Goto(p, "ask", "done")
    /\ servings' = servings - 1
    /\ UNCHANGED <<pchopstick, holds, meals_eaten>>

\* The fetch-and-subtract of the loop; a philosopher who is not served leaves.
Ask(p) ==
    /\ IF 0 < servings THEN Goto(p, "ask", "lock1") ELSE Goto(p, "ask", "done")
    /\ servings' = servings - 1
    /\ UNCHANGED <<pchopstick, holds, meals_eaten>>

Lock(p, c) ==
    /\ pchopstick[c] = Free
    /\ pchopstick' = [pchopstick EXCEPT ![c] = p]
    /\ UNCHANGED <<servings, holds, meals_eaten>>

PickUp(p, c) ==
    /\ holds' = [holds EXCEPT ![p] = @ \cup {c}]
    /\ UNCHANGED <<servings, pchopstick, meals_eaten>>

\* pickup_chopsticks
Take(p) ==
    \/ Goto(p, "lock1", "pick1") /\ Lock(p, First(p))
    \/ Goto(p, "pick1", "lock2") /\ PickUp(p, First(p))
    \/ Goto(p, "lock2", "pick2") /\ Lock(p, Second(p))
    \/ Goto(p, "pick2", "start") /\ PickUp(p, Second(p))

\* eat: start_eating, then stop_eating.  (is_eating is pc[p] = "stop".)
Eat(p) ==
    \/ /\ Goto(p, "start", "stop")
       /\ UNCHANGED <<servings, pchopstick, holds, meals_eaten>>
    \/ /\ Goto(p, "stop", "put_left")
       /\ meals_eaten' = [meals_eaten EXCEPT ![p] = @ + 1]
       /\ UNCHANGED <<servings, pchopstick, holds>>

PutDown(p, c) ==
    /\ holds' = [holds EXCEPT ![p] = @ \ {c}]
    /\ UNCHANGED <<servings, pchopstick, meals_eaten>>

Unlock(c) ==
    /\ pchopstick' = [pchopstick EXCEPT ![c] = Free]
    /\ UNCHANGED <<servings, holds, meals_eaten>>

\* Mutation of Return: both mutexes are unlocked after the left chopstick.
ReturnRightFirst(p) ==
    \/ Goto(p, "put_left", "unlock_left") /\ PutDown(p, Left(p))
    \/ Goto(p, "unlock_left", "put_right") /\ Unlock(Right(p))
    \/ Goto(p, "put_right", "unlock_right") /\ PutDown(p, Right(p))
    \/ Goto(p, "unlock_right", "ask") /\ Unlock(Left(p))

\* Mutation of Return: the right chopstick stays locked.
ReturnLeftOnly(p) ==
    \/ Goto(p, "put_left", "unlock_left") /\ PutDown(p, Left(p))
    \/ Goto(p, "unlock_left", "put_right") /\ Unlock(Left(p))
    \/ Goto(p, "put_right", "ask") /\ PutDown(p, Right(p))

\* putdown_chopsticks, and then the philosopher thinks.
Return(p) ==
    \/ Goto(p, "put_left", "unlock_left") /\ PutDown(p, Left(p))
    \/ Goto(p, "unlock_left", "put_right") /\ Unlock(Left(p))
    \/ Goto(p, "put_right", "unlock_right") /\ PutDown(p, Right(p))
    \/ Goto(p, "unlock_right", "ask") /\ Unlock(Right(p))

Step(p) == Ask(p) \/ Take(p) \/ Eat(p) \/ Return(p)

\* main has joined all philosophers.
Terminated ==
    /\ \A p \in Philosophers : pc[p] = "done"
    /\ UNCHANGED vars

Next == Terminated \/ \E p \in Philosophers : Step(p)

\* Every thread runs sooner or later.  A mutex may prefer anybody.
Spec == Init /\ [][Next]_vars /\ \A p \in Philosophers : WF_vars(Step(p))
-----------------------------------------------------------------------------
TypeOK ==
    /\ servings \in -N..SERVINGS
    /\ pchopstick \in [Philosophers -> Philosophers \cup {Free}]
    /\ holds \in [Philosophers -> SUBSET Philosophers]
    /\ meals_eaten \in [Philosophers -> 0..SERVINGS]
    /\ pc \in [Philosophers -> {"ask", "lock1", "pick1", "lock2", "pick2", "start",
                "stop", "put_left", "unlock_left", "put_right", "unlock_right",
                "done"}]

\* The philosopher is about to pick up chopstick c.
Picks(p, c) ==
    \/ pc[p] = "pick1" /\ c = First(p)
    \/ pc[p] = "pick2" /\ c = Second(p)

\* The asserts of philosopher.c are true whenever they are reached: nobody
\* picks up a chopstick that a neighbour's flags still hold, and nobody eats
\* or puts down without holding.
AssertionsHold ==
    \A p \in Philosophers :
        /\ \A c \in Philosophers : Picks(p, c) =>
                \A q \in Philosophers \ {p} : c \notin holds[q]
        /\ pc[p] \in {"start", "stop"} => holds[p] = {Left(p), Right(p)}
        /\ pc[p] = "put_left" => Left(p) \in holds[p]
        /\ pc[p] = "put_right" => Right(p) \in holds[p]

Waits(p) ==
    \/ pc[p] = "lock1" /\ pchopstick[First(p)] # Free
    \/ pc[p] = "lock2" /\ pchopstick[Second(p)] # Free

\* README.md, "Your algorithm should not have deadlocks": unless all are done
\* there is a philosopher who does not wait for a chopstick.
NoDeadlock ==
    (\E p \in Philosophers : pc[p] # "done")
        => \E p \in Philosophers : pc[p] # "done" /\ ~Waits(p)

\* The served philosophers that have not eaten yet.
Served ==
    {p \in Philosophers :
        pc[p] \in {"lock1", "pick1", "lock2", "pick2", "start", "stop"}}

\* Each serving is eaten by one philosopher, although they all count it down:
\* when all have left, the meals that main prints add up to SERVINGS.
MealsAddUp ==
    FoldFunction(LAMBDA m, n : m + n, 0, meals_eaten) + Cardinality(Served)
        = SERVINGS - (IF servings < 0 THEN 0 ELSE servings)

\* Dinner ends: main joins every philosopher, and destroys mutexes that
\* nobody holds.
DinnerEnds ==
    <>[](\A p \in Philosophers : pc[p] = "done" /\ pchopstick[p] = Free)
=============================================================================
