--------------------------- MODULE Dining_proofs ---------------------------
(***************************************************************************)
(* The asserts of philosopher.c hold, the table never deadlocks and the    *)
(* meals add up, for any number of philosophers and of servings.           *)
(***************************************************************************)
EXTENDS Dining, FiniteSetTheorems, WellFoundedInduction, TLAPS

\* The chopsticks whose mutex a philosopher has, by where it is.
Owned(p) ==
    IF pc[p] \in {"pick1", "lock2"} THEN {First(p)}
    ELSE IF pc[p] \in {"pick2", "start", "stop", "put_left", "unlock_left"}
    THEN {Left(p), Right(p)}
    ELSE IF pc[p] \in {"put_right", "unlock_right"} THEN {Right(p)}
    ELSE {}

\* The chopsticks that its flags say it holds.
Flagged(p) ==
    IF pc[p] \in {"lock2", "pick2"} THEN {First(p)}
    ELSE IF pc[p] \in {"start", "stop", "put_left"} THEN {Left(p), Right(p)}
    ELSE IF pc[p] \in {"unlock_left", "put_right"} THEN {Right(p)}
    ELSE {}

Shape ==
    /\ pchopstick \in [Philosophers -> Philosophers \cup {Free}]
    /\ holds \in [Philosophers -> SUBSET Philosophers]
    /\ pc \in [Philosophers -> {"ask", "lock1", "pick1", "lock2", "pick2", "start",
                "stop", "put_left", "unlock_left", "put_right", "unlock_right",
                "done"}]

\* The inductive invariant: mutexes and flags follow the program counters.
TableInv ==
    /\ Shape
    /\ \A p, c \in Philosophers : pchopstick[c] = p <=> c \in Owned(p)
    /\ \A p \in Philosophers : holds[p] = Flagged(p)
-----------------------------------------------------------------------------
\* The chopsticks of a philosopher are two, and the first one is even.
LEMMA Chopsticks ==
    ASSUME NEW p \in Philosophers
    PROVE  /\ Left(p) = p
           /\ Right(p) = IF p + 1 < N THEN p + 1 ELSE 0
           /\ First(p) \in Philosophers /\ Second(p) \in Philosophers
           /\ Left(p) \in Philosophers /\ Right(p) \in Philosophers
           /\ First(p) # Second(p) /\ Left(p) # Right(p)
           /\ \/ First(p) = Left(p) /\ Second(p) = Right(p)
              \/ First(p) = Right(p) /\ Second(p) = Left(p)
           /\ First(p) % 2 = 0
           /\ Second(p) % 2 = 0 => p # 0 /\ Second(p) = 0 /\ Right(p) = 0
<1>1. p \in Nat /\ N \in Nat /\ N >= 2 /\ p < N
  BY TableAssumption DEF Philosophers
<1>2. (p + 1) % N = IF p + 1 < N THEN p + 1 ELSE 0
  <2>1. CASE p + 1 < N
    BY <1>1, <2>1
  <2>2. CASE p + 1 = N
    BY <1>1, <2>2
  <2> QED
    BY <1>1, <2>1, <2>2
<1>3. Left(p) = p /\ Right(p) = IF p + 1 < N THEN p + 1 ELSE 0
  BY <1>2 DEF Left, Right
<1>4. Left(p) \in Philosophers /\ Right(p) \in Philosophers /\ Left(p) # Right(p)
  BY <1>1, <1>3 DEF Philosophers
<1>5. CASE p % 2 = 0
  <2>1. First(p) = p /\ Second(p) = Right(p)
    BY <1>3, <1>5 DEF First, Second
  <2>2. p + 1 < N => (p + 1) % 2 = 1
    BY <1>1, <1>5
  <2> QED
    BY <1>1, <1>3, <1>4, <1>5, <2>1, <2>2
<1>6. CASE p % 2 # 0
  <2>1. First(p) = Right(p) /\ Second(p) = p
    BY <1>3, <1>6 DEF First, Second
  <2>2. (p + 1) % 2 = 0
    BY <1>1, <1>6
  <2> QED
    BY <1>1, <1>3, <1>4, <1>6, <2>1, <2>2
<1> QED
  BY <1>5, <1>6

\* One philosopher has chopstick 0 on the right.
LEMMA RightIsZero ==
    ASSUME NEW p \in Philosophers, Right(p) = 0
    PROVE  p = N - 1
<1>1. p \in Nat /\ N \in Nat /\ p < N
  BY TableAssumption DEF Philosophers
<1>2. ~(p + 1 < N)
  BY <1>1, Chopsticks
<1> QED
  BY <1>1, <1>2

LEMMA InitHolds == Init => TableInv
  BY FreeAssumption DEF Init, TableInv, Shape, Owned, Flagged

\* Mutexes and flags follow a step of one philosopher.
LEMMA StepHolds ==
    ASSUME TableInv, NEW p \in Philosophers, Step(p)
    PROVE  TableInv'
<1> USE DEF TableInv, Shape, Goto
<1>1. /\ pc' \in [Philosophers -> {"ask", "lock1", "pick1", "lock2", "pick2",
                "start", "stop", "put_left", "unlock_left", "put_right",
                "unlock_right", "done"}]
      /\ \A q \in Philosophers \ {p} : pc'[q] = pc[q]
  BY DEF Step, Ask, Take, Eat, Return
<1>2. \A q \in Philosophers \ {p} : Owned(q)' = Owned(q) /\ Flagged(q)' = Flagged(q)
  BY <1>1 DEF Owned, Flagged, First, Left, Right
<1> DEFINE Kept == /\ Shape'
                   /\ \A c \in Philosophers : pchopstick'[c] = p <=> c \in Owned(p)'
                   /\ \A c, q \in Philosophers :
                        q # p => (pchopstick'[c] = q <=> pchopstick[c] = q)
                   /\ holds'[p] = Flagged(p)'
                   /\ \A q \in Philosophers \ {p} : holds'[q] = holds[q]
<1>3. Kept => TableInv'
  BY <1>1, <1>2
<1>4. /\ pc'[p] \in {"ask", "lock1", "put_right", "unlock_right", "done", "lock2", "pick1",
                     "put_left", "pick2", "start", "stop", "unlock_left"}
      /\ pc'[p] \in {"pick1", "lock2"} => Owned(p)' = {First(p)}
      /\ pc'[p] \in {"pick2", "start", "stop", "put_left", "unlock_left"}
            => Owned(p)' = {Left(p), Right(p)}
      /\ pc'[p] \in {"put_right", "unlock_right"} => Owned(p)' = {Right(p)}
      /\ pc'[p] \in {"ask", "lock1", "done"} => Owned(p)' = {}
      /\ pc'[p] \in {"lock2", "pick2"} => Flagged(p)' = {First(p)}
      /\ pc'[p] \in {"start", "stop", "put_left"} => Flagged(p)' = {Left(p), Right(p)}
      /\ pc'[p] \in {"unlock_left", "put_right"} => Flagged(p)' = {Right(p)}
      /\ pc'[p] \in {"ask", "lock1", "pick1", "unlock_right", "done"} => Flagged(p)' = {}
  BY <1>1 DEF Owned, Flagged, First, Left, Right
<1>5. CASE Ask(p)
  BY <1>1, <1>3, <1>4, <1>5 DEF Ask, Owned, Flagged
<1>6. CASE Take(p)
  <2>1. CASE Goto(p, "lock1", "pick1") /\ Lock(p, First(p))
    <3>1. Kept
      BY <1>1, <1>4, <2>1, Chopsticks, FreeAssumption DEF Lock, Owned, Flagged
    <3> QED
      BY <1>3, <3>1
  <2>2. CASE Goto(p, "pick1", "lock2") /\ PickUp(p, First(p))
    <3>1. Kept
      BY <1>1, <1>4, <2>2, Chopsticks DEF PickUp, Owned, Flagged
    <3> QED
      BY <1>3, <3>1
  <2>3. CASE Goto(p, "lock2", "pick2") /\ Lock(p, Second(p))
    <3>1. Owned(p) = {First(p)} /\ Flagged(p) = {First(p)}
      BY <2>3 DEF Owned, Flagged
    <3>2. Owned(p)' = {First(p), Second(p)} /\ Flagged(p)' = {First(p)}
      BY <1>1, <1>4, <2>3, Chopsticks
    <3>3. Kept
      BY <1>1, <2>3, <3>1, <3>2, Chopsticks, FreeAssumption DEF Lock
    <3> QED
      BY <1>3, <3>3
  <2>4. CASE Goto(p, "pick2", "start") /\ PickUp(p, Second(p))
    <3>1. Owned(p) = {Left(p), Right(p)} /\ Flagged(p) = {First(p)}
      BY <2>4 DEF Owned, Flagged
    <3>2. Owned(p)' = {Left(p), Right(p)} /\ Flagged(p)' = {First(p), Second(p)}
      BY <1>1, <1>4, <2>4, Chopsticks
    <3>3. Kept
      BY <1>1, <2>4, <3>1, <3>2, Chopsticks DEF PickUp
    <3> QED
      BY <1>3, <3>3
  <2> QED
    BY <1>6, <2>1, <2>2, <2>3, <2>4 DEF Take
<1>7. CASE Eat(p)
  <2>1. Owned(p) = {Left(p), Right(p)} /\ Flagged(p) = {Left(p), Right(p)}
    BY <1>7 DEF Eat, Owned, Flagged
  <2>2. pc'[p] \in {"stop", "put_left"} /\ UNCHANGED <<pchopstick, holds>>
    BY <1>7 DEF Eat
  <2>3. Owned(p)' = {Left(p), Right(p)} /\ Flagged(p)' = {Left(p), Right(p)}
    BY <1>4, <2>2
  <2>4. Kept
    BY <1>1, <2>1, <2>2, <2>3
  <2> QED
    BY <1>3, <2>4
<1>8. CASE Return(p)
  <2>1. CASE Goto(p, "put_left", "unlock_left") /\ PutDown(p, Left(p))
    <3>1. Kept
      BY <1>1, <1>4, <2>1, Chopsticks DEF PutDown, Owned, Flagged
    <3> QED
      BY <1>3, <3>1
  <2>2. CASE Goto(p, "unlock_left", "put_right") /\ Unlock(Left(p))
    <3>1. Kept
      BY <1>1, <1>4, <2>2, Chopsticks, FreeAssumption DEF Unlock, Owned, Flagged
    <3> QED
      BY <1>3, <3>1
  <2>3. CASE Goto(p, "put_right", "unlock_right") /\ PutDown(p, Right(p))
    <3>1. Kept
      BY <1>1, <1>4, <2>3, Chopsticks DEF PutDown, Owned, Flagged
    <3> QED
      BY <1>3, <3>1
  <2>4. CASE Goto(p, "unlock_right", "ask") /\ Unlock(Right(p))
    <3>1. Owned(p) = {Right(p)} /\ Flagged(p) = {}
      BY <2>4 DEF Owned, Flagged
    <3>2. Owned(p)' = {} /\ Flagged(p)' = {}
      BY <1>1, <1>4, <2>4
    <3>3. Kept
      BY <1>1, <2>4, <3>1, <3>2, Chopsticks, FreeAssumption DEF Unlock
    <3> QED
      BY <1>3, <3>3
  <2> QED
    BY <1>8, <2>1, <2>2, <2>3, <2>4 DEF Return
<1> QED
  BY <1>5, <1>6, <1>7, <1>8 DEF Step

THEOREM Invariant == Spec => []TableInv
<1>1. TableInv /\ [Next]_vars => TableInv'
  <2>1. ASSUME TableInv, UNCHANGED vars PROVE TableInv'
    BY <2>1 DEF TableInv, Shape, Owned, Flagged, First, Left, Right, vars
  <2> QED
    BY <2>1, StepHolds DEF Next, Terminated
<1> QED
  BY InitHolds, <1>1, PTL DEF Spec
-----------------------------------------------------------------------------
\* The asserts of philosopher.c are never false where they stand.
THEOREM AssertsNeverFail == Spec => []AssertionsHold
<1>1. ASSUME TableInv PROVE AssertionsHold
  <2>1. ASSUME NEW p \in Philosophers, NEW c \in Philosophers, Picks(p, c),
               NEW q \in Philosophers \ {p}
        PROVE  c \notin holds[q]
    <3>1. c \in Owned(p)
      BY <2>1, Chopsticks DEF Picks, Owned
    <3>2. c \notin Owned(q)
      BY <1>1, <3>1 DEF TableInv, Shape
    <3>3. Flagged(q) \subseteq Owned(q)
      BY <1>1, Chopsticks DEF TableInv, Shape, Owned, Flagged
    <3> QED
      BY <1>1, <3>2, <3>3 DEF TableInv
  <2>2. ASSUME NEW p \in Philosophers
        PROVE  /\ pc[p] \in {"start", "stop"} => holds[p] = {Left(p), Right(p)}
               /\ pc[p] = "put_left" => Left(p) \in holds[p]
               /\ pc[p] = "put_right" => Right(p) \in holds[p]
    BY <1>1 DEF TableInv, Flagged
  <2> QED
    BY <2>1, <2>2 DEF AssertionsHold
<1> QED
  BY Invariant, <1>1, PTL

\* Who has an odd chopstick has both.
LEMMA OddIsBusy ==
    ASSUME TableInv, NEW c \in Philosophers, c % 2 # 0, pchopstick[c] # Free
    PROVE  pc[pchopstick[c]] # "done" /\ ~Waits(pchopstick[c])
<1> DEFINE q == pchopstick[c]
<1>1. q \in Philosophers /\ c \in Owned(q)
  BY DEF TableInv, Shape
<1>2. c # First(q)
  BY <1>1, Chopsticks
<1> QED
  BY <1>1, <1>2 DEF Owned, Waits

\* Of a philosopher who waits for the second chopstick, somebody with both
\* stands in the way: at once, or one place further on.
LEMMA SecondIsBusy ==
    ASSUME TableInv, NEW p \in Philosophers, pc[p] = "lock2", Waits(p)
    PROVE  \E q \in Philosophers : pc[q] # "done" /\ ~Waits(q)
<1> DEFINE c == Second(p)
           q == pchopstick[c]
<1>1. c \in Philosophers /\ q # Free /\ q \in Philosophers /\ c \in Owned(q)
  BY Chopsticks DEF Waits, TableInv, Shape
<1>2. CASE c % 2 # 0
  BY <1>1, <1>2, OddIsBusy
<1>3. CASE c % 2 = 0
  <2>1. p # 0 /\ c = 0
    BY <1>3, Chopsticks
  <2>2. Owned(p) = {First(p)} /\ First(p) # Second(p)
    BY Chopsticks DEF Owned
  <2>3. q # p
    BY <1>1, <2>2
  <2>4. Right(q) = 0 => q = N - 1
    BY <1>1, RightIsZero
  <2>5. Right(p) = 0 => p = N - 1
    BY RightIsZero
  <2>6. c \in {Left(q), Right(q)}
    BY <1>1, Chopsticks DEF Owned
  <2>7. Right(p) = 0
    BY <1>3, Chopsticks
  <2>8. q = 0
    BY <1>1, <2>1, <2>3, <2>4, <2>5, <2>6, <2>7, Chopsticks
  <2>9. pc[q] # "done" /\ pc[q] # "lock1"
    BY <1>1 DEF Owned
  <2>10. CASE pc[q] = "lock2" /\ Waits(q)
    <3>1. Second(q) % 2 # 0
      BY <1>1, <2>8, Chopsticks
    <3>2. pchopstick[Second(q)] # Free /\ Second(q) \in Philosophers
      BY <1>1, <2>10, Chopsticks DEF Waits
    <3>3. pchopstick[Second(q)] \in Philosophers
      BY <3>2 DEF TableInv, Shape
    <3> QED
      BY <3>1, <3>2, <3>3, OddIsBusy
  <2> QED
    BY <1>1, <2>9, <2>10 DEF Waits
<1> QED
  BY <1>2, <1>3

\* The table never deadlocks, whoever gets a chopstick that several want.
THEOREM DeadlockFree == Spec => []NoDeadlock
<1>1. ASSUME TableInv, NEW p \in Philosophers, pc[p] # "done"
      PROVE  \E q \in Philosophers : pc[q] # "done" /\ ~Waits(q)
  <2>1. CASE ~Waits(p)
    BY <1>1, <2>1
  <2>2. CASE pc[p] = "lock2" /\ Waits(p)
    BY <1>1, <2>2, SecondIsBusy
  <2>3. CASE pc[p] = "lock1" /\ Waits(p)
    <3> DEFINE q == pchopstick[First(p)]
    <3>1. q \in Philosophers /\ First(p) \in Owned(q)
      BY <1>1, <2>3, Chopsticks DEF Waits, TableInv, Shape
    <3>2. pc[q] # "done" /\ pc[q] # "lock1"
      BY <3>1 DEF Owned
    <3>3. Waits(q) => pc[q] = "lock2"
      BY <3>2 DEF Waits
    <3> QED
      BY <1>1, <3>1, <3>2, <3>3, SecondIsBusy
  <2> QED
    BY <2>1, <2>2, <2>3 DEF Waits
<1>2. TableInv => NoDeadlock
  BY <1>1 DEF NoDeadlock
<1> QED
  BY Invariant, <1>2, PTL
-----------------------------------------------------------------------------
(* Sums over the philosophers *)

Less == {p \in Nat \X Nat : p[1] < p[2]}

\* Every nonempty set of naturals has a least element.
LEMMA LeastNatural ==
    ASSUME NEW T \in SUBSET Nat, T # {}
    PROVE  \E m \in T : \A k \in T : m <= k
<1>1. OpToRel(<, Nat) = Less
  BY Zenon DEF OpToRel, Less
<1>2. IsWellFoundedOn(Less, Nat)
  BY Zenon, NatLessThanWellFounded, <1>1
<1>3. PICK m \in T : \A k \in T : <<k, m>> \notin Less
  BY <1>2, WFMin
<1>4. ASSUME NEW k \in T PROVE m <= k
  BY <1>3, m \in Nat, k \in Nat, <<k, m>> \notin Less DEF Less
<1> QED
  BY <1>4

LEMMA Table ==
    ASSUME NEW s \in SUBSET Philosophers
    PROVE  /\ IsFiniteSet(s) /\ Cardinality(s) \in Nat /\ Cardinality(s) <= N
           /\ s = {} <=> Cardinality(s) = 0
<1>1. IsFiniteSet(Philosophers) /\ Cardinality(Philosophers) = N
  BY TableAssumption, FS_Interval DEF Philosophers
<1>2. IsFiniteSet(s) /\ Cardinality(s) <= N
  BY <1>1, FS_Subset
<1> QED
  BY <1>2, FS_CardinalityType, FS_EmptySet

Some(s) == CHOOSE x \in s : TRUE

\* Without the element that a sum takes first a set is smaller.
LEMMA OneLess ==
    ASSUME NEW s \in SUBSET Philosophers, s # {}
    PROVE  /\ Some(s) \in s /\ s \ {Some(s)} \in SUBSET Philosophers
           /\ Cardinality(s \ {Some(s)}) = Cardinality(s) - 1
<1>1. Some(s) \in s
  BY DEF Some
<1> QED
  BY <1>1, Table, FS_RemoveElement

Sum(f) == FoldFunction(LAMBDA m, n : m + n, 0, f)

\* h sums f over every set of philosophers, one element after the other.
Sums(h, f) ==
    h = [s \in SUBSET Philosophers |->
            IF s = {} THEN 0 ELSE f[Some(s)] + h[s \ {Some(s)}]]

LEMMA SumIs ==
    ASSUME NEW f, DOMAIN f = Philosophers
    PROVE  Sum(f) = (CHOOSE h : Sums(h, f))[Philosophers]
BY DEF Sum, FoldFunction, FoldFunctionOnSet, MapThenFoldSet, Sums, Some

\* There is such an h: one that is right up to a size gives one that is right
\* for the next.
LEMMA SumExists ==
    ASSUME NEW f
    PROVE  \E h : Sums(h, f)
<1> DEFINE Upto(k) == {s \in SUBSET Philosophers : Cardinality(s) <= k}
           Fits(h, k) ==
                h = [s \in Upto(k) |->
                        IF s = {} THEN 0 ELSE f[Some(s)] + h[s \ {Some(s)}]]
           Wrong == {k \in Nat : ~\E h : Fits(h, k)}
<1>1. Wrong = {}
  <2>1. SUFFICES ASSUME Wrong # {} PROVE FALSE
    OBVIOUS
  <2>2. PICK k \in Wrong : \A l \in Wrong : k <= l
    BY <2>1, LeastNatural
  <2>3. CASE k = 0
    <3> DEFINE h == [s \in Upto(0) |-> 0]
    <3>1. \A s \in Upto(0) : s = {}
      BY Table
    <3>2. Fits(h, 0)
      BY <3>1
    <3> HIDE DEF Fits, h
    <3> QED
      BY <2>2, <2>3, <3>2
  <2>4. CASE k # 0
    <3>1. k - 1 \in Nat /\ k \in Nat
      BY <2>2, <2>4
    <3>2. PICK g : Fits(g, k - 1)
      <4>1. ~(k <= k - 1)
        BY <3>1
      <4>2. k - 1 \notin Wrong
        BY <2>2, <4>1, Zenon
      <4> QED
        BY <3>1, <4>2
    <3> DEFINE h == [s \in Upto(k) |->
                        IF s = {} THEN 0 ELSE f[Some(s)] + g[s \ {Some(s)}]]
    <3>3. \A s \in Upto(k - 1) : s \in Upto(k) /\ h[s] = g[s]
      <4>1. \A s \in Upto(k - 1) : s \in Upto(k)
        BY <3>1, Table
      <4> QED
        BY <3>2, <4>1
    <3>4. \A s \in Upto(k) : s # {} => s \ {Some(s)} \in Upto(k - 1)
      BY <3>1, Table, OneLess
    <3>5. Fits(h, k)
      BY <3>3, <3>4
    <3> HIDE DEF Fits, h
    <3> QED
      BY <2>2, <3>5
  <2> QED
    BY <2>3, <2>4
<1>2. N \in Nat
  BY TableAssumption
<1>3. PICK h : Fits(h, N)
  BY <1>1, <1>2
<1>4. Upto(N) = SUBSET Philosophers
  BY Table
<1> HIDE DEF Upto
<1>5. Sums(h, f)
  BY <1>3, <1>4 DEF Sums
<1> QED
  BY <1>5

\* Two functions that are equal but for one more at p have sums that differ by
\* one, over every set with p.
LEMMA SumsStep ==
    ASSUME NEW f \in [Philosophers -> Nat], NEW p \in Philosophers,
           NEW e \in [Philosophers -> Nat],
           \A x \in Philosophers : e[x] = f[x] + (IF x = p THEN 1 ELSE 0),
           NEW h, Sums(h, f), NEW g, Sums(g, e),
           NEW s \in SUBSET Philosophers
    PROVE  /\ h[s] \in Nat
           /\ g[s] = h[s] + (IF p \in s THEN 1 ELSE 0)
<1> DEFINE Holds(t) == h[t] \in Nat /\ g[t] = h[t] + (IF p \in t THEN 1 ELSE 0)
           Wrong == {Cardinality(t) : t \in {u \in SUBSET Philosophers : ~Holds(u)}}
<1>2. \A t \in SUBSET Philosophers :
        /\ h[t] = IF t = {} THEN 0 ELSE f[Some(t)] + h[t \ {Some(t)}]
        /\ g[t] = IF t = {} THEN 0 ELSE e[Some(t)] + g[t \ {Some(t)}]
  BY DEF Sums
<1>3. SUFFICES ASSUME ~Holds(s) PROVE FALSE
  OBVIOUS
<1>4. Wrong \in SUBSET Nat /\ Wrong # {}
  BY <1>3, Table
<1>5. PICK m \in Wrong : \A k \in Wrong : m <= k
  BY <1>4, LeastNatural
<1>6. PICK t \in SUBSET Philosophers : ~Holds(t) /\ m = Cardinality(t)
  BY <1>5
<1>7. t # {}
  <2>1. h[{}] = 0 /\ g[{}] = 0
    BY <1>2
  <2>2. Holds({})
    BY <2>1
  <2> QED
    BY <1>6, <2>2
<1> DEFINE x == Some(t)
           u == t \ {x}
<1>8. x \in t /\ x \in Philosophers /\ u \in SUBSET Philosophers
      /\ Cardinality(u) = Cardinality(t) - 1 /\ Cardinality(t) \in Nat
  BY <1>7, OneLess, Table
<1>9. Holds(u)
  <2>1. ~(m <= Cardinality(u))
    BY <1>6, <1>8
  <2>2. Cardinality(u) \notin Wrong
    BY <1>5, <2>1
  <2> QED
    BY <1>8, <2>2
<1>10. h[t] = f[x] + h[u] /\ g[t] = e[x] + g[u]
  BY <1>2, <1>7
<1>11. f[x] \in Nat /\ e[x] = f[x] + (IF x = p THEN 1 ELSE 0)
  BY <1>8
<1>12. p \in t <=> (x = p \/ p \in u)
  BY <1>8
<1>13. ~(x = p /\ p \in u)
  OBVIOUS
<1> HIDE DEF x, u
<1>14. Holds(t)
  BY <1>9, <1>10, <1>11, <1>12, <1>13
<1> QED
  BY <1>6, <1>14

LEMMA SumPlusOne ==
    ASSUME NEW f \in [Philosophers -> Nat], NEW p \in Philosophers
    PROVE  /\ Sum(f) \in Nat
           /\ Sum([f EXCEPT ![p] = @ + 1]) = Sum(f) + 1
<1> DEFINE e == [f EXCEPT ![p] = @ + 1]
           h == CHOOSE h : Sums(h, f)
           g == CHOOSE g : Sums(g, e)
<1>1. Sums(h, f) /\ Sums(g, e)
  BY SumExists
<1>2. Sum(f) = h[Philosophers] /\ Sum(e) = g[Philosophers]
  BY SumIs
<1>3. e \in [Philosophers -> Nat] /\ \A x \in Philosophers :
            e[x] = f[x] + (IF x = p THEN 1 ELSE 0)
  OBVIOUS
<1> HIDE DEF h, g, e
<1>4. h[Philosophers] \in Nat /\ g[Philosophers] = h[Philosophers] + 1
  <2>1. Philosophers \in SUBSET Philosophers
    OBVIOUS
  <2>2. /\ h[Philosophers] \in Nat
        /\ g[Philosophers]
                = h[Philosophers] + (IF p \in Philosophers THEN 1 ELSE 0)
    BY <1>1, <1>3, <2>1, SumsStep
  <2> QED
    BY <2>2
<1> QED
  BY <1>2, <1>4 DEF e

LEMMA SumOfNothing == Sum([p \in Philosophers |-> 0]) = 0
<1> DEFINE f == [p \in Philosophers |-> 0]
           h == CHOOSE h : Sums(h, f)
           Wrong == {Cardinality(t) : t \in {u \in SUBSET Philosophers : h[u] # 0}}
<1>1. Sums(h, f)
  BY SumExists
<1>2. Sum(f) = h[Philosophers]
  BY SumIs
<1>3. \A x \in Philosophers : f[x] = 0
  OBVIOUS
<1>4. \A t \in SUBSET Philosophers :
        h[t] = IF t = {} THEN 0 ELSE f[Some(t)] + h[t \ {Some(t)}]
  BY <1>1 DEF Sums
<1> HIDE DEF h, f
<1>5. SUFFICES ASSUME h[Philosophers] # 0 PROVE FALSE
  BY <1>2 DEF f
<1>6. Wrong \in SUBSET Nat /\ Wrong # {}
  BY <1>5, Table
<1>7. PICK m \in Wrong : \A k \in Wrong : m <= k
  BY <1>6, LeastNatural
<1>8. PICK t \in SUBSET Philosophers : h[t] # 0 /\ m = Cardinality(t)
  BY <1>7
<1>9. t # {}
  BY <1>4, <1>8
<1> DEFINE u == t \ {Some(t)}
<1>10. /\ Some(t) \in Philosophers /\ u \in SUBSET Philosophers
       /\ Cardinality(u) = Cardinality(t) - 1 /\ Cardinality(t) \in Nat
  BY <1>9, OneLess, Table
<1>11. h[u] = 0
  <2>1. ~(m <= Cardinality(u))
    BY <1>8, <1>10
  <2>2. Cardinality(u) \notin Wrong
    BY <1>7, <2>1
  <2> QED
    BY <1>10, <2>2
<1>12. h[t] = 0 + 0
  BY <1>3, <1>4, <1>9, <1>10, <1>11
<1> QED
  BY <1>8, <1>12
-----------------------------------------------------------------------------
(* What is eaten *)

Done == {p \in Philosophers : pc[p] = "done"}

\* The servings that nobody has asked for, which servings is not when it is
\* negative: then it counts those who have asked in vain.
Unserved == IF servings < 0 THEN 0 ELSE servings

Share(p) == meals_eaten[p] + (IF p \in Served THEN 1 ELSE 0)

\* The inductive invariant of the counts, for the states of TableInv.
CountInv ==
    /\ servings \in Int /\ servings <= SERVINGS
    /\ meals_eaten \in [Philosophers -> Nat]
    /\ Cardinality(Done) = Unserved - servings
    /\ \A p \in Philosophers : Share(p) <= SERVINGS - Unserved
    /\ Sum(meals_eaten) + Cardinality(Served) = SERVINGS - Unserved

LEMMA InitCounts == Init => CountInv
<1>1. SUFFICES ASSUME Init PROVE CountInv
  OBVIOUS
<1>2. Served = {} /\ Done = {} /\ Unserved = SERVINGS
  BY <1>1, ServingsAssumption DEF Init, Served, Done, Unserved
<1>3. Cardinality(Served) = 0 /\ Cardinality(Done) = 0
  BY <1>2, FS_EmptySet
<1>4. Sum(meals_eaten) = 0
  BY <1>1, SumOfNothing DEF Init
<1>5. \A p \in Philosophers : Share(p) = 0
  BY <1>1, <1>2 DEF Init, Share
<1> QED
  BY <1>1, <1>2, <1>3, <1>4, <1>5, ServingsAssumption DEF Init, CountInv

\* Who is served and who is done, by where a philosopher is.
LEMMA Sets ==
    /\ Served \in SUBSET Philosophers /\ Done \in SUBSET Philosophers
    /\ IsFiniteSet(Served) /\ Cardinality(Served) \in Nat
    /\ IsFiniteSet(Done) /\ Cardinality(Done) \in Nat /\ Cardinality(Done) <= N
<1>1. Served \in SUBSET Philosophers /\ Done \in SUBSET Philosophers
  BY DEF Served, Done
<1> QED
  BY <1>1, Table

LEMMA CountStep ==
    ASSUME TableInv, CountInv, NEW p \in Philosophers, Step(p)
    PROVE  CountInv'
<1>0. /\ pc \in [Philosophers -> {"ask", "lock1", "pick1", "lock2", "pick2", "start",
                "stop", "put_left", "unlock_left", "put_right", "unlock_right",
                "done"}]
      /\ SERVINGS \in Nat /\ servings \in Int /\ Unserved \in Nat
      /\ meals_eaten \in [Philosophers -> Nat]
  BY ServingsAssumption DEF TableInv, Shape, CountInv, Unserved
<1>1. CASE Ask(p) /\ 0 < servings
  <2>1. /\ pc[p] = "ask" /\ pc' = [pc EXCEPT ![p] = "lock1"]
        /\ servings' = servings - 1 /\ meals_eaten' = meals_eaten
    BY <1>1 DEF Ask, Goto
  <2>2. Served' = Served \cup {p} /\ p \notin Served /\ Done' = Done
    BY <1>0, <2>1 DEF Served, Done
  <2>3. Cardinality(Served') = Cardinality(Served) + 1
    BY <2>2, Sets, FS_AddElement
  <2>4. Unserved = servings /\ Unserved' = servings - 1
    BY <1>0, <1>1, <2>1 DEF Unserved
  <2>5. ASSUME NEW q \in Philosophers PROVE Share(q)' <= SERVINGS - Unserved'
    <3>1. Share(q)' <= Share(q) + 1 /\ Share(q) \in Nat /\ Share(q)' \in Nat
      BY <1>0, <2>1, <2>2 DEF Share
    <3>2. Share(q) <= SERVINGS - Unserved
      BY DEF CountInv
    <3> QED
      BY <1>0, <2>4, <3>1, <3>2
  <2>6. Sum(meals_eaten) \in Nat
    BY <1>0, SumPlusOne
  <2>7. Sum(meals_eaten') + Cardinality(Served') = SERVINGS - Unserved'
    BY <1>0, <2>1, <2>3, <2>4, <2>6, Sets DEF CountInv
  <2>8. Cardinality(Done') = Unserved' - servings'
    BY <1>0, <2>1, <2>2, <2>4 DEF CountInv
  <2> QED
    BY <1>0, <2>1, <2>5, <2>7, <2>8 DEF CountInv
<1>2. CASE Ask(p) /\ ~(0 < servings)
  <2>1. /\ pc[p] = "ask" /\ pc' = [pc EXCEPT ![p] = "done"]
        /\ servings' = servings - 1 /\ meals_eaten' = meals_eaten
    BY <1>2 DEF Ask, Goto
  <2>2. Served' = Served /\ Done' = Done \cup {p} /\ p \notin Done
    BY <1>0, <2>1 DEF Served, Done
  <2>3. Cardinality(Done') = Cardinality(Done) + 1
    BY <2>2, Sets, FS_AddElement
  <2>4. Unserved = 0 /\ Unserved' = 0
    BY <1>0, <1>2, <2>1 DEF Unserved
  <2>5. \A q \in Philosophers : Share(q)' = Share(q)
    BY <2>1, <2>2 DEF Share
  <2>6. \A q \in Philosophers : Share(q)' <= SERVINGS - Unserved'
    BY <2>4, <2>5 DEF CountInv
  <2>7. Sum(meals_eaten') + Cardinality(Served') = SERVINGS - Unserved'
    BY <2>1, <2>2, <2>4 DEF CountInv
  <2>8. Cardinality(Done') = Unserved' - servings'
    BY <1>0, <2>1, <2>3, <2>4, Sets DEF CountInv
  <2> QED
    BY <1>0, <2>1, <2>6, <2>7, <2>8 DEF CountInv
<1>3. CASE /\ Goto(p, "stop", "put_left")
           /\ meals_eaten' = [meals_eaten EXCEPT ![p] = @ + 1]
           /\ servings' = servings
  <2>1. Served' = Served \ {p} /\ p \in Served /\ Done' = Done
    BY <1>0, <1>3 DEF Served, Done, Goto
  <2>2. Cardinality(Served') = Cardinality(Served) - 1
    BY <2>1, Sets, FS_RemoveElement
  <2>3. \A q \in Philosophers : Share(q)' = Share(q)
    BY <1>0, <1>3, <2>1 DEF Share
  <2>4. Sum(meals_eaten') = Sum(meals_eaten) + 1 /\ Sum(meals_eaten) \in Nat
    BY <1>0, <1>3, SumPlusOne
  <2>5. Unserved' = Unserved
    BY <1>3 DEF Unserved
  <2>6. Sum(meals_eaten') + Cardinality(Served') = SERVINGS - Unserved'
    BY <2>2, <2>4, <2>5, Sets DEF CountInv
  <2>7. Cardinality(Done') = Unserved' - servings'
    BY <1>3, <2>1, <2>5 DEF CountInv
  <2>8. \A q \in Philosophers : Share(q)' <= SERVINGS - Unserved'
    BY <2>3, <2>5 DEF CountInv
  <2>9. meals_eaten' \in [Philosophers -> Nat]
    BY <1>0, <1>3
  <2> QED
    BY <1>0, <1>3, <2>6, <2>7, <2>8, <2>9 DEF CountInv
<1>4. CASE /\ \/ Take(p) \/ Return(p)
              \/ Goto(p, "start", "stop")
           /\ servings' = servings /\ meals_eaten' = meals_eaten
  <2>1. Served' = Served /\ Done' = Done
    BY <1>0, <1>4 DEF Take, Return, Goto, Served, Done
  <2> QED
    BY <1>4, <2>1 DEF CountInv, Unserved, Share
<1>5. Take(p) \/ Return(p) => servings' = servings /\ meals_eaten' = meals_eaten
  BY DEF Take, Return, Lock, PickUp, PutDown, Unlock
<1> QED
  BY <1>1, <1>2, <1>3, <1>4, <1>5 DEF Step, Eat

THEOREM Counts == Spec => []CountInv
<1>1. TableInv /\ CountInv /\ [Next]_vars => CountInv'
  <2>1. ASSUME CountInv, UNCHANGED vars PROVE CountInv'
    BY <2>1 DEF CountInv, Unserved, Share, Served, Done, vars
  <2> QED
    BY <2>1, CountStep DEF Next, Terminated
<1> QED
  BY InitCounts, Invariant, <1>1, PTL DEF Spec

\* Each serving is eaten once: what has been eaten and what is being eaten add
\* up to the servings that have been asked for.
THEOREM ServingsAreEaten == Spec => []MealsAddUp
<1>1. CountInv => MealsAddUp
  BY DEF CountInv, MealsAddUp, Sum, Unserved
<1> QED
  BY <1>1, Counts, PTL

\* Every variable keeps its type: servings stays above -N, one for each
\* philosopher who leaves, and nobody eats more than there is.
THEOREM TypeCorrect == Spec => []TypeOK
<1>1. ASSUME TableInv, CountInv PROVE TypeOK
  <2>1. servings \in -N..SERVINGS
    BY <1>1, Sets, TableAssumption, ServingsAssumption DEF CountInv, Unserved
  <2>2. ASSUME NEW p \in Philosophers PROVE meals_eaten[p] \in 0..SERVINGS
    BY <1>1, ServingsAssumption DEF CountInv, Share, Unserved
  <2> QED
    BY <1>1, <2>1, <2>2 DEF TableInv, Shape, CountInv, TypeOK
<1> QED
  BY <1>1, Invariant, Counts, PTL
=============================================================================
