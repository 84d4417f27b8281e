-------------------------- MODULE GTThreads_proofs --------------------------
(***************************************************************************)
(* The thread library on its list, for any number of threads.              *)
(*                                                                         *)
(* First the list: what the operations of steque.c, as pointer assignments,*)
(* do to the sequence of its items, and where the walks of it end.  Then   *)
(* the run queue (OneTurnEach, GoneStaysGone, the types), for the windows  *)
(* that do not split an exit, a creation or a search (TamePlaces), and the *)
(* queue of the mutex, for the windows that do not split an enqueue or a   *)
(* pop of it (ListPlaces).  Last the refinement of ThreadAPI, with no      *)
(* windows.                                                                *)
(***************************************************************************)
EXTENDS GTThreads, FiniteSetTheorems, WellFoundedInduction, TLAPS

\* NULL, which steque.c returns and compares with, is no thread.
LEMMA NoThread == -1 \notin Threads
BY ThreadsAssumption DEF Threads

USE NoThread
-----------------------------------------------------------------------------
(* The operations of steque.c *)

\* steque_init makes the empty queue.
THEOREM InitIsEmpty ==
    EmptySteque \in Steques /\ Represents(EmptySteque, <<>>)
BY DEF EmptySteque, Steques, Pointers, Represents

\* steque_isempty, which reads the counter, is right about the list.
THEOREM IsEmptyIsRight ==
    ASSUME NEW q, NEW s, Represents(q, s)
    PROVE  IsEmpty(q) <=> s = <<>>
BY DEF IsEmpty, Represents

\* The stores of steque_enqueue and of steque_pop together.
LEMMA EnqueueStores ==
    ASSUME NEW q \in Steques, NEW n \in Threads
    PROVE  Enqueue(q, n) =
                [front |-> IF q.back = -1 THEN n ELSE q.front,
                 back  |-> n,
                 next  |-> IF q.back = -1 THEN [q.next EXCEPT ![n] = -1]
                           ELSE [q.next EXCEPT ![n] = -1, ![q.back] = n],
                 N     |-> q.N + 1]
<1> DEFINE new == [q.next EXCEPT ![n] = -1]
           Is(f, b, x, c) == [front |-> f, back |-> b, next |-> x, N |-> c]
<1>1. NewNode(q, n) = Is(q.front, q.back, new, q.N)
  BY DEF NewNode, Steques
<1> HIDE DEF new
<1>2. \A f, b, x, c :
        /\ LinkFront(Is(f, b, x, c), n) = Is(n, b, x, c)
        /\ LinkNext(Is(f, b, x, c), n) = Is(f, b, [x EXCEPT ![b] = n], c)
        /\ SetBack(Is(f, b, x, c), n) = Is(f, n, x, c + 1)
  BY DEF LinkFront, LinkNext, SetBack
<1>3. Enqueue(q, n) = IF q.back = -1
                      THEN Is(n, n, new, q.N + 1)
                      ELSE Is(q.front, n, [new EXCEPT ![q.back] = n], q.N + 1)
  <2> HIDE DEF Is
  <2> QED
    BY <1>1, <1>2 DEF Enqueue
<1> QED
  BY <1>3 DEF new

LEMMA PopStores ==
    ASSUME NEW q \in Steques
    PROVE  Pop(q) =
                [front |-> q.next[q.front],
                 back  |-> IF q.next[q.front] = -1 THEN -1 ELSE q.back,
                 next  |-> [q.next EXCEPT ![q.front] = -1],
                 N     |-> q.N - 1]
<1> DEFINE Is(f, b, x, c) == [front |-> f, back |-> b, next |-> x, N |-> c]
<1>1. Unlink(q) = Is(q.next[q.front], q.back, q.next, q.N)
  BY DEF Unlink, Steques
<1>2. \A f, b, x, c, n :
        Free(Is(f, b, x, c), n) = Is(f, IF f = -1 THEN -1 ELSE b,
                                     [x EXCEPT ![n] = -1], c - 1)
  BY DEF Free
<1> HIDE DEF Is
<1>3. Pop(q) = Is(q.next[q.front], IF q.next[q.front] = -1 THEN -1 ELSE q.back,
                  [q.next EXCEPT ![q.front] = -1], q.N - 1)
  BY <1>1, <1>2 DEF Pop
<1> QED
  BY <1>3 DEF Is

\* steque_enqueue adds an item at the back.
THEOREM EnqueueAppends ==
    ASSUME NEW q \in Steques, NEW s, Represents(q, s),
           NEW n \in Threads, \A i \in 1..Len(s) : s[i] # n
    PROVE  Enqueue(q, n) \in Steques /\ Represents(Enqueue(q, n), Append(s, n))
<1> DEFINE r == Enqueue(q, n)
           t == Append(s, n)
<1>1. s \in Seq(Threads) /\ Len(s) \in Nat
  BY DEF Represents
<1>2. /\ t \in Seq(Threads) /\ Len(t) = Len(s) + 1
      /\ t[Len(t)] = n
      /\ \A i \in 1..Len(s) : t[i] = s[i] /\ t[i] \in Threads
  BY <1>1
<1>3. r \in Steques
  BY EnqueueStores DEF Steques, Pointers
<1>4. ASSUME NEW i \in 1..Len(t), NEW j \in 1..Len(t), t[i] = t[j]
      PROVE  i = j
  <2>1. /\ i = Len(t) \/ i \in 1..Len(s)
        /\ j = Len(t) \/ j \in 1..Len(s)
    BY <1>1, <1>2
  <2>2. i \in 1..Len(s) <=> j \in 1..Len(s)
    BY <1>2, <1>4, <2>1
  <2> QED BY <1>1, <1>2, <1>4, <2>1, <2>2 DEF Represents
<1>5. /\ r.N = Len(t)
      /\ r.back = n
      /\ r.front = t[1]
  BY <1>1, <1>2, EnqueueStores DEF Represents, Steques, Pointers
<1>6. \A m \in Threads :
        r.next[m] = IF s # <<>> /\ m = s[Len(s)] THEN n
                    ELSE IF m = n THEN -1 ELSE q.next[m]
  BY <1>1, EnqueueStores DEF Represents, Steques, Pointers
<1>7. \A i \in 1..Len(t) : r.next[t[i]] = IF i = Len(t) THEN -1 ELSE t[i + 1]
  <2> TAKE i \in 1..Len(t)
  <2>1. CASE i = Len(t)
    BY <1>1, <1>2, <1>6, <2>1 DEF Represents
  <2>2. CASE i = Len(s)
    BY <1>1, <1>2, <1>6, <2>2 DEF Represents
  <2>3. CASE i < Len(s)
    BY <1>1, <1>2, <1>6, <2>3 DEF Represents
  <2> QED BY <1>1, <1>2, <2>1, <2>2, <2>3
<1>8. \A m \in Threads : (\A i \in 1..Len(t) : t[i] # m) => r.next[m] = -1
  <2> SUFFICES ASSUME NEW m \in Threads, \A i \in 1..Len(t) : t[i] # m
               PROVE  r.next[m] = -1
    OBVIOUS
  <2>1. m # n /\ \A i \in 1..Len(s) : s[i] # m
    BY <1>1, <1>2
  <2> QED BY <1>1, <1>6, <2>1 DEF Represents
<1>9. t # <<>>
  <2>1. Len(t) # 0
    BY <1>1, <1>2
  <2> HIDE DEF t
  <2> QED BY <2>1
<1> QED BY <1>1, <1>2, <1>3, <1>4, <1>5, <1>7, <1>8, <1>9 DEF Represents

\* steque_push adds an item at the front.
THEOREM PushPrepends ==
    ASSUME NEW q \in Steques, NEW s, Represents(q, s),
           NEW n \in Threads, \A i \in 1..Len(s) : s[i] # n
    PROVE  Push(q, n) \in Steques /\ Represents(Push(q, n), <<n>> \o s)
<1> DEFINE r == Push(q, n)
           t == <<n>> \o s
<1>1. s \in Seq(Threads) /\ Len(s) \in Nat
  BY DEF Represents
<1>2. /\ t \in Seq(Threads) /\ Len(t) = Len(s) + 1
      /\ t[1] = n
      /\ \A i \in 1..Len(s) : t[i + 1] = s[i] /\ s[i] \in Threads
  BY <1>1
<1>3. r \in Steques
  BY DEF Push, Steques, Pointers
<1>a. \A i \in 1..Len(t) : i = 1 \/ (i - 1 \in 1..Len(s) /\ t[i] = s[i - 1])
  BY <1>1, <1>2
<1>4. \A i, j \in 1..Len(t) : t[i] = t[j] => i = j
  BY <1>1, <1>2, <1>a DEF Represents
<1>5. /\ r.N = Len(t)
      /\ r.back = t[Len(t)]
      /\ r.front = t[1]
  BY <1>1, <1>2, <1>a DEF Push, Represents, Steques, Pointers
<1>6. \A m \in Threads : r.next[m] = IF m = n THEN q.front ELSE q.next[m]
  BY DEF Push, Steques
<1>7. \A i \in 1..Len(t) : r.next[t[i]] = IF i = Len(t) THEN -1 ELSE t[i + 1]
  <2> TAKE i \in 1..Len(t)
  <2>1. CASE i = 1
    BY <1>1, <1>2, <1>6, <2>1 DEF Represents
  <2>2. CASE i # 1
    <3>1. i - 1 \in 1..Len(s) /\ t[i] = s[i - 1]
      BY <1>a, <2>2
    <3>2. r.next[t[i]] = q.next[s[i - 1]]
      BY <1>2, <1>6, <3>1
    <3>3. q.next[s[i - 1]] = IF i - 1 = Len(s) THEN -1 ELSE s[i]
      BY <1>1, <3>1 DEF Represents
    <3>4. i - 1 # Len(s) => t[i + 1] = s[i]
      BY <1>1, <1>2, <3>1
    <3> QED BY <1>1, <1>2, <3>1, <3>2, <3>3, <3>4
  <2> QED BY <2>1, <2>2
<1>8. \A m \in Threads : (\A i \in 1..Len(t) : t[i] # m) => r.next[m] = -1
  <2> SUFFICES ASSUME NEW m \in Threads, \A i \in 1..Len(t) : t[i] # m
               PROVE  r.next[m] = -1
    OBVIOUS
  <2>1. m # n
    BY <1>1, <1>2
  <2>2. ASSUME NEW i \in 1..Len(s)
        PROVE  s[i] # m
    <3>1. i + 1 \in 1..Len(t) /\ t[i + 1] = s[i]
      BY <1>1, <1>2
    <3> HIDE DEF t
    <3> QED BY <3>1
  <2> QED BY <1>1, <1>6, <2>1, <2>2 DEF Represents
<1>9. t # <<>>
  <2>1. Len(t) # 0
    BY <1>1, <1>2
  <2> HIDE DEF t
  <2> QED BY <2>1
<1> QED BY <1>1, <1>2, <1>3, <1>4, <1>5, <1>7, <1>8, <1>9 DEF Represents

\* steque_pop takes the item at the front away.
THEOREM PopTakesTheFront ==
    ASSUME NEW q \in Steques, NEW s, Represents(q, s),
           s # <<>>
    PROVE  Pop(q) \in Steques /\ q.front = Head(s) /\ Represents(Pop(q), Tail(s))
<1> DEFINE r == Pop(q)
           t == Tail(s)
<1>1. s \in Seq(Threads) /\ Len(s) \in Nat \ {0}
  BY DEF Represents
<1>2. /\ t \in Seq(Threads) /\ Len(t) = Len(s) - 1
      /\ \A i \in 1..Len(t) : t[i] = s[i + 1]
      /\ \A i \in 1..Len(s) : s[i] \in Threads
  BY <1>1
<1>3. q.front = s[1] /\ q.front = Head(s) /\ q.N = Len(s)
  BY <1>1 DEF Represents
<1> HIDE DEF t
<1>a. t = <<>> <=> Len(t) = 0
  BY <1>2
<1>4. q.next[s[1]] = IF Len(s) = 1 THEN -1 ELSE s[2]
  <2>1. 1 \in 1..Len(s) /\ 1 + 1 = 2
    BY <1>1
  <2>2. q.next[s[1]] = IF 1 = Len(s) THEN -1 ELSE s[1 + 1]
    BY <2>1 DEF Represents
  <2> QED BY <2>1, <2>2
<1>5. r \in Steques
  BY <1>1, <1>2, <1>3, <1>4, PopStores DEF Steques, Pointers
<1>6. ASSUME NEW i \in 1..Len(t), NEW j \in 1..Len(t), t[i] = t[j]
      PROVE  i = j
  <2>1. /\ i + 1 \in 1..Len(s) /\ j + 1 \in 1..Len(s)
        /\ s[i + 1] = s[j + 1]
    BY <1>1, <1>2, <1>6
  <2>2. i + 1 = j + 1
    BY <2>1 DEF Represents
  <2> QED BY <2>2
<1>7. /\ r.N = Len(t)
      /\ r.front = IF t = <<>> THEN -1 ELSE t[1]
      /\ r.back = IF t = <<>> THEN -1 ELSE t[Len(t)]
  <2>1. CASE Len(s) = 1
    <3>1. t = <<>> /\ Len(t) = 0
      BY <1>2, <1>a, <2>1
    <3> QED BY <1>3, <1>4, <2>1, <3>1, PopStores
  <2>2. CASE Len(s) # 1
    <3>1. Len(t) # 0 /\ t # <<>> /\ Len(t) \in 1..Len(t) /\ 1 \in 1..Len(t)
      BY <1>1, <1>2, <1>a, <2>2
    <3>2. t[1] = s[2] /\ t[Len(t)] = s[Len(s)] /\ s[2] # -1
      BY <1>1, <1>2, <2>2
    <3>3. q.back = s[Len(s)]
      BY <1>1 DEF Represents
    <3> QED BY <1>1, <1>2, <1>3, <1>4, <2>2, <3>1, <3>2, <3>3, PopStores
  <2> QED BY <2>1, <2>2
<1>8. \A m \in Threads : r.next[m] = IF m = s[1] THEN -1 ELSE q.next[m]
  BY <1>1, <1>3, PopStores DEF Steques
<1>9. \A i \in 1..Len(t) : r.next[t[i]] = IF i = Len(t) THEN -1 ELSE t[i + 1]
  <2> TAKE i \in 1..Len(t)
  <2>1. i + 1 \in 1..Len(s) /\ t[i] = s[i + 1] /\ t[i] \in Threads
    BY <1>1, <1>2
  <2>2. t[i] # s[1]
    BY <1>1, <2>1 DEF Represents
  <2>3. q.next[s[i + 1]] = IF i + 1 = Len(s) THEN -1 ELSE s[i + 2]
    BY <1>1, <2>1 DEF Represents
  <2>4. i + 1 # Len(s) => t[i + 1] = s[i + 2]
    BY <1>1, <1>2
  <2> QED BY <1>1, <1>2, <1>8, <2>1, <2>2, <2>3, <2>4
<1>10. \A m \in Threads : (\A i \in 1..Len(t) : t[i] # m) => r.next[m] = -1
  <2> SUFFICES ASSUME NEW m \in Threads, \A i \in 1..Len(t) : t[i] # m, m # s[1]
               PROVE  r.next[m] = -1
    BY <1>8
  <2>1. \A i \in 1..Len(s) : s[i] # m
    <3> TAKE i \in 1..Len(s)
    <3>1. i = 1 \/ (i - 1 \in 1..Len(t) /\ t[i - 1] = s[i])
      BY <1>1, <1>2
    <3> QED BY <3>1
  <2>2. q.next[m] = -1
    BY Zenon, <2>1 DEF Represents
  <2> QED BY <1>8, <2>2
<1>11. Represents(r, t)
  BY <1>2, <1>6, <1>7, <1>9, <1>10 DEF Represents
<1> QED BY <1>3, <1>5, <1>11 DEF t

\* steque_cycle moves the front item to the back.
THEOREM CycleTurns ==
    ASSUME NEW q \in Steques, NEW s, Represents(q, s),
           s # <<>>
    PROVE  /\ Cycle(q) \in Steques
           /\ Represents(Cycle(q), Append(Tail(s), Head(s)))
<1> DEFINE r == Cycle(q)
           t == Append(Tail(s), Head(s))
<1>1. s \in Seq(Threads) /\ Len(s) \in Nat \ {0}
  BY DEF Represents
<1>2. /\ t \in Seq(Threads) /\ Len(t) = Len(s) /\ t # <<>>
      /\ t[Len(s)] = s[1]
      /\ \A i \in 1..(Len(s) - 1) : t[i] = s[i + 1]
      /\ \A i \in 1..Len(s) : s[i] \in Threads
  <2>1. /\ Tail(s) \in Seq(Threads) /\ Len(Tail(s)) = Len(s) - 1
        /\ \A i \in 1..(Len(s) - 1) : Tail(s)[i] = s[i + 1]
        /\ Head(s) = s[1] /\ Head(s) \in Threads
        /\ \A i \in 1..Len(s) : s[i] \in Threads
    BY <1>1
  <2> DEFINE u == Tail(s)
             h == Head(s)
  <2> HIDE DEF u, h
  <2>2. /\ Append(u, h) \in Seq(Threads) /\ Len(Append(u, h)) = Len(u) + 1
        /\ Append(u, h)[Len(u) + 1] = h
        /\ \A i \in 1..Len(u) : Append(u, h)[i] = u[i]
    BY <2>1 DEF u, h
  <2>3. Append(u, h) # <<>>
    BY <2>1, <2>2 DEF u
  <2> QED BY <1>1, <2>1, <2>2, <2>3 DEF u, h
<1> HIDE DEF t
<1>3. q.front = s[1] /\ q.back = s[Len(s)] /\ q.N = Len(s) /\ q.back # -1
  <2>1. Len(s) \in 1..Len(s)
    BY <1>1
  <2> QED BY <1>2, <2>1 DEF Represents
<1>4. q.next[s[1]] = IF Len(s) = 1 THEN -1 ELSE s[2]
  <2>1. 1 \in 1..Len(s) /\ 1 + 1 = 2
    BY <1>1
  <2>2. q.next[s[1]] = IF 1 = Len(s) THEN -1 ELSE s[1 + 1]
    BY <2>1 DEF Represents
  <2> QED BY <2>1, <2>2
<1>5. s[Len(s)] = s[1] => Len(s) = 1
  <2>1. 1 \in 1..Len(s) /\ Len(s) \in 1..Len(s)
    BY <1>1
  <2> QED BY <2>1 DEF Represents
<1>6. /\ r.front = IF Len(s) = 1 THEN s[1] ELSE s[2]
      /\ r.back = s[1]
      /\ r.N = Len(s)
      /\ \A m \in Threads : r.next[m] = IF m = s[1] THEN -1
                                      ELSE IF m = s[Len(s)] THEN s[1]
                                      ELSE q.next[m]
      /\ r \in Steques
  <2> DEFINE looped == [q.next EXCEPT ![q.back] = q.front]
  <2>1. s[1] \in Threads /\ s[Len(s)] \in Threads /\ (Len(s) # 1 => s[2] \in Threads)
    BY <1>1, <1>2
  <2>2. /\ looped \in [Threads -> Pointers]
        /\ \A m \in Threads : looped[m] = IF m = s[Len(s)] THEN s[1] ELSE q.next[m]
    BY <1>3, <2>1 DEF Steques, Pointers
  <2>3. looped[s[1]] = IF Len(s) = 1 THEN s[1] ELSE s[2]
    BY <1>4, <1>5, <2>1, <2>2
  <2> HIDE DEF looped
  <2>4. r = [q EXCEPT !.front = looped[s[1]],
                      !.back = s[1],
                      !.next = [looped EXCEPT ![s[1]] = -1]]
    BY <1>3 DEF Cycle, looped
  <2> QED BY <1>3, <2>1, <2>2, <2>3, <2>4 DEF Steques, Pointers
<1>7. \A i \in 1..Len(t) : i = Len(s) \/ (i + 1 \in 1..Len(s) /\ t[i] = s[i + 1])
  BY <1>1, <1>2
<1>8. ASSUME NEW i \in 1..Len(t), NEW j \in 1..Len(t), t[i] = t[j]
      PROVE  i = j
  <2> DEFINE from(k) == IF k = Len(s) THEN 1 ELSE k + 1
  <2>1. /\ from(i) \in 1..Len(s) /\ t[i] = s[from(i)]
        /\ from(j) \in 1..Len(s) /\ t[j] = s[from(j)]
    BY <1>1, <1>2, <1>7
  <2>a. s[from(i)] = s[from(j)]
    BY <1>8, <2>1
  <2>b. \A k, m \in 1..Len(s) : s[k] = s[m] => k = m
    BY DEF Represents
  <2>2. from(i) = from(j)
    BY Zenon, <2>1, <2>a, <2>b
  <2> QED BY <1>1, <1>2, <2>2
<1>9. t # <<>> /\ r.front = t[1] /\ r.back = t[Len(t)]
  BY <1>1, <1>2, <1>6
<1>10. \A i \in 1..Len(t) : r.next[t[i]] = IF i = Len(t) THEN -1 ELSE t[i + 1]
  <2> TAKE i \in 1..Len(t)
  <2>1. CASE i = Len(s)
    BY <1>1, <1>2, <1>6, <2>1
  <2>2. CASE i # Len(s)
    <3>1. i + 1 \in 1..Len(s) /\ t[i] = s[i + 1] /\ t[i] \in Threads
      BY <1>2, <1>7, <2>2
    <3>2. t[i] # s[1]
      BY <1>1, <1>2, <3>1 DEF Represents
    <3>3. t[i] = s[Len(s)] => i + 1 = Len(s)
      <4>1. Len(s) \in 1..Len(s)
        BY <1>1
      <4> QED BY <3>1, <4>1 DEF Represents
    <3>4. q.next[s[i + 1]] = IF i + 1 = Len(s) THEN -1 ELSE s[i + 2]
      BY <1>1, <3>1 DEF Represents
    <3>5. i + 1 # Len(s) => t[i + 1] = s[i + 2]
      BY <1>1, <1>2, <3>1
    <3> QED BY <1>1, <1>2, <1>6, <2>2, <3>1, <3>2, <3>3, <3>4, <3>5
  <2> QED BY <2>1, <2>2
<1>11. \A m \in Threads : (\A i \in 1..Len(t) : t[i] # m) => r.next[m] = -1
  <2> SUFFICES ASSUME NEW m \in Threads, \A i \in 1..Len(t) : t[i] # m
               PROVE  r.next[m] = -1
    OBVIOUS
  <2>1. \A i \in 1..Len(s) : s[i] # m
    <3> TAKE i \in 1..Len(s)
    <3>1. CASE i = 1
      BY <1>1, <1>2, <3>1
    <3>2. CASE i # 1
      <4>1. i - 1 \in 1..(Len(s) - 1) /\ t[i - 1] = s[i]
        BY <1>1, <1>2, <3>2
      <4> QED BY <1>1, <1>2, <4>1
    <3> QED BY <3>1, <3>2
  <2> QED BY <1>1, <1>6, <2>1 DEF Represents
<1>12. Represents(r, t)
  BY <1>2, <1>6, <1>8, <1>9, <1>10, <1>11 DEF Represents
<1> QED BY <1>6, <1>12 DEF t

\* The nodes that the pointers of a list lead to are its items: what the
\* search of the run queue can find is what is in it.
THEOREM MembersAreItems ==
    ASSUME NEW q \in Steques, NEW s, Represents(q, s)
    PROVE  Members(q) = {s[i] : i \in 1..Len(s)}
<1>1. s \in Seq(Threads) /\ Len(s) \in Nat /\ \A i \in 1..Len(s) : s[i] \in Threads
  BY DEF Represents
<1>2. ASSUME NEW n \in Members(q)
      PROVE  \E i \in 1..Len(s) : s[i] = n
  <2>1. CASE n = q.front
    BY <1>1, <2>1 DEF Represents, Members
  <2>2. CASE n # q.front
    <3>1. PICK m \in Threads : q.next[m] = n
      BY <2>2 DEF Members
    <3>2. n \in Threads
      BY DEF Members
    <3>3. PICK i \in 1..Len(s) : s[i] = m
      BY <3>1, <3>2 DEF Represents
    <3>4. q.next[s[i]] = IF i = Len(s) THEN -1 ELSE s[i + 1]
      BY DEF Represents
    <3>5. i # Len(s) /\ s[i + 1] = n
      BY <3>1, <3>2, <3>3, <3>4
    <3> QED BY <1>1, <3>5
  <2> QED BY <2>1, <2>2
<1>3. ASSUME NEW i \in 1..Len(s)
      PROVE  s[i] \in Members(q)
  <2>1. CASE i = 1
    BY <1>1, <2>1 DEF Represents, Members
  <2>2. CASE i # 1
    <3>1. i - 1 \in 1..Len(s) /\ i - 1 # Len(s) /\ (i - 1) + 1 = i
      BY <1>1, <2>2
    <3>2. q.next[s[i - 1]] = s[i]
      BY <3>1 DEF Represents
    <3> QED BY <1>1, <3>1, <3>2 DEF Members
  <2> QED BY <2>1, <2>2
<1> QED BY <1>2, <1>3
-----------------------------------------------------------------------------
(* Walks of the list *)

Less == {p \in Nat \X Nat : p[1] < p[2]}

\* Every nonempty set of naturals has a least element.
LEMMA LeastNatural ==
    ASSUME NEW T \in SUBSET Nat, T # {}
    PROVE  \E m \in T : \A k \in T : m <= k
<1>1. OpToRel(<, Nat) = Less
  BY Zenon DEF OpToRel, Less
<1>2. IsWellFoundedOn(Less, Nat)
  BY Zenon, NatLessThanWellFounded, <1>1
<1>3. PICK m \in T : \A k \in T : <<k, m>> \notin Less
  BY <1>2, WFMin
<1>4. ASSUME NEW k \in T PROVE m <= k
  BY <1>3, m \in Nat, k \in Nat, <<k, m>> \notin Less DEF Less
<1> QED
  BY <1>4

\* A walk of N nodes from the front of a list meets its items in order.
THEOREM ItemsAreRepresented ==
    ASSUME NEW q, NEW s, Represents(q, s)
    PROVE  Items(q) = s
<1> DEFINE P == Nat \ {0}
           Walk(f) == [k \in P |->
                IF k = 1 THEN q.front
                ELSE IF f[k - 1] = -1 THEN -1 ELSE q.next[f[k - 1]]]
           walked == CHOOSE f : f = Walk(f)
           met == [k \in P |-> IF k <= Len(s) THEN s[k] ELSE -1]
<1>1. s \in Seq(Threads) /\ Len(s) \in Nat /\ \A k \in 1..Len(s) : s[k] \in Threads
  BY DEF Represents
<1>2. q.N = Len(s) /\ q.front = IF s = <<>> THEN -1 ELSE s[1]
  BY DEF Represents
<1>3. \A k \in 1..Len(s) : q.next[s[k]] = IF k = Len(s) THEN -1 ELSE s[k + 1]
  BY DEF Represents
<1>4. s = <<>> <=> Len(s) = 0
  BY <1>1
<1>5. met = Walk(met)
  <2>1. ASSUME NEW k \in P PROVE met[k] = Walk(met)[k]
    <3>1. CASE k = 1
      BY <1>1, <1>2, <1>4, <3>1
    <3>2. CASE k # 1
      <4>1. k - 1 \in P /\ k \in Int /\ k >= 2
        BY <3>2
      <4>2. Walk(met)[k] = IF met[k - 1] = -1 THEN -1 ELSE q.next[met[k - 1]]
        BY <3>2
      <4>3. CASE k - 1 <= Len(s)
        <5>1. k - 1 \in 1..Len(s) /\ met[k - 1] = s[k - 1] /\ s[k - 1] # -1
          BY <1>1, <4>1, <4>3
        <5>2. q.next[s[k - 1]] = IF k - 1 = Len(s) THEN -1 ELSE s[k]
          BY <1>3, <4>1, <5>1, (k - 1) + 1 = k
        <5> QED
          BY <1>1, <4>1, <4>2, <4>3, <5>1, <5>2
      <4>4. CASE k - 1 > Len(s)
        BY <1>1, <4>1, <4>2, <4>4
      <4> QED
        BY <1>1, <4>1, <4>3, <4>4
    <3> QED
      BY <3>1, <3>2
  <2> QED
    BY <2>1
<1>6. walked = Walk(walked)
  BY Zenon, <1>5
<1> HIDE DEF walked
<1>7. walked = met
  <2> DEFINE Bad == {k \in P : walked[k] # met[k]}
  <2>1. SUFFICES Bad = {}
    <3>1. walked = [k \in P |-> walked[k]] /\ met = [k \in P |-> met[k]]
      BY <1>6
    <3> QED
      BY <2>1, <3>1
  <2>2. SUFFICES ASSUME Bad # {} PROVE FALSE
    OBVIOUS
  <2>3. PICK k \in Bad : \A m \in Bad : k <= m
    BY <2>2, LeastNatural
  <2>4. k \in P /\ walked[k] # met[k]
    OBVIOUS
  <2>5. /\ walked[k] = IF k = 1 THEN q.front
                   ELSE IF walked[k - 1] = -1 THEN -1 ELSE q.next[walked[k - 1]]
        /\ met[k] = IF k = 1 THEN q.front
                    ELSE IF met[k - 1] = -1 THEN -1 ELSE q.next[met[k - 1]]
    BY <1>5, <1>6, <2>4
  <2> HIDE DEF met
  <2>6. k # 1 => k - 1 \in P /\ k - 1 \notin Bad
    BY <2>3, <2>4
  <2>7. k # 1 => walked[k - 1] = met[k - 1]
    BY <2>6
  <2> QED
    BY <2>4, <2>5, <2>7
<1>8. Items(q) = [k \in 1..q.N |-> walked[k]]
  BY DEF Items, walked
<1>9. \A k \in 1..Len(s) : walked[k] = s[k]
  BY <1>1, <1>7
<1> QED
  BY <1>1, <1>2, <1>8, <1>9

LEMMA ListLength ==
    ASSUME NEW q, NEW s, Represents(q, s)
    PROVE  /\ s \in Seq(Threads) /\ Len(s) \in Nat /\ q.N = Len(s)
           /\ s = <<>> <=> Len(s) = 0
           /\ \A k \in 1..Len(s) : s[k] \in Threads
           /\ s # <<>> => q.front = s[1]
BY DEF Represents
-----------------------------------------------------------------------------
(* The loop of run_next *)

\* Whoever is cancelled is a thread, so the queue that a pop leaves is one.
LEMMA PopIsSteque ==
    ASSUME cancelled \in SUBSET Threads, NEW q \in Steques, Skips(q)
    PROVE  Pop(q) \in Steques
<1>1. q.front \in Threads /\ q.N # 0 /\ q.N \in Nat
  BY DEF Skips, IsEmpty, Steques
<1>2. q.next \in [Threads -> Pointers] /\ q.next[q.front] \in Pointers
  BY <1>1 DEF Steques
<1>3. -1 \in Pointers /\ q.back \in Pointers
  BY DEF Pointers, Steques
<1>4. [q.next EXCEPT ![q.front] = -1] \in [Threads -> Pointers]
  BY <1>2, <1>3
<1>5. q.N - 1 \in Nat
  BY <1>1
<1> QED
  BY <1>2, <1>3, <1>4, <1>5, PopStores DEF Steques

\* The loop ends in e when started in q.
Stops(q, e) ==
    /\ ~Skips(e)
    /\ \A C \in SUBSET Steques :
        q \in C /\ (\A c \in C : Skips(c) => Pop(c) \in C) => e \in C

\* SkipCancelled is a function that satisfies its equation.
LEMMA SkipCancelledIs ==
    ASSUME cancelled \in SUBSET Threads, NEW q \in Steques
    PROVE  SkipCancelled[q] = IF Skips(q) THEN SkipCancelled[Pop(q)] ELSE q
<1> DEFINE Loop(f) == [d \in Steques |-> IF Skips(d) THEN f[Pop(d)] ELSE d]
           last == [d \in Steques |-> CHOOSE e \in Steques : Stops(d, e)]
<1>1. ASSUME NEW d \in Steques, ~Skips(d) PROVE last[d] = d
  <2>1. Stops(d, d)
    BY <1>1 DEF Stops
  <2>2. ASSUME NEW e \in Steques, Stops(d, e) PROVE e = d
    <3>1. {d} \in SUBSET Steques /\ d \in {d}
      OBVIOUS
    <3>2. \A c \in {d} : Skips(c) => Pop(c) \in {d}
      BY <1>1
    <3> QED
      BY <2>2, <3>1, <3>2 DEF Stops
  <2>3. Stops(d, last[d]) /\ last[d] \in Steques
    BY <2>1
  <2> QED
    BY <2>2, <2>3
<1>2. ASSUME NEW d \in Steques, Skips(d) PROVE last[d] = last[Pop(d)]
  <2>1. Pop(d) \in Steques
    BY <1>2, PopIsSteque
  <2>2. ASSUME NEW e \in Steques, Stops(Pop(d), e) PROVE Stops(d, e)
    BY <1>2, <2>1, <2>2 DEF Stops
  <2>3. ASSUME NEW e \in Steques, Stops(d, e) PROVE Stops(Pop(d), e)
    <3>1. SUFFICES ASSUME NEW C \in SUBSET Steques, Pop(d) \in C,
                          \A c \in C : Skips(c) => Pop(c) \in C
                   PROVE  e \in C
      BY <2>3 DEF Stops
    <3>2. C \cup {d} \in SUBSET Steques /\ d \in C \cup {d}
      OBVIOUS
    <3>3. \A c \in C \cup {d} : Skips(c) => Pop(c) \in C \cup {d}
      BY <3>1
    <3>4. e \in C \cup {d}
      BY <2>3, <3>2, <3>3 DEF Stops
    <3> QED
      BY <1>2, <2>3, <3>4 DEF Stops
  <2>4. \A e \in Steques : Stops(d, e) <=> Stops(Pop(d), e)
    BY <2>2, <2>3
  <2>5. (CHOOSE e \in Steques : Stops(d, e))
            = CHOOSE e \in Steques : Stops(Pop(d), e)
    BY Zenon, <2>4
  <2> QED
    BY <2>1, <2>5
<1>3. last = Loop(last)
  <2>1. last = [d \in Steques |-> last[d]]
    OBVIOUS
  <2> HIDE DEF last
  <2>2. \A d \in Steques : last[d] = IF Skips(d) THEN last[Pop(d)] ELSE d
    BY <1>1, <1>2
  <2> QED
    BY <2>1, <2>2
<1>4. SkipCancelled = CHOOSE f : f = Loop(f)
  BY DEF SkipCancelled
<1> HIDE DEF last
<1>5. SkipCancelled = Loop(SkipCancelled)
  BY Zenon, <1>3, <1>4
<1> QED
  BY <1>5

\* What the loop leaves of a list: the items from the first one on that is not
\* cancelled, in their order.
Remains(s, t) ==
    \E k \in 0..Len(s) :
        /\ Len(t) = Len(s) - k
        /\ \A j \in 1..Len(t) : t[j] = s[j + k]
        /\ \A j \in 1..k : s[j] \in cancelled
        /\ k < Len(s) => s[k + 1] \notin cancelled

LEMMA LoopEnds ==
    ASSUME cancelled \in SUBSET Threads,
           NEW q \in Steques, NEW s, Represents(q, s)
    PROVE  /\ SkipCancelled[q] \in Steques
           /\ \E t : Represents(SkipCancelled[q], t) /\ Remains(s, t)
<1> DEFINE Good(d, u) ==
                /\ SkipCancelled[d] \in Steques
                /\ \E t : Represents(SkipCancelled[d], t) /\ Remains(u, t)
           Bad == {n \in Nat : \E d \in Steques, u \in Seq(Threads) :
                        Represents(d, u) /\ Len(u) = n /\ ~Good(d, u)}
<1>1. SUFFICES Bad = {}
  BY ListLength
<1>2. SUFFICES ASSUME Bad # {} PROVE FALSE
  OBVIOUS
<1>3. PICK n \in Bad : \A m \in Bad : n <= m
  BY <1>2, LeastNatural
<1>4. PICK d \in Steques, u \in Seq(Threads) :
            Represents(d, u) /\ Len(u) = n /\ ~Good(d, u)
  OBVIOUS
<1>5. n \in Nat /\ (u = <<>> <=> n = 0) /\ d.N = n
      /\ (\A k \in 1..n : u[k] \in Threads) /\ (u # <<>> => d.front = u[1])
  BY <1>4, ListLength
<1>6. CASE ~Skips(d)
  <2>1. SkipCancelled[d] = d
    BY <1>6, SkipCancelledIs
  <2>2. n # 0 => u[1] \notin cancelled
    BY <1>5, <1>6 DEF Skips, IsEmpty
  <2>3. Remains(u, u)
    <3>1. 0 \in 0..Len(u) /\ Len(u) = Len(u) - 0
      BY <1>4, <1>5
    <3>2. \A j \in 1..Len(u) : u[j] = u[j + 0]
      BY <1>4, <1>5
    <3>3. (\A j \in 1..0 : u[j] \in cancelled)
          /\ (0 < Len(u) => u[0 + 1] \notin cancelled)
      BY <1>4, <1>5, <2>2
    <3> QED
      BY <3>1, <3>2, <3>3 DEF Remains
  <2> QED
    BY <1>4, <2>1, <2>3
<1>7. CASE Skips(d)
  <2>1. u # <<>> /\ n # 0 /\ u[1] \in cancelled
    BY <1>5, <1>7 DEF Skips, IsEmpty
  <2>2. Pop(d) \in Steques /\ Represents(Pop(d), Tail(u))
    BY <1>4, <2>1, PopTakesTheFront
  <2> DEFINE v == Tail(u)
  <2>3. /\ v \in Seq(Threads) /\ Len(v) = n - 1
        /\ \A j \in 1..Len(v) : v[j] = u[j + 1]
    BY <1>4, <1>5, <2>1
  <2> HIDE DEF v
  <2>4. n - 1 \in Nat /\ n - 1 \notin Bad
    BY <1>3, <1>5, <2>1
  <2>5. Good(Pop(d), v)
    BY <2>2, <2>3, <2>4 DEF v
  <2>6. PICK t : Represents(SkipCancelled[Pop(d)], t) /\ Remains(v, t)
    BY <2>5
  <2>7. SkipCancelled[d] = SkipCancelled[Pop(d)]
    BY <1>7, SkipCancelledIs
  <2>8. PICK k \in 0..Len(v) :
            /\ Len(t) = Len(v) - k
            /\ \A j \in 1..Len(t) : t[j] = v[j + k]
            /\ \A j \in 1..k : v[j] \in cancelled
            /\ k < Len(v) => v[k + 1] \notin cancelled
    BY <2>6 DEF Remains
  <2>9. k \in Nat /\ k + 1 \in 0..Len(u) /\ Len(t) = Len(u) - (k + 1)
    BY <1>4, <1>5, <2>3, <2>8
  <2>10. ASSUME NEW j \in 1..Len(t) PROVE t[j] = u[j + (k + 1)]
    <3>1. j + k \in 1..Len(v) /\ (j + k) + 1 = j + (k + 1)
      BY <1>4, <1>5, <2>3, <2>8, <2>9
    <3> QED
      BY <2>3, <2>8, <3>1
  <2>11. ASSUME NEW j \in 1..(k + 1) PROVE u[j] \in cancelled
    <3>1. CASE j = 1
      BY <2>1, <3>1
    <3>2. CASE j # 1
      <4>1. j - 1 \in 1..k /\ j - 1 \in 1..Len(v) /\ (j - 1) + 1 = j
        BY <1>5, <2>3, <2>8, <3>2
      <4> QED
        BY <2>3, <2>8, <4>1
    <3> QED
      BY <3>1, <3>2
  <2>12. ASSUME k + 1 < Len(u) PROVE u[(k + 1) + 1] \notin cancelled
    <3>1. k < Len(v) /\ k + 1 \in 1..Len(v)
      BY <1>4, <1>5, <2>3, <2>8, <2>12
    <3> QED
      BY <2>3, <2>8, <3>1
  <2>13. Remains(u, t)
    BY <2>9, <2>10, <2>11, <2>12 DEF Remains
  <2> QED
    BY <1>4, <2>5, <2>6, <2>7, <2>13
<1> QED
  BY <1>6, <1>7
-----------------------------------------------------------------------------
(* Lists as the scheduler uses them *)

\* A well-formed list.
Listed(q) == q \in Steques /\ Represents(q, Items(q))

LEMMA ListOf ==
    ASSUME NEW q \in Steques, NEW s, Represents(q, s)
    PROVE  /\ Listed(q)
           /\ Members(q) = {s[k] : k \in 1..Len(s)}
           /\ IsEmpty(q) <=> Members(q) = {}
           /\ ~IsEmpty(q) => q.front \in Members(q) /\ s # <<>> /\ q.front = s[1]
<1>1. Items(q) = s
  BY ItemsAreRepresented
<1>2. Members(q) = {s[k] : k \in 1..Len(s)}
  BY MembersAreItems
<1>3. Len(s) \in Nat /\ q.N = Len(s) /\ (s = <<>> <=> Len(s) = 0)
      /\ (s # <<>> => q.front = s[1])
  BY ListLength
<1>4. /\ Len(s) # 0 => s[1] \in Members(q)
      /\ Len(s) = 0 => Members(q) = {}
  BY <1>2, <1>3
<1>5. IsEmpty(q) <=> Len(s) = 0
  BY <1>3 DEF IsEmpty
<1>6. Listed(q)
  BY <1>1 DEF Listed
<1> QED
  BY <1>2, <1>3, <1>4, <1>5, <1>6

LEMMA FrontOfList ==
    ASSUME NEW q, Listed(q)
    PROVE  /\ IsEmpty(q) <=> Members(q) = {}
           /\ ~IsEmpty(q) => q.front \in Members(q)
           /\ Members(q) \in SUBSET Threads
           /\ ToSet(Items(q)) = Members(q)
<1>1. q \in Steques /\ Represents(q, Items(q))
  BY DEF Listed
<1>2. DOMAIN Items(q) = 1..Len(Items(q))
  BY <1>1, ListLength
<1>3. Members(q) \in SUBSET Threads
  BY DEF Members
<1> QED
  BY <1>1, <1>2, <1>3, ListOf DEF ToSet

LEMMA EnqueueList ==
    ASSUME NEW q, Listed(q), NEW n \in Threads, n \notin Members(q)
    PROVE  /\ Listed(Enqueue(q, n))
           /\ Members(Enqueue(q, n)) = Members(q) \cup {n}
           /\ ~IsEmpty(q) => Enqueue(q, n).front = q.front
<1> DEFINE s == Items(q)
           t == Append(s, n)
<1>1. q \in Steques /\ Represents(q, s)
  BY DEF Listed
<1> HIDE DEF s
<1>2. /\ s \in Seq(Threads) /\ Len(s) \in Nat
      /\ \A k \in 1..Len(s) : s[k] \in Threads
  BY <1>1, ListLength
<1>3. Members(q) = {s[k] : k \in 1..Len(s)}
  BY <1>1, ListOf
<1>4. \A k \in 1..Len(s) : s[k] # n
  BY <1>3
<1>5. Enqueue(q, n) \in Steques /\ Represents(Enqueue(q, n), t)
  BY <1>1, <1>4, EnqueueAppends
<1>6. /\ Len(t) = Len(s) + 1 /\ t[Len(s) + 1] = n
      /\ \A k \in 1..Len(s) : t[k] = s[k]
  BY <1>2
<1> HIDE DEF t
<1>7. Members(Enqueue(q, n)) = {t[k] : k \in 1..Len(t)} /\ Listed(Enqueue(q, n))
  BY <1>5, ListOf
<1>8. Members(Enqueue(q, n)) = Members(q) \cup {n}
  <2>1. \A k \in 1..Len(t) : k \in 1..Len(s) \/ k = Len(s) + 1
    BY <1>2, <1>6
  <2>2. Len(s) + 1 \in 1..Len(t) /\ \A k \in 1..Len(s) : k \in 1..Len(t)
    BY <1>2, <1>6
  <2> QED
    BY <1>3, <1>6, <1>7, <2>1, <2>2
<1>9. ~IsEmpty(q) => q.back # -1
  <2>1. Len(s) # 0 => Len(s) \in 1..Len(s) /\ q.back = s[Len(s)]
    BY <1>1, <1>2 DEF Represents
  <2> QED
    BY <1>1, <1>2, <2>1, ListLength DEF IsEmpty
<1> QED
  BY <1>1, <1>7, <1>8, <1>9, EnqueueStores

LEMMA PopList ==
    ASSUME NEW q, Listed(q), ~IsEmpty(q)
    PROVE  Listed(Pop(q)) /\ Members(Pop(q)) = Members(q) \ {q.front}
<1> DEFINE s == Items(q)
           t == Tail(s)
<1>1. q \in Steques /\ Represents(q, s)
  BY DEF Listed
<1> HIDE DEF s
<1>2. /\ s \in Seq(Threads) /\ Len(s) \in Nat /\ s # <<>> /\ Len(s) # 0
      /\ q.front = s[1]
  BY <1>1, ListLength DEF IsEmpty
<1>3. Members(q) = {s[k] : k \in 1..Len(s)}
  BY <1>1, ListOf
<1>4. Pop(q) \in Steques /\ Represents(Pop(q), t)
  BY <1>1, <1>2, PopTakesTheFront
<1>5. Len(t) = Len(s) - 1 /\ \A k \in 1..Len(t) : t[k] = s[k + 1]
  BY <1>2
<1> HIDE DEF t
<1>6. Members(Pop(q)) = {t[k] : k \in 1..Len(t)} /\ Listed(Pop(q))
  BY <1>4, ListOf
<1>7. \A k \in 1..Len(s) : s[k] = s[1] => k = 1
  <2>1. 1 \in 1..Len(s)
    BY <1>2
  <2> QED
    BY <1>1, <2>1 DEF Represents
<1>8. ASSUME NEW k \in 1..Len(t) PROVE t[k] \in Members(q) \ {q.front}
  <2>1. k + 1 \in 1..Len(s) /\ k + 1 # 1
    BY <1>2, <1>5
  <2> QED
    BY <1>2, <1>3, <1>5, <1>7, <2>1
<1>9. ASSUME NEW k \in 1..Len(s), s[k] # q.front PROVE s[k] \in Members(Pop(q))
  <2>1. k - 1 \in 1..Len(t) /\ (k - 1) + 1 = k
    BY <1>2, <1>5, <1>9
  <2>2. t[k - 1] = s[k]
    BY <1>5, <2>1
  <2> QED
    BY <1>6, <2>1, <2>2
<1> QED
  BY <1>3, <1>6, <1>8, <1>9

LEMMA CycleList ==
    ASSUME NEW q, Listed(q), ~IsEmpty(q)
    PROVE  Listed(Cycle(q)) /\ Members(Cycle(q)) = Members(q)
<1> DEFINE s == Items(q)
           t == Append(Tail(s), Head(s))
<1>1. q \in Steques /\ Represents(q, s)
  BY DEF Listed
<1> HIDE DEF s
<1>2. /\ s \in Seq(Threads) /\ Len(s) \in Nat /\ s # <<>> /\ Len(s) # 0
  BY <1>1, ListLength DEF IsEmpty
<1>3. Members(q) = {s[k] : k \in 1..Len(s)}
  BY <1>1, ListOf
<1>4. Cycle(q) \in Steques /\ Represents(Cycle(q), t)
  BY <1>1, <1>2, CycleTurns
<1>5. /\ Len(t) = Len(s) /\ t[Len(s)] = s[1]
      /\ \A k \in 1..(Len(s) - 1) : t[k] = s[k + 1]
  <2>1. /\ Tail(s) \in Seq(Threads) /\ Len(Tail(s)) = Len(s) - 1
        /\ \A k \in 1..(Len(s) - 1) : Tail(s)[k] = s[k + 1]
        /\ Head(s) = s[1] /\ Head(s) \in Threads
    BY <1>2
  <2> DEFINE u == Tail(s)
             h == Head(s)
  <2> HIDE DEF u, h
  <2>2. /\ Len(Append(u, h)) = Len(u) + 1
        /\ Append(u, h)[Len(u) + 1] = h
        /\ \A k \in 1..Len(u) : Append(u, h)[k] = u[k]
    BY <2>1 DEF u, h
  <2> QED
    BY <1>2, <2>1, <2>2 DEF u, h
<1> HIDE DEF t
<1>6. Members(Cycle(q)) = {t[k] : k \in 1..Len(t)} /\ Listed(Cycle(q))
  BY <1>4, ListOf
<1>7. ASSUME NEW k \in 1..Len(t) PROVE t[k] \in Members(q)
  <2>1. 1 \in 1..Len(s) /\ (k # Len(s) => k + 1 \in 1..Len(s) /\ k \in 1..(Len(s) - 1))
    BY <1>2, <1>5
  <2> QED
    BY <1>3, <1>5, <2>1
<1>8. ASSUME NEW k \in 1..Len(s) PROVE s[k] \in Members(Cycle(q))
  <2>1. CASE k = 1
    BY <1>2, <1>5, <1>6, <2>1, Len(s) \in 1..Len(t)
  <2>2. CASE k # 1
    <3>1. k - 1 \in 1..(Len(s) - 1) /\ (k - 1) + 1 = k /\ k - 1 \in 1..Len(t)
      BY <1>2, <1>5, <2>2
    <3>2. t[k - 1] = s[k]
      BY <1>5, <3>1
    <3> QED
      BY <1>6, <3>1, <3>2
  <2> QED
    BY <2>1, <2>2
<1> QED
  BY <1>3, <1>6, <1>7, <1>8

LEMMA SkipList ==
    ASSUME cancelled \in SUBSET Threads, NEW q, Listed(q)
    PROVE  LET rest == SkipCancelled[q]
           IN  /\ Listed(rest)
               /\ Members(rest) \subseteq Members(q)
               /\ Members(q) \ Members(rest) \subseteq cancelled
               /\ ~IsEmpty(rest) => rest.front \notin cancelled
<1> DEFINE s == Items(q)
           rest == SkipCancelled[q]
<1>1. q \in Steques /\ Represents(q, s)
  BY DEF Listed
<1> HIDE DEF s
<1>2. rest \in Steques /\ \E t : Represents(rest, t) /\ Remains(s, t)
  BY <1>1, LoopEnds
<1> HIDE DEF rest
<1>3. PICK t : Represents(rest, t) /\ Remains(s, t)
  BY <1>2
<1>4. PICK k \in 0..Len(s) :
        /\ Len(t) = Len(s) - k
        /\ \A j \in 1..Len(t) : t[j] = s[j + k]
        /\ \A j \in 1..k : s[j] \in cancelled
        /\ k < Len(s) => s[k + 1] \notin cancelled
  BY <1>3 DEF Remains
<1>5. /\ Len(s) \in Nat /\ k \in Nat
      /\ Len(t) \in Nat /\ (t = <<>> <=> Len(t) = 0)
  BY <1>1, <1>3, ListLength
<1>6. /\ Members(q) = {s[j] : j \in 1..Len(s)}
      /\ Members(rest) = {t[j] : j \in 1..Len(t)}
      /\ Listed(rest)
      /\ ~IsEmpty(rest) => t # <<>> /\ rest.front = t[1]
  BY <1>1, <1>2, <1>3, ListOf
<1>7. ASSUME NEW j \in 1..Len(t) PROVE t[j] \in Members(q)
  <2>1. j + k \in 1..Len(s)
    BY <1>4, <1>5
  <2> QED
    BY <1>4, <1>6, <2>1
<1>8. ASSUME NEW j \in 1..Len(s), s[j] \notin cancelled PROVE s[j] \in Members(rest)
  <2>1. j \notin 1..k
    BY <1>4, <1>8
  <2>2. j - k \in 1..Len(t) /\ (j - k) + k = j
    BY <1>4, <1>5, <2>1
  <2>3. t[j - k] = s[j]
    BY <1>4, <2>2
  <2> QED
    BY <1>6, <2>2, <2>3
<1>9. ASSUME ~IsEmpty(rest) PROVE rest.front \notin cancelled
  <2>1. Len(t) # 0 /\ rest.front = t[1]
    BY <1>5, <1>6, <1>9
  <2>2. k < Len(s) /\ 1 \in 1..Len(t) /\ 1 + k = k + 1
    BY <1>4, <1>5, <2>1
  <2> QED
    BY <1>4, <2>1, <2>2
<1> QED
  BY <1>6, <1>7, <1>8, <1>9 DEF rest
-----------------------------------------------------------------------------
(* The invariant of the run queue *)

\* The threads that have been created.
Created == 0..(global_thread_id - 1)

\* Windows with which nothing comes between the two parts of an exit or of a
\* creation, nor into a search.
TamePlaces ==
    {"cancelling", "set", "enqueue", "first", "next", "linked", "take", "pop",
     "unlink", "popped"}
LockPlaces ==
    {"set", "enqueue", "first", "next", "linked", "take", "pop", "unlink", "popped"}

Ending == {"leaving", "returning", "ghost"}
Ended == Ending \cup {"gone"}
Inside ==
    {"run", "joining", "cancelling", "set", "enqueue", "first", "next", "linked",
     "spin", "take", "pop", "unlink", "popped"}

Shape ==
    /\ threads_queue \in Steques
    /\ global_thread_id \in 1..MaxThreads
    /\ cancelled \in SUBSET Threads
    /\ completed \in SUBSET Threads
    /\ ret_val \in [Threads -> {"garbage", "exited", "canceled"}]
    /\ waiting_for_me \in [Threads -> Threads \cup {-1}]
    /\ ctx \in [Threads -> Threads]
    /\ running \in Threads
    /\ pc \in [Threads -> {"none", "creating"} \cup Inside \cup Ended]
    /\ arg \in [Threads -> Threads]
    /\ lock \in {0, 1}
    /\ nodes \in SUBSET Threads
    /\ holds \in SUBSET Threads
    /\ got \in SUBSET (Threads \X {"garbage", "exited", "canceled"})
    /\ over \in {"no", "exit 0", "exit 1", "fault"}

\* The run queue is a list of the threads that have not ended.
RunQueue ==
    /\ Listed(threads_queue)
    /\ Members(threads_queue) = Created \ completed

Flags == cancelled \subseteq Created /\ completed \subseteq Created

\* Every execution is saved in the structure of its own thread.
Contexts == \A t \in Threads : ctx[t] = t

\* An execution on its way between the parts of a creation or of an exit is on
\* the processor, and has ended or not as it should there.
PlaceOf(e) ==
    /\ pc[e] = "none" <=> e \notin Created
    /\ e \in completed => e \in cancelled \/ pc[e] \in Ended
    /\ pc[e] \in Ended => e \in completed
    /\ pc[e] \in Ending \cup {"creating"} => running = e
    /\ pc[e] = "creating" =>
            arg[e] = global_thread_id /\ global_thread_id < MaxThreads
    /\ pc[e] \in {"leaving", "returning"} => arg[e] = e
    /\ pc[e] = "ghost" => IsEmpty(threads_queue)
    /\ pc[e] = "cancelling" => arg[e] \in cancelled

Places == \A e \in Threads : PlaceOf(e)

\* The front of the queue is on the processor and is not cancelled, unless the
\* execution there is leaving.
OnProcessor ==
    \/ pc[running] \in Ending
    \/ /\ running = Current
       /\ running \notin cancelled
       /\ pc[running] \in Inside \cup {"creating"}

\* The inductive invariant.
TurnInv == Shape /\ RunQueue /\ Flags /\ Contexts /\ Places /\ OnProcessor

LEMMA TurnParts ==
    ASSUME TurnInv
    PROVE  /\ Shape /\ RunQueue /\ Flags /\ Contexts /\ Places /\ OnProcessor
           /\ Listed(threads_queue)
           /\ Members(threads_queue) = Created \ completed
           /\ Created \in SUBSET Threads
           /\ global_thread_id \in 1..MaxThreads /\ MaxThreads \in Int
<1>1. Shape /\ RunQueue /\ Flags /\ Contexts /\ Places /\ OnProcessor
  BY DEF TurnInv
<1>2. MaxThreads \in Int
  BY ThreadsAssumption
<1>3. global_thread_id \in 1..MaxThreads
  BY <1>1 DEF Shape
<1> QED
  BY <1>1, <1>2, <1>3 DEF RunQueue, Created, Threads

LEMMA InitTurns == Init => TurnInv
<1>1. SUFFICES ASSUME Init PROVE TurnInv
  OBVIOUS
<1> DEFINE q == Enqueue(EmptySteque, 0)
<1>2. 0 \in Threads /\ 1 \in 1..MaxThreads
  BY ThreadsAssumption DEF Threads
<1>3. EmptySteque \in Steques /\ Represents(EmptySteque, <<>>)
  BY InitIsEmpty
<1>4. Listed(EmptySteque) /\ Members(EmptySteque) = {}
  <2>1. Listed(EmptySteque) /\ Members(EmptySteque) = {<<>>[k] : k \in 1..Len(<<>>)}
    BY <1>3, ListOf
  <2>2. Len(<<>>) = 0
    OBVIOUS
  <2> QED
    BY <2>1, <2>2
<1>5. Listed(q) /\ Members(q) = {0}
  BY <1>2, <1>4, EnqueueList
<1>6. q.front = 0
  BY <1>2, <1>3, EnqueueStores DEF EmptySteque
<1>7. threads_queue = q
  BY <1>1 DEF Init
<1> HIDE DEF q
<1>8. Created = {0}
  BY <1>1 DEF Init, Created
<1>9. Shape
  BY <1>1, <1>2, <1>5, <1>7 DEF Init, Shape, Listed, Inside
<1>10. RunQueue /\ Flags /\ Contexts
  BY <1>1, <1>5, <1>7, <1>8 DEF Init, RunQueue, Flags, Contexts
<1>11. Places
  BY <1>1, <1>2, <1>8 DEF Init, Places, PlaceOf, Ended, Ending
<1>12. OnProcessor
  BY <1>1, <1>2, <1>6, <1>7 DEF Init, OnProcessor, Inside, Current
<1> QED
  BY <1>9, <1>10, <1>11, <1>12 DEF TurnInv

\* What run_next leaves: it drops cancelled threads only, and gives the processor to
\* the first that is not.
LEMMA RunNextDoes ==
    ASSUME Shape, Contexts, NEW q, Listed(q), RunNext(q, running)
    PROVE  /\ Listed(threads_queue')
           /\ Members(threads_queue') \subseteq Members(q)
           /\ Members(q) \ Members(threads_queue') \subseteq cancelled
           /\ completed' = completed \cup (Members(q) \ Members(threads_queue'))
           /\ waiting_for_me' \in [Threads -> Threads \cup {-1}]
           /\ ctx' = ctx
           /\ IsEmpty(threads_queue') => running' = running
           /\ ~IsEmpty(threads_queue') =>
                /\ running' = threads_queue'.front
                /\ running' \in Members(threads_queue') \ cancelled
<1> DEFINE rest == SkipCancelled[q]
<1>1. /\ Listed(rest)
      /\ Members(rest) \subseteq Members(q)
      /\ Members(q) \ Members(rest) \subseteq cancelled
      /\ ~IsEmpty(rest) => rest.front \notin cancelled
  BY SkipList DEF Shape
<1>2. ~IsEmpty(rest) => rest.front \in Members(rest) /\ rest.front \in Threads
  BY <1>1, FrontOfList
<1>3. /\ threads_queue' = rest
      /\ completed' = completed \cup (Members(q) \ Members(rest))
      /\ waiting_for_me' = NoLongerAwaited(Members(q) \ Members(rest))
      /\ IsEmpty(rest) => ctx' = ctx /\ running' = running
      /\ ~IsEmpty(rest) => /\ ctx' = [ctx EXCEPT ![running] = running]
                           /\ running' = ctx'[rest.front]
  BY DEF RunNext
<1> HIDE DEF rest
<1>4. ctx' = ctx
  <2>1. ctx \in [Threads -> Threads] /\ running \in Threads /\ ctx[running] = running
    BY DEF Shape, Contexts
  <2>2. [ctx EXCEPT ![running] = running] = ctx
    BY <2>1
  <2> QED
    BY <1>3, <2>2
<1>5. waiting_for_me' \in [Threads -> Threads \cup {-1}]
  BY <1>3 DEF Shape, NoLongerAwaited
<1>6. ~IsEmpty(rest) => running' = rest.front
  BY <1>2, <1>3, <1>4 DEF Contexts
<1> QED
  BY <1>1, <1>2, <1>3, <1>4, <1>5, <1>6

\* A turn of the queue, in a yield or a signal.
LEMMA Turn ==
    ASSUME TurnInv, pc[running] \in Inside, CycleAndRunFront(threads_queue),
           UNCHANGED <<structs, mutex, pc, arg, got, over>>
    PROVE  TurnInv'
<1>1. /\ Shape /\ RunQueue /\ Flags /\ Contexts /\ Places /\ OnProcessor
      /\ Listed(threads_queue)
      /\ Members(threads_queue) = Created \ completed
      /\ Created \in SUBSET Threads
  BY TurnParts
<1>2. running = Current /\ running \notin cancelled /\ running \in Threads
  BY <1>1 DEF OnProcessor, Inside, Ending, Shape
<1>3. ~IsEmpty(threads_queue) /\ RunNext(Cycle(threads_queue), running)
  BY <1>2 DEF CycleAndRunFront, Current
<1> DEFINE q == Cycle(threads_queue)
<1>4. Listed(q) /\ Members(q) = Created \ completed
  BY <1>1, <1>3, CycleList
<1>5. /\ Listed(threads_queue')
      /\ Members(threads_queue') \subseteq Members(q)
      /\ Members(q) \ Members(threads_queue') \subseteq cancelled
      /\ completed' = completed \cup (Members(q) \ Members(threads_queue'))
      /\ waiting_for_me' \in [Threads -> Threads \cup {-1}]
      /\ ctx' = ctx
      /\ ~IsEmpty(threads_queue') =>
            /\ running' = threads_queue'.front
            /\ running' \in Members(threads_queue') \ cancelled
  BY <1>1, <1>3, <1>4, RunNextDoes
<1> HIDE DEF q
<1>6. global_thread_id' = global_thread_id /\ cancelled' = cancelled
      /\ ret_val' = ret_val /\ lock' = lock /\ nodes' = nodes
      /\ holds' = holds /\ pc' = pc /\ arg' = arg /\ got' = got /\ over' = over
      /\ Created' = Created
  BY DEF structs, mutex, Created
<1>7. running \in Created \ completed
  BY <1>1, <1>2, <1>3, FrontOfList DEF Current
<1>8. ~IsEmpty(threads_queue')
  BY <1>2, <1>4, <1>5, <1>7, FrontOfList
<1>9. Members(threads_queue') = (Created \ completed)'
  BY <1>4, <1>5, <1>6
<1>10. running' \in Threads /\ running' \in Created \ completed'
  BY <1>1, <1>5, <1>6, <1>8, <1>9
<1>11. completed' \subseteq Created /\ \A t \in completed' : t \in completed \/ t \in cancelled
  BY <1>1, <1>4, <1>5 DEF Flags
<1>12. Shape'
  BY <1>1, <1>5, <1>6, <1>10, <1>11 DEF Shape, Listed
<1>13. RunQueue' /\ Flags' /\ Contexts'
  BY <1>1, <1>5, <1>6, <1>9, <1>11 DEF RunQueue, Flags, Contexts
<1>14. \A e \in Threads : pc[e] \notin Ending \cup {"creating"}
  BY <1>1 DEF Places, PlaceOf, Ending, Inside
<1>15. Places'
  <2>1. ASSUME NEW e \in Threads PROVE PlaceOf(e)'
    <3>1. PlaceOf(e) /\ pc[e] \notin Ending \cup {"creating"}
      BY <1>1, <1>14 DEF Places
    <3>2. e \in completed => e \in completed'
      BY <1>5
    <3> QED
      BY <1>6, <1>11, <3>1, <3>2 DEF PlaceOf, Ending, Ended
  <2> QED
    BY <2>1 DEF Places
<1>16. OnProcessor'
  <2>1. pc[running'] \notin Ended \cup {"none", "creating"}
    BY <1>1, <1>5, <1>8, <1>10, <1>14 DEF Places, PlaceOf, Ended
  <2>2. pc[running'] \in Inside
    BY <1>1, <1>10, <2>1 DEF Shape
  <2> QED
    BY <1>5, <1>6, <1>8, <2>2 DEF OnProcessor, Current
<1> QED
  BY <1>12, <1>13, <1>15, <1>16 DEF TurnInv

\* A step that moves at most the execution on the processor, and changes
\* nothing that the run queue depends on.
LEMMA Quiet ==
    ASSUME TurnInv, Shape',
           UNCHANGED <<global_thread_id, cancelled, threads_queue, completed,
                       ctx, running>>,
           NEW e \in Threads,
           \A f \in Threads \ {e} : pc'[f] = pc[f] /\ arg'[f] = arg[f],
           \/ pc'[e] = pc[e] /\ arg'[e] = arg[e]
           \/ /\ running = e /\ pc[e] \in Inside
              /\ pc'[e] \in Inside \ {"cancelling"}
    PROVE  TurnInv'
<1>1. /\ Shape /\ RunQueue /\ Flags /\ Contexts /\ Places /\ OnProcessor
      /\ Created \in SUBSET Threads
  BY TurnParts
<1>2. RunQueue' /\ Flags' /\ Contexts' /\ Created' = Created
  BY <1>1 DEF RunQueue, Flags, Contexts, Created
<1>3. pc[e] \in Inside => e \in Created
  BY <1>1 DEF Places, PlaceOf, Inside
<1>4. ASSUME NEW f \in Threads PROVE PlaceOf(f)'
  <2>1. PlaceOf(f)
    BY <1>1 DEF Places
  <2>2. CASE pc'[f] = pc[f] /\ arg'[f] = arg[f]
    BY <1>2, <2>1, <2>2 DEF PlaceOf
  <2>3. CASE f = e /\ pc[e] \in Inside /\ pc'[e] \in Inside \ {"cancelling"}
    BY <1>2, <1>3, <2>1, <2>3 DEF PlaceOf, Inside, Ended, Ending
  <2> QED
    BY <2>2, <2>3
<1>5. Places'
  BY <1>4 DEF Places
<1>6. OnProcessor'
  <2>1. running \in Threads
    BY <1>1 DEF Shape
  <2>2. CASE pc'[running] = pc[running]
    BY <1>1, <2>2 DEF OnProcessor, Current
  <2>3. CASE running = e /\ pc[e] \in Inside /\ pc'[e] \in Inside
    BY <1>1, <2>3 DEF OnProcessor, Current, Inside, Ending
  <2> QED
    BY <2>1, <2>2, <2>3
<1> QED
  BY <1>1, <1>2, <1>5, <1>6 DEF TurnInv

\* The steps of gtthread_mutex_lock and gtthread_mutex_unlock, of a join, and
\* the ends of the process.
QuietStep(e) ==
    \/ GhostEnds(e) \/ CancelValue(e) \/ JoinReturn(e)
    \/ Lock(e) \/ LockSet(e) \/ LockNode(e) \/ LockLink(e) \/ LockBack(e)
    \/ SpinEnds(e) \/ LockTake(e) \/ LockPop(e) \/ LockUnlink(e) \/ LockPopped(e) \/ Unlock(e)
    \/ \E t \in Threads : JoinLate(e, t) \/ Join(e, t)

LEMMA ReportIsTyped ==
    ASSUME Shape, NEW t \in Threads, Report(t)
    PROVE  got' \in SUBSET (Threads \X {"garbage", "exited", "canceled"})
<1>1. ret_val[t] \in {"garbage", "exited", "canceled"}
  BY DEF Shape
<1>2. <<t, ret_val[t]>> \in Threads \X {"garbage", "exited", "canceled"}
  BY <1>1
<1>3. got \in SUBSET (Threads \X {"garbage", "exited", "canceled"})
  BY DEF Shape
<1> QED
  BY <1>2, <1>3 DEF Report

LEMMA QuietSteps ==
    ASSUME TurnInv, NEW e \in Threads, QuietStep(e)
    PROVE  TurnInv'
<1>1. /\ Shape /\ RunQueue /\ Flags /\ Contexts /\ Places /\ OnProcessor
      /\ Created \in SUBSET Threads
  BY TurnParts
<1> DEFINE Calm ==
        /\ Shape'
        /\ UNCHANGED <<global_thread_id, cancelled, threads_queue, completed,
                       ctx, running>>
        /\ \A f \in Threads \ {e} : pc'[f] = pc[f] /\ arg'[f] = arg[f]
        /\ \/ pc'[e] = pc[e] /\ arg'[e] = arg[e]
           \/ /\ running = e /\ pc[e] \in Inside
              /\ pc'[e] \in Inside \ {"cancelling"}
<1>2. ASSUME GhostEnds(e) PROVE Calm
  BY <1>1, <1>2 DEF GhostEnds, Shape, structs, mutex, sched
<1>3. 0 \in Threads
  BY ThreadsAssumption DEF Threads
<1>4. ASSUME CancelValue(e) PROVE Calm
  <2>1. running = e /\ pc[e] \in Inside
    BY <1>4 DEF CancelValue, At, Inside
  <2>2. /\ pc' = [pc EXCEPT ![e] = "run"] /\ arg' = [arg EXCEPT ![e] = 0]
        /\ ret_val' = [ret_val EXCEPT ![arg[e]] = "canceled"]
    BY <1>4 DEF CancelValue, Return, CallGoto, Goto
  <2>3. ret_val' \in [Threads -> {"garbage", "exited", "canceled"}]
    BY <1>1, <2>2 DEF Shape
  <2> QED
    BY <1>1, <1>3, <1>4, <2>1, <2>2, <2>3 DEF CancelValue, mutex, sched, Shape, Inside
<1>5. ASSUME JoinReturn(e) PROVE Calm
  <2>1. running = e /\ pc[e] \in Inside
    BY <1>5 DEF JoinReturn, At, Inside
  <2>2. /\ pc' = [pc EXCEPT ![e] = "run"] /\ arg' = [arg EXCEPT ![e] = 0]
        /\ got' \in SUBSET (Threads \X {"garbage", "exited", "canceled"})
    BY <1>1, <1>5, ReportIsTyped DEF JoinReturn, Return, CallGoto, Goto, Shape
  <2> QED
    BY <1>1, <1>3, <1>5, <2>1, <2>2 DEF JoinReturn, structs, mutex, sched, Shape, Inside
<1>6. ASSUME running = e, pc[e] \in LockPlaces \cup {"run", "spin"},
             NEW to \in LockPlaces \cup {"run", "spin"}, Goto(e, to),
             \/ arg' = arg
             \/ \E t \in Threads : arg' = [arg EXCEPT ![e] = t],
             lock' \in {0, 1}, nodes' \in SUBSET Threads, holds' \in SUBSET Threads,
             UNCHANGED <<structs, sched, got, over>>
      PROVE  Calm
  <2>1. pc[e] \in Inside /\ to \in Inside \ {"cancelling"}
    BY <1>6 DEF Inside, LockPlaces
  <2>2. pc' = [pc EXCEPT ![e] = to]
    BY <1>6 DEF Goto
  <2>3. /\ pc \in [Threads -> {"none", "creating"} \cup Inside \cup Ended]
        /\ arg \in [Threads -> Threads]
    BY <1>1 DEF Shape
  <2>4. /\ pc' \in [Threads -> {"none", "creating"} \cup Inside \cup Ended]
        /\ pc'[e] = to /\ \A f \in Threads \ {e} : pc'[f] = pc[f]
    BY <2>1, <2>2, <2>3
  <2>5. arg' \in [Threads -> Threads] /\ \A f \in Threads \ {e} : arg'[f] = arg[f]
    BY <1>6, <2>3
  <2>6. Shape'
    BY <1>1, <1>6, <2>4, <2>5 DEF structs, sched, Shape
  <2> QED
    BY <1>6, <2>1, <2>4, <2>5, <2>6 DEF structs, sched
<1>7. ASSUME Lock(e) \/ LockSet(e) \/ SpinEnds(e) \/ LockTake(e) PROVE Calm
  <2>1. /\ running = e /\ pc[e] \in LockPlaces \cup {"run", "spin"}
        /\ arg' = arg /\ nodes' = nodes /\ (lock' = lock \/ lock' = 1)
        /\ holds' = holds \/ holds' = holds \cup {e}
        /\ UNCHANGED <<structs, sched, got, over>>
        /\ Goto(e, "set") \/ Goto(e, "enqueue") \/ Goto(e, "run")
              \/ Goto(e, "take") \/ Goto(e, "pop")
    BY <1>7 DEF Lock, LockSet, SpinEnds, LockTake, At, mutex, LockPlaces
  <2>2. lock' \in {0, 1} /\ nodes' \in SUBSET Threads /\ holds' \in SUBSET Threads
    BY <1>1, <2>1 DEF Shape
  <2> QED
    BY <1>6, <2>1, <2>2 DEF LockPlaces
<1>8. ASSUME LockNode(e) PROVE Calm
  <2>1. Mallocs \in SUBSET Threads
    BY <1>8 DEF LockNode, Mallocs, FreeNodes
  <2>2. PICK n \in Threads :
            /\ nodes' = nodes \cup {n} /\ arg' = [arg EXCEPT ![e] = n]
            /\ Goto(e, "first") \/ Goto(e, "next")
    BY <1>8, <2>1 DEF LockNode, CallGoto
  <2>3. /\ running = e /\ pc[e] \in LockPlaces
        /\ UNCHANGED <<structs, sched, lock, holds, got, over>>
    BY <1>8 DEF LockNode, At, LockPlaces
  <2>4. lock' \in {0, 1} /\ nodes' \in SUBSET Threads /\ holds' \in SUBSET Threads
    BY <1>1, <2>2, <2>3 DEF Shape
  <2> QED
    BY <1>6, <2>2, <2>3, <2>4 DEF LockPlaces
\* The exit(1) of steque_front, and the use of a node that is free.
<1>9. ASSUME over' \in {"exit 1", "fault"},
             UNCHANGED <<structs, mutex, sched, pc, arg, got>>
      PROVE  Calm
  BY <1>1, <1>9 DEF Shape, structs, mutex, sched
<1>14. ASSUME LockLink(e) \/ LockBack(e) \/ LockPop(e) \/ LockUnlink(e) \/ LockPopped(e) PROVE Calm
  <2>1. CASE over' \in {"exit 1", "fault"} /\ UNCHANGED <<lock_queue, nodes, holds, pc, arg>>
    <3>1. UNCHANGED <<structs, mutex, sched, pc, arg, got>>
      BY <1>14, <2>1 DEF LockLink, LockBack, LockPop, LockUnlink, LockPopped, mutex
    <3> QED
      BY <1>9, <2>1, <3>1
  <2>2. CASE over' = over
    <3>1. /\ running = e /\ pc[e] \in LockPlaces
          /\ lock' = lock /\ UNCHANGED <<structs, sched, got>>
      <4>1. CASE LockPop(e)
        BY <4>1 DEF LockPop, At, LockPlaces, mutex
      <4>2. CASE LockLink(e) \/ LockBack(e) \/ LockUnlink(e) \/ LockPopped(e)
        BY <4>2 DEF LockLink, LockBack, LockUnlink, LockPopped, At, LockPlaces
      <4> QED
        BY <1>14, <4>1, <4>2
    <3>2. over # "fault" /\ over # "exit 1"
      BY <1>14 DEF LockLink, LockBack, LockPop, LockUnlink, LockPopped, At
    <3>3. /\ nodes' = nodes \/ nodes' = nodes \ {arg[e]}
          /\ holds' = holds \/ holds' = holds \cup {e}
          /\ \/ arg' = arg
             \/ arg' = [arg EXCEPT ![e] = 0]
             \/ /\ lock_queue.front \in nodes
                /\ arg' = [arg EXCEPT ![e] = lock_queue.front]
          /\ Goto(e, "linked") \/ Goto(e, "spin") \/ Goto(e, "unlink") \/ Goto(e, "popped")
             \/ Goto(e, "run")
      BY <1>14, <2>2, <3>2 DEF LockLink, LockBack, LockPop, LockUnlink, LockPopped, Fault,
         CallGoto, Return, mutex
    <3>4. /\ lock' \in {0, 1} /\ nodes' \in SUBSET Threads /\ holds' \in SUBSET Threads
          /\ nodes \in SUBSET Threads
      BY <1>1, <3>1, <3>3 DEF Shape
    <3>5. arg' = arg \/ \E t \in Threads : arg' = [arg EXCEPT ![e] = t]
      BY <1>3, <3>3, <3>4
    <3> QED
      BY <1>6, <2>2, <3>1, <3>3, <3>4, <3>5 DEF LockPlaces
  <2>3. over' = over \/ (over' \in {"exit 1", "fault"}
                            /\ UNCHANGED <<lock_queue, nodes, holds, pc, arg>>)
    BY <1>14 DEF LockLink, LockBack, LockPop, LockUnlink, LockPopped, Fault,
       mutex
  <2> QED
    BY <2>1, <2>2, <2>3
<1>10. ASSUME Unlock(e) PROVE Calm
  BY <1>1, <1>10 DEF Unlock, structs, sched, Shape
<1>11. ASSUME NEW t \in Threads, JoinLate(e, t) PROVE Calm
  <2>1. got' \in SUBSET (Threads \X {"garbage", "exited", "canceled"})
    BY <1>1, <1>11, ReportIsTyped DEF JoinLate
  <2> QED
    BY <1>1, <1>11, <2>1 DEF JoinLate, structs, mutex, sched, Shape
<1>12. ASSUME NEW t \in Threads, Join(e, t) PROVE Calm
  <2>1. running = e /\ pc[e] \in Inside /\ pc[e] = "run"
    BY <1>12 DEF Join, At, Inside
  <2>2. Current = e
    BY <1>1, <2>1 DEF OnProcessor, Ending
  <2>3. waiting_for_me' \in [Threads -> Threads \cup {-1}]
    BY <1>1, <1>12, <2>2 DEF Join, Shape
  <2>4. /\ \/ pc' = pc /\ arg' = arg
           \/ pc' = [pc EXCEPT ![e] = "joining"] /\ arg' = [arg EXCEPT ![e] = t]
        /\ got' \in SUBSET (Threads \X {"garbage", "exited", "canceled"})
    BY <1>1, <1>12, ReportIsTyped DEF Join, CallGoto, Goto, Shape
  <2>5. UNCHANGED <<structs, mutex, threads_queue, completed, ctx, running, over>>
    BY <1>12 DEF Join
  <2>6. /\ pc' \in [Threads -> {"none", "creating"} \cup Inside \cup Ended]
        /\ arg' \in [Threads -> Threads]
    <3>1. /\ pc \in [Threads -> {"none", "creating"} \cup Inside \cup Ended]
          /\ arg \in [Threads -> Threads]
      BY <1>1 DEF Shape
    <3>2. pc' = pc \/ pc' = [pc EXCEPT ![e] = "joining"]
      BY <2>4
    <3>3. arg' = arg \/ arg' = [arg EXCEPT ![e] = t]
      BY <2>4
    <3>4. "joining" \in Inside
      BY DEF Inside
    <3> QED
      BY <3>1, <3>2, <3>3, <3>4
  <2>7. Shape'
    BY <1>1, <2>3, <2>4, <2>5, <2>6 DEF structs, mutex, Shape
  <2> QED
    BY <1>1, <2>1, <2>4, <2>5, <2>7 DEF structs, Shape, Inside
<1>13. Calm
  BY <1>2, <1>4, <1>5, <1>7, <1>8, <1>10, <1>11, <1>12, <1>14 DEF QuietStep
<1> QED
  BY <1>13, Quiet

LEMMA MainReturnsStep ==
    ASSUME TurnInv, MainReturns
    PROVE  TurnInv'
<1>1. Shape'
  BY TurnParts DEF MainReturns, Shape, structs, mutex, sched
<1>2. 0 \in Threads
  BY ThreadsAssumption DEF Threads
<1>3. UNCHANGED <<global_thread_id, cancelled, threads_queue, completed,
                  ctx, running, pc, arg>>
  BY DEF MainReturns, structs, sched
<1> QED
  BY <1>1, <1>2, <1>3, Quiet

\* gtthread_create: the new thread gets the first free number, and the back of
\* the queue.
LEMMA CreateStep ==
    ASSUME TurnInv, NEW e \in Threads, Create(e)
    PROVE  TurnInv'
<1>1. /\ Shape /\ RunQueue /\ Flags /\ Contexts /\ Places /\ OnProcessor
      /\ Created \in SUBSET Threads
      /\ global_thread_id \in 1..MaxThreads /\ MaxThreads \in Int
  BY TurnParts
<1>2. running = e /\ pc[e] = "run" /\ global_thread_id < MaxThreads
  BY DEF Create, At
<1>3. /\ pc' = [pc EXCEPT ![e] = "creating"]
      /\ arg' = [arg EXCEPT ![e] = global_thread_id]
      /\ UNCHANGED <<structs, mutex, sched, got, over>>
  BY DEF Create, CallGoto, Goto
<1>4. global_thread_id \in Threads
  BY <1>1, <1>2 DEF Threads
<1>5. Shape'
  BY <1>1, <1>3, <1>4 DEF Shape, structs, mutex, sched
<1>6. RunQueue' /\ Flags' /\ Contexts' /\ Created' = Created
  BY <1>1, <1>3 DEF RunQueue, Flags, Contexts, Created, structs, sched
<1>7. ASSUME NEW f \in Threads PROVE PlaceOf(f)'
  <2>1. PlaceOf(f)
    BY <1>1 DEF Places
  <2>2. CASE f = e
    BY <1>1, <1>2, <1>3, <1>6, <2>1, <2>2
    DEF PlaceOf, Ended, Ending, Shape, structs, sched
  <2>3. CASE f # e
    BY <1>1, <1>3, <1>6, <2>1, <2>3 DEF PlaceOf, Shape, structs, sched
  <2> QED
    BY <2>2, <2>3
<1>8. OnProcessor'
  BY <1>1, <1>2, <1>3 DEF OnProcessor, Current, Ending, Shape, structs, sched
<1> QED
  BY <1>5, <1>6, <1>7, <1>8 DEF TurnInv, Places

LEMMA CreateThreadStep ==
    ASSUME TurnInv, NEW e \in Threads, CreateThread(e)
    PROVE  TurnInv'
<1>1. /\ Shape /\ RunQueue /\ Flags /\ Contexts /\ Places /\ OnProcessor
      /\ Listed(threads_queue)
      /\ Members(threads_queue) = Created \ completed
      /\ Created \in SUBSET Threads
      /\ global_thread_id \in 1..MaxThreads /\ MaxThreads \in Int
  BY TurnParts
<1> DEFINE n == global_thread_id
<1>2. /\ running = e /\ pc[e] = "creating"
      /\ arg[e] = n /\ n < MaxThreads
  BY <1>1 DEF CreateThread, At, Places, PlaceOf
<1>3. n \in Threads /\ n \notin Created /\ n + 1 \in 1..MaxThreads
  BY <1>1, <1>2 DEF Threads, Created
<1>4. /\ global_thread_id' = n + 1
      /\ threads_queue' = Enqueue(threads_queue, n)
      /\ pc' = [pc EXCEPT ![e] = "run", ![n] = "run"]
      /\ arg' = [arg EXCEPT ![e] = 0]
      /\ UNCHANGED <<cancelled, ret_val, mutex, completed, waiting_for_me, ctx,
                     running, got, over>>
  BY <1>2 DEF CreateThread
<1> HIDE DEF n
<1>5. Created' = Created \cup {n}
  BY <1>1, <1>4 DEF Created, n
<1>6. pc[n] = "none" /\ e # n
  BY <1>1, <1>2, <1>3 DEF Places, PlaceOf
<1>7. \A f \in Threads :
        /\ pc'[f] = IF f \in {e, n} THEN "run" ELSE pc[f]
        /\ arg'[f] = IF f = e THEN 0 ELSE arg[f]
  BY <1>1, <1>4 DEF Shape
<1>8. /\ Listed(threads_queue') /\ Members(threads_queue') = Members(threads_queue) \cup {n}
      /\ ~IsEmpty(threads_queue) => threads_queue'.front = threads_queue.front
  BY <1>1, <1>3, <1>4, EnqueueList
<1>9. 0 \in Threads
  BY ThreadsAssumption DEF Threads
<1>10. Shape'
  BY <1>1, <1>3, <1>4, <1>8, <1>9 DEF Shape, mutex, Listed, Inside
<1>11. n \notin completed /\ n \notin cancelled
  BY <1>1, <1>3 DEF Flags
<1>12. RunQueue' /\ Flags' /\ Contexts'
  BY <1>1, <1>4, <1>5, <1>8, <1>11 DEF RunQueue, Flags, Contexts
<1>13. running = Current /\ running \notin cancelled
  BY <1>1, <1>2 DEF OnProcessor, Ending
<1>14. ~IsEmpty(threads_queue)
  <2>1. e \in Created /\ e \notin completed
    BY <1>1, <1>2, <1>13 DEF Places, PlaceOf, Ended, Ending
  <2> QED
    BY <1>1, <2>1, FrontOfList
<1>a. cancelled' = cancelled /\ completed' = completed /\ running' = running
  BY <1>4
<1>15. ASSUME NEW f \in Threads PROVE PlaceOf(f)'
  <2>1. PlaceOf(f) /\ PlaceOf(e) /\ PlaceOf(n)
    BY <1>1, <1>3 DEF Places
  <2>2. CASE f = e
    BY <1>2, <1>a, <1>5, <1>7, <1>11, <1>13, <2>1, <2>2 DEF PlaceOf, Ended, Ending
  <2>3. CASE f = n
    BY <1>a, <1>5, <1>7, <1>11, <2>1, <2>3 DEF PlaceOf, Ended, Ending
  <2>4. CASE f \notin {e, n}
    <3>1. pc[f] # "creating" /\ pc[f] \notin Ending
      BY <1>2, <2>1, <2>4 DEF PlaceOf, Ending
    <3> QED
      BY <1>a, <1>5, <1>7, <2>1, <2>4, <3>1 DEF PlaceOf, Ended, Ending
  <2> QED
    BY <2>2, <2>3, <2>4
<1>16. OnProcessor'
  BY <1>2, <1>4, <1>7, <1>8, <1>13, <1>14 DEF OnProcessor, Current, Inside
<1> QED
  BY <1>10, <1>12, <1>15, <1>16 DEF TurnInv, Places

\* The first part of gtthread_exit: the running thread is out of the queue.
LEMMA LeaveStep ==
    ASSUME TurnInv, NEW e \in Threads, At(e, {"run"}),
           NEW value \in {"exited", "canceled"}, NEW to \in {"leaving", "returning"},
           Leave(e, value, to),
           cancelled' = cancelled \/ cancelled' = cancelled \cup {e}
    PROVE  TurnInv'
<1>1. /\ Shape /\ RunQueue /\ Flags /\ Contexts /\ Places /\ OnProcessor
      /\ Listed(threads_queue)
      /\ Members(threads_queue) = Created \ completed
      /\ Created \in SUBSET Threads
  BY TurnParts
<1>2. running = e /\ pc[e] = "run"
  BY DEF At
<1>3. Current = e /\ e \in Created /\ e \notin completed
  <2>1. Current = e /\ e \notin cancelled /\ PlaceOf(e)
    BY <1>1, <1>2 DEF OnProcessor, Ending, Places
  <2> QED
    BY <1>2, <2>1 DEF PlaceOf, Ended, Ending
<1>4. /\ threads_queue' = Pop(threads_queue)
      /\ completed' = completed \cup {e}
      /\ ret_val' = [ret_val EXCEPT ![e] = value]
      /\ waiting_for_me' = NoLongerAwaited({e})
      /\ pc' = [pc EXCEPT ![e] = to]
      /\ arg' = [arg EXCEPT ![e] = e]
      /\ UNCHANGED <<global_thread_id, mutex, ctx, running, got, over>>
  BY <1>3 DEF Leave, CallGoto, Goto
<1>5. ~IsEmpty(threads_queue)
  BY <1>1, <1>3, FrontOfList
<1>6. Listed(threads_queue') /\ Members(threads_queue') = Members(threads_queue) \ {e}
  BY <1>1, <1>3, <1>4, <1>5, PopList DEF Current
<1>7. waiting_for_me' \in [Threads -> Threads \cup {-1}]
  BY <1>1, <1>4 DEF NoLongerAwaited, Shape
<1>8. Shape'
  <2>1. /\ cancelled' \in SUBSET Threads /\ completed' \in SUBSET Threads
        /\ pc' \in [Threads -> {"none", "creating"} \cup Inside \cup Ended]
        /\ ret_val' \in [Threads -> {"garbage", "exited", "canceled"}]
        /\ arg' \in [Threads -> Threads]
    BY <1>1, <1>4 DEF Shape, Ended, Ending
  <2> QED
    BY <1>1, <1>4, <1>6, <1>7, <2>1 DEF Shape, mutex, Listed
<1>9. Created' = Created
  BY <1>4 DEF Created
<1>10. RunQueue' /\ Flags' /\ Contexts'
  BY <1>1, <1>3, <1>4, <1>6, <1>9 DEF RunQueue, Flags, Contexts
<1>11. \A f \in Threads :
        /\ pc'[f] = IF f = e THEN to ELSE pc[f]
        /\ arg'[f] = IF f = e THEN e ELSE arg[f]
  BY <1>1, <1>4 DEF Shape
<1>12. ASSUME NEW f \in Threads PROVE PlaceOf(f)'
  <2>1. PlaceOf(f) /\ PlaceOf(e)
    BY <1>1 DEF Places
  <2>2. CASE f = e
    BY <1>2, <1>3, <1>4, <1>9, <1>11, <2>1, <2>2 DEF PlaceOf, Ended, Ending
  <2>3. CASE f # e
    <3>1. pc[f] \notin Ending \cup {"creating"}
      BY <1>2, <2>1, <2>3 DEF PlaceOf
    <3> QED
      BY <1>4, <1>9, <1>11, <2>1, <2>3, <3>1 DEF PlaceOf, Ended, Ending
  <2> QED
    BY <2>2, <2>3
<1>13. OnProcessor'
  BY <1>2, <1>4, <1>11 DEF OnProcessor, Ending
<1> QED
  BY <1>8, <1>10, <1>12, <1>13 DEF TurnInv, Places

LEMMA CancelOtherStep ==
    ASSUME TurnInv, NEW e \in Threads, NEW t \in Threads, Cancel(e, t),
           t # Current
    PROVE  TurnInv'
<1>1. /\ Shape /\ RunQueue /\ Flags /\ Contexts /\ Places /\ OnProcessor
      /\ Listed(threads_queue)
      /\ Members(threads_queue) = Created \ completed
      /\ Created \in SUBSET Threads
  BY TurnParts
<1>2. running = e /\ pc[e] = "run" /\ t \in Created
  BY <1>1 DEF Cancel, At, Queued
<1>3. /\ cancelled' = cancelled \cup {t}
      /\ pc' = [pc EXCEPT ![e] = "cancelling"]
      /\ arg' = [arg EXCEPT ![e] = t]
      /\ UNCHANGED <<global_thread_id, ret_val, mutex, sched, got, over>>
  BY DEF Cancel, CallGoto, Goto
<1>4. Current = e
  BY <1>1, <1>2 DEF OnProcessor, Ending
<1>5. Shape'
  <2>1. /\ cancelled' \in SUBSET Threads
        /\ pc' \in [Threads -> {"none", "creating"} \cup Inside \cup Ended]
        /\ arg' \in [Threads -> Threads]
    BY <1>1, <1>3 DEF Shape, Inside
  <2> QED
    BY <1>1, <1>3, <2>1 DEF Shape, mutex, sched
<1>6. RunQueue' /\ Flags' /\ Contexts' /\ Created' = Created
  BY <1>1, <1>2, <1>3 DEF RunQueue, Flags, Contexts, Created, sched
<1>7. \A f \in Threads :
        /\ pc'[f] = IF f = e THEN "cancelling" ELSE pc[f]
        /\ arg'[f] = IF f = e THEN t ELSE arg[f]
  BY <1>1, <1>3 DEF Shape
<1>8. ASSUME NEW f \in Threads PROVE PlaceOf(f)'
  <2>1. PlaceOf(f)
    BY <1>1 DEF Places
  <2>2. CASE f = e
    BY <1>2, <1>3, <1>6, <1>7, <2>1, <2>2 DEF PlaceOf, Ended, Ending, sched
  <2>3. CASE f # e
    BY <1>3, <1>6, <1>7, <2>1, <2>3 DEF PlaceOf, sched
  <2> QED
    BY <2>2, <2>3
<1>9. OnProcessor'
  BY <1>1, <1>2, <1>3, <1>4, <1>7 DEF OnProcessor, Ending, Inside, Current, sched
<1> QED
  BY <1>5, <1>6, <1>8, <1>9 DEF TurnInv, Places

\* The second part of gtthread_exit: the next thread runs, or nobody is left.
LEMMA DepartStep ==
    ASSUME TurnInv, NEW e \in Threads, Depart(e)
    PROVE  TurnInv'
<1>1. /\ Shape /\ RunQueue /\ Flags /\ Contexts /\ Places /\ OnProcessor
      /\ Listed(threads_queue)
      /\ Members(threads_queue) = Created \ completed
      /\ Created \in SUBSET Threads
  BY TurnParts
<1>2. /\ running = e /\ pc[e] \in {"leaving", "returning"} /\ arg[e] = e
      /\ e \in completed
  BY <1>1 DEF Depart, At, Places, PlaceOf, Ended, Ending
<1>3. RunNext(threads_queue, running) /\ UNCHANGED <<structs, mutex, got>>
  BY <1>2 DEF Depart
<1>4. /\ Listed(threads_queue')
      /\ Members(threads_queue') \subseteq Members(threads_queue)
      /\ Members(threads_queue) \ Members(threads_queue') \subseteq cancelled
      /\ completed' = completed \cup (Members(threads_queue) \ Members(threads_queue'))
      /\ waiting_for_me' \in [Threads -> Threads \cup {-1}]
      /\ ctx' = ctx
      /\ IsEmpty(threads_queue') => running' = running
      /\ ~IsEmpty(threads_queue') =>
            /\ running' = threads_queue'.front
            /\ running' \in Members(threads_queue') \ cancelled
  BY <1>1, <1>3, RunNextDoes
<1>5. global_thread_id' = global_thread_id /\ cancelled' = cancelled
      /\ ret_val' = ret_val /\ lock' = lock /\ nodes' = nodes
      /\ holds' = holds /\ got' = got /\ Created' = Created
  BY <1>3 DEF structs, mutex, Created
<1>6. \/ /\ ~IsEmpty(threads_queue')
         /\ pc' = [pc EXCEPT ![e] = "gone"] /\ arg' = [arg EXCEPT ![e] = 0]
         /\ over' = over
      \/ /\ IsEmpty(threads_queue')
         /\ pc' = [pc EXCEPT ![e] = "ghost"] /\ arg' = [arg EXCEPT ![e] = 0]
         /\ over' = over
      \/ /\ IsEmpty(threads_queue')
         /\ pc' = pc /\ arg' = arg /\ over' = "exit 0"
  BY DEF Depart, CallGoto, Goto
<1>7. 0 \in Threads
  BY ThreadsAssumption DEF Threads
<1>8. Members(threads_queue') = (Created \ completed)'
  BY <1>1, <1>4, <1>5
<1>9. completed' \subseteq Created /\ \A t \in completed' : t \in completed \/ t \in cancelled
  BY <1>1, <1>4 DEF Flags
<1>10. running' \in Threads
  BY <1>1, <1>4, <1>5, <1>8 DEF Shape
<1>11. Shape'
  <2>1. /\ pc' \in [Threads -> {"none", "creating"} \cup Inside \cup Ended]
        /\ arg' \in [Threads -> Threads]
        /\ over' \in {"no", "exit 0", "exit 1", "fault"}
    <3>1. /\ pc \in [Threads -> {"none", "creating"} \cup Inside \cup Ended]
          /\ arg \in [Threads -> Threads]
          /\ over \in {"no", "exit 0", "exit 1", "fault"}
      BY <1>1 DEF Shape
    <3>2. \/ pc' = pc
          \/ pc' = [pc EXCEPT ![e] = "gone"]
          \/ pc' = [pc EXCEPT ![e] = "ghost"]
      BY <1>6
    <3>3. arg' = arg \/ arg' = [arg EXCEPT ![e] = 0]
      BY <1>6
    <3>4. over' = over \/ over' = "exit 0"
      BY <1>6
    <3>5. "gone" \in Ended /\ "ghost" \in Ended
      BY DEF Ended, Ending
    <3>6. pc' \in [Threads -> {"none", "creating"} \cup Inside \cup Ended]
      BY <3>1, <3>2, <3>5
    <3>7. arg' \in [Threads -> Threads]
      BY <1>7, <3>1, <3>3
    <3> QED
      BY <3>1, <3>4, <3>6, <3>7
  <2>2. completed' \in SUBSET Threads
    BY <1>1, <1>9
  <2> QED
    BY <1>1, <1>4, <1>5, <1>10, <2>1, <2>2 DEF Shape, Listed
<1>12. RunQueue' /\ Flags' /\ Contexts'
  BY <1>1, <1>4, <1>5, <1>8, <1>9 DEF RunQueue, Flags, Contexts
<1>13. \A f \in Threads : f # e => pc[f] \notin Ending \cup {"creating"}
  BY <1>1, <1>2 DEF Places, PlaceOf
<1>14. \A f \in Threads : f # e => pc'[f] = pc[f] /\ arg'[f] = arg[f]
  BY <1>1, <1>6 DEF Shape
<1>15. /\ ~IsEmpty(threads_queue') => pc'[e] = "gone"
       /\ IsEmpty(threads_queue') =>
            \/ pc'[e] = "ghost"
            \/ pc'[e] = pc[e] /\ arg'[e] = arg[e]
  BY <1>1, <1>6 DEF Shape
<1>16. ASSUME NEW f \in Threads PROVE PlaceOf(f)'
  <2>1. PlaceOf(f)
    BY <1>1 DEF Places
  <2>2. f \in completed => f \in completed'
    BY <1>4
  <2>3. CASE f # e
    <3>1. pc[f] \notin Ending \cup {"creating"} /\ pc'[f] = pc[f] /\ arg'[f] = arg[f]
      BY <1>13, <1>14, <2>3
    <3> QED
      BY <1>5, <1>9, <2>1, <2>2, <3>1 DEF PlaceOf, Ended, Ending
  <2>4. CASE f = e /\ ~IsEmpty(threads_queue')
    BY <1>2, <1>5, <1>9, <1>15, <2>1, <2>2, <2>4 DEF PlaceOf, Ended, Ending
  <2>5. CASE f = e /\ IsEmpty(threads_queue')
    BY <1>2, <1>4, <1>5, <1>9, <1>15, <2>1, <2>2, <2>5 DEF PlaceOf, Ended, Ending
  <2> QED
    BY <2>3, <2>4, <2>5
<1>17. OnProcessor'
  <2>1. CASE IsEmpty(threads_queue')
    BY <1>2, <1>4, <1>15, <2>1 DEF OnProcessor, Ending
  <2>2. CASE ~IsEmpty(threads_queue')
    <3>1. running' \in Created \ completed' /\ running' \notin cancelled
      BY <1>4, <1>5, <1>8, <2>2
    <3>2. running' # e
      BY <1>2, <1>4, <3>1
    <3>3. pc[running'] \notin Ended \cup {"none", "creating"}
      BY <1>1, <1>4, <1>10, <1>13, <3>1, <3>2 DEF Places, PlaceOf, Ended
    <3>4. pc[running'] \in Inside
      BY <1>1, <1>10, <3>3 DEF Shape
    <3> QED
      BY <1>4, <1>5, <1>10, <1>14, <2>2, <3>1, <3>2, <3>4 DEF OnProcessor, Current
  <2> QED
    BY <2>1, <2>2
<1> QED
  BY <1>11, <1>12, <1>16, <1>17 DEF TurnInv, Places

LEMMA TurnStep ==
    ASSUME TurnInv, Next, Windows \subseteq TamePlaces
    PROVE  TurnInv'
<1>1. ASSUME NEW e \in Threads, Yield(e) PROVE TurnInv'
  <2>1. pc[running] \in Inside
    BY <1>1 DEF Yield, At, Inside
  <2> QED
    BY <1>1, <2>1, Turn DEF Yield
<1>2. ASSUME NEW e \in Threads, Preempt(e) PROVE TurnInv'
  <2>1. pc[running] \in Inside
    BY <1>2 DEF Preempt, At, Inside, TamePlaces
  <2>2. CycleAndRunFront(threads_queue)
    BY <1>2 DEF Preempt, TamePlaces
  <2> QED
    BY <1>2, <2>1, <2>2, Turn DEF Preempt
<1>3. ASSUME NEW e \in Threads, Exit(e) PROVE TurnInv'
  <2>1. At(e, {"run"}) /\ cancelled' = cancelled
    BY <1>3 DEF Exit
  <2>2. Leave(e, "exited", "leaving") \/ Leave(e, "exited", "returning")
    BY <1>3 DEF Exit
  <2> QED
    BY <2>1, <2>2, LeaveStep
<1>4. ASSUME NEW e \in Threads, NEW t \in Threads, Cancel(e, t) PROVE TurnInv'
  <2>1. CASE t = Current
    <3>1. At(e, {"run"}) /\ cancelled' = cancelled \cup {t}
          /\ Leave(e, "canceled", "leaving")
      BY <1>4, <2>1 DEF Cancel
    <3>2. t = e
      BY <2>1, <3>1, TurnParts DEF At, OnProcessor, Ending
    <3> QED
      BY <3>1, <3>2, LeaveStep
  <2>2. CASE t # Current
    BY <1>4, <2>2, CancelOtherStep
  <2> QED
    BY <2>1, <2>2
<1>5. ASSUME Terminated PROVE TurnInv'
  <2>1. UNCHANGED vars
    BY <1>5 DEF Terminated
  <2> QED
    BY <2>1 DEF vars, structs, mutex, sched, TurnInv, Shape, RunQueue, Flags,
        Contexts, Places, PlaceOf, OnProcessor, Created, Current
<1>6. ASSUME NEW e \in Threads, Step(e) PROVE TurnInv'
  BY <1>1, <1>3, <1>4, <1>6, QuietSteps, CreateStep, CreateThreadStep, DepartStep
  DEF Step, QuietStep
<1> QED
  BY <1>2, <1>5, <1>6, MainReturnsStep DEF Next

\* With the windows that do not split an exit, a creation or a search, the run
\* queue is right at every step.
THEOREM RunQueueKept ==
    ASSUME Windows \subseteq TamePlaces
    PROVE  Spec => []TurnInv
<1>1. TurnInv /\ [Next]_vars => TurnInv'
  <2>1. ASSUME TurnInv, UNCHANGED vars PROVE TurnInv'
    BY <2>1 DEF vars, structs, mutex, sched, TurnInv, Shape, RunQueue, Flags,
        Contexts, Places, PlaceOf, OnProcessor, Created, Current
  <2> QED
    BY <2>1, TurnStep
<1> QED
  BY <1>1, InitTurns, PTL DEF Spec

\* Every thread has its turn: the run queue holds each thread that has not
\* ended once, the front one runs, and the others have their own execution saved,
\* whatever the program calls and wherever a signal comes.
THEOREM Turns ==
    ASSUME Windows \subseteq TamePlaces
    PROVE  Spec => []OneTurnEach
<1>1. ASSUME TurnInv PROVE OneTurnEach
  <2>1. /\ Shape /\ RunQueue /\ Flags /\ Contexts /\ Places /\ OnProcessor
        /\ Listed(threads_queue)
        /\ Members(threads_queue) = Created \ completed
    BY <1>1, TurnParts
  <2>2. /\ Represents(threads_queue, Items(threads_queue))
        /\ ToSet(Items(threads_queue)) = Created \ completed
        /\ Created \in SUBSET Threads
    BY <1>1, <2>1, FrontOfList, TurnParts DEF Listed
  <2>3. pc[running] \in {"leaving", "returning", "ghost"} \/ running = Current
    BY <2>1 DEF OnProcessor, Ending
  <2>4. \A t \in ToSet(Items(threads_queue)) \ {running} : ctx[t] = t
    BY <2>1, <2>2 DEF Contexts
  <2>5. \A e \in Threads : pc[e] = "creating" => arg[e] = global_thread_id
    BY <2>1 DEF Places, PlaceOf
  <2> QED
    BY <2>2, <2>3, <2>4, <2>5 DEF OneTurnEach, Created
<1> QED
  BY <1>1, RunQueueKept, PTL
-----------------------------------------------------------------------------
(* Moves of executions, and the queue of the mutex *)

AllPlaces == {"none", "creating"} \cup Inside \cup Ended

\* How a step of e moves executions.
MoveOf(e) ==
    \/ pc' = pc
    \/ \E to \in AllPlaces : pc' = [pc EXCEPT ![e] = to]
    \/ pc[e] = "creating" /\ pc' = [pc EXCEPT ![e] = "run", ![arg[e]] = "run"]

\* The places where lock_queue is half changed, or the node for it is found;
\* and those of the threads that have put an item on it and have not taken one.
ListPlaces == {"first", "next", "linked", "unlink", "popped"}
Waits == {"linked", "spin", "take", "pop", "unlink"}
Waiting == {e \in Threads : pc[e] \in Waits}

\* The steps that change lock_queue, and those that leave it alone.
ListStep(e) ==
    LockNode(e) \/ LockLink(e) \/ LockBack(e) \/ LockPop(e) \/ LockUnlink(e) \/ LockPopped(e)

Aside(e) ==
    /\ UNCHANGED <<lock_queue, nodes>> /\ over' # "fault" /\ DOMAIN arg' = DOMAIN arg
    /\ pc[e] \notin ListPlaces
    /\ \/ pc' = pc
       \/ \E to \in AllPlaces \ ListPlaces :
            /\ pc' = [pc EXCEPT ![e] = to]
            /\ to \in Waits => pc[e] \in Waits
       \/ pc' = [pc EXCEPT ![e] = "run", ![arg[e]] = "run"]

LEMMA ListStepMoves ==
    ASSUME NEW e \in Threads, ListStep(e)
    PROVE  MoveOf(e) /\ over = "no" /\ running = e
<1> DEFINE Goes(to) == pc' = [pc EXCEPT ![e] = to]
<1>1. over = "no" /\ running = e
  BY DEF ListStep, LockNode, LockLink, LockBack, LockPop, LockUnlink, LockPopped, At
<1>2. pc' = pc \/ Goes("first") \/ Goes("next") \/ Goes("linked") \/ Goes("spin")
        \/ Goes("unlink") \/ Goes("popped") \/ Goes("run")
  BY DEF ListStep, LockNode, LockLink, LockBack, LockPop, LockUnlink, LockPopped, Fault,
     Return, CallGoto, Goto
<1>3. {"first", "next", "linked", "spin", "unlink", "popped", "run"} \subseteq AllPlaces
  BY DEF AllPlaces, Inside
<1> QED
  BY <1>1, <1>2, <1>3 DEF MoveOf

\* Every step of a thread is one or the other, where no signal comes in the
\* middle of the list.
LEMMA Asides ==
    ASSUME NEW e \in Threads, Step(e) \/ Preempt(e)
    PROVE  /\ MoveOf(e) /\ over = "no" /\ running = e
           /\ Windows \cap ListPlaces = {} => Aside(e) \/ ListStep(e)
<1> DEFINE Goes(to) == pc' = [pc EXCEPT ![e] = to]
           Still == UNCHANGED <<lock_queue, nodes>> /\ DOMAIN arg' = DOMAIN arg
           Goal == /\ MoveOf(e)
                   /\ over = "no" /\ running = e
                   /\ Windows \cap ListPlaces = {} => Aside(e) \/ ListStep(e)
           Near == /\ over = "no" /\ running = e /\ pc[e] \notin ListPlaces
                   /\ Still /\ over' # "fault"
<1>1. {"run", "creating", "joining", "cancelling", "leaving", "returning", "gone",
       "ghost", "set", "enqueue", "take", "pop"} \subseteq AllPlaces \ ListPlaces
  BY DEF AllPlaces, Inside, Ended, Ending, ListPlaces
<1>2. ASSUME Near, pc' = pc PROVE Goal
  BY <1>2 DEF MoveOf, Aside
<1>3. ASSUME Near, NEW to \in AllPlaces \ ListPlaces, Goes(to),
             to \in Waits => pc[e] \in Waits
      PROVE  Goal
  BY <1>3 DEF MoveOf, Aside
<1>4. ASSUME ListStep(e) PROVE Goal
  BY <1>4, ListStepMoves
<1>5. ASSUME Yield(e) \/ GhostEnds(e) \/ Unlock(e)
      PROVE  Goal
  <2>1. Near /\ pc' = pc
    BY Zenon, <1>5 DEF Yield, GhostEnds, Unlock, mutex, At, ListPlaces
  <2> QED
    BY <1>2, <2>1
<1>6. ASSUME Preempt(e) PROVE Goal
  <2>1. /\ over = "no" /\ running = e /\ Still /\ over' # "fault" /\ pc' = pc
        /\ pc[e] \in {"run", "joining", "spin"} \cup Windows
    BY Zenon, <1>6 DEF Preempt, mutex, At
  <2>2. Windows \cap ListPlaces = {} => pc[e] \notin ListPlaces
    BY <2>1 DEF ListPlaces
  <2> QED
    BY <1>2, <2>1, <2>2 DEF MoveOf
<1>7. ASSUME Create(e) PROVE Goal
  <2>1. Near /\ Goes("creating")
    BY <1>7 DEF Create, At, CallGoto, Goto, mutex, ListPlaces
  <2> QED
    BY <1>1, <1>3, <2>1 DEF Waits
<1>8. ASSUME CreateThread(e) PROVE Goal
  <2>1. Near /\ pc[e] = "creating" /\ pc' = [pc EXCEPT ![e] = "run", ![arg[e]] = "run"]
    BY <1>8 DEF CreateThread, At, mutex, ListPlaces
  <2> QED
    BY <2>1 DEF MoveOf, Aside
<1>9. ASSUME NEW value, NEW to \in {"leaving", "returning"}, Leave(e, value, to),
             At(e, {"run"})
      PROVE  Goal
  <2>1. Near /\ Goes(to)
    BY <1>9 DEF Leave, At, CallGoto, Goto, mutex, ListPlaces
  <2> QED
    BY <1>1, <1>3, <2>1 DEF Waits
<1>10. ASSUME Exit(e) PROVE Goal
  BY <1>9, <1>10 DEF Exit
<1>11. ASSUME Depart(e) PROVE Goal
  <2>1. Near /\ (Goes("gone") \/ Goes("ghost") \/ pc' = pc)
    BY <1>11 DEF Depart, At, CallGoto, Goto, mutex, ListPlaces
  <2> QED
    BY <1>1, <1>2, <1>3, <2>1 DEF Waits
<1>12. ASSUME NEW t \in Threads, Cancel(e, t) PROVE Goal
  <2>1. CASE t = Current
    BY <1>9, <1>12, <2>1 DEF Cancel
  <2>2. CASE t # Current
    <3>1. Near /\ Goes("cancelling")
      BY <1>12, <2>2 DEF Cancel, At, CallGoto, Goto, mutex, ListPlaces
    <3> QED
      BY <1>1, <1>3, <3>1 DEF Waits
  <2> QED
    BY <2>1, <2>2
<1>13. ASSUME CancelValue(e) \/ JoinReturn(e) PROVE Goal
  <2>1. Near /\ Goes("run")
    BY <1>13 DEF CancelValue, JoinReturn, At, Return, CallGoto, Goto, mutex, ListPlaces
  <2> QED
    BY <1>1, <1>3, <2>1 DEF Waits
<1>14. ASSUME NEW t \in Threads, JoinLate(e, t) \/ Join(e, t) PROVE Goal
  <2>1. Near /\ (Goes("joining") \/ pc' = pc)
    BY <1>14 DEF JoinLate, Join, At, CallGoto, Goto, mutex, ListPlaces
  <2> QED
    BY <1>1, <1>2, <1>3, <2>1 DEF Waits
<1>15. ASSUME Lock(e) \/ LockSet(e) PROVE Goal
  <2>1. Near /\ (Goes("set") \/ Goes("enqueue") \/ Goes("run"))
    BY <1>15 DEF Lock, LockSet, At, Goto, mutex, ListPlaces
  <2> QED
    BY <1>1, <1>3, <2>1 DEF Waits
<1>16. ASSUME SpinEnds(e) \/ LockTake(e) PROVE Goal
  <2>1. Near /\ pc[e] \in Waits /\ (Goes("take") \/ Goes("pop"))
    BY <1>16 DEF SpinEnds, LockTake, At, Goto, mutex, ListPlaces, Waits
  <2> QED
    BY <1>1, <1>3, <2>1
<1>17. CASE Step(e)
  BY <1>4, <1>5, <1>7, <1>8, <1>10, <1>11, <1>12, <1>13, <1>14, <1>15, <1>16, <1>17
  DEF Step, ListStep
<1> QED
  BY <1>6, <1>17

LEMMA Moves ==
    ASSUME NEW e \in Threads, Step(e) \/ Preempt(e)
    PROVE  MoveOf(e) /\ over = "no" /\ running = e
BY Asides

\* Another queue is well formed, its nodes are allocated, and it has an item
\* for every thread that will take one.
Keeps(q) ==
    /\ Listed(q)
    /\ Members(q) \subseteq nodes
    /\ Cardinality(Waiting) <= q.N

\* The queue of the mutex keeps that at every step: between the stores of an
\* enqueue or a pop, which one execution makes, with those that are to come.
LockInv ==
    /\ pc \in [Threads -> AllPlaces] /\ DOMAIN arg = Threads
    /\ lock_queue \in Steques /\ nodes \in SUBSET Threads
    /\ over # "fault"
    /\ \A e \in Threads :
        /\ pc[e] \in ListPlaces => running = e /\ arg[e] \in nodes
        /\ pc[e] \in {"first", "next"} => arg[e] \notin Members(lock_queue)
        /\ pc[e] = "first" => IsEmpty(lock_queue)
        /\ pc[e] = "next" => ~IsEmpty(lock_queue)
        /\ pc[e] = "linked" => Keeps(SetBack(lock_queue, arg[e]))
        /\ pc[e] = "unlink" => lock_queue.front = arg[e]
        /\ pc[e] = "popped" => LET q == Free(lock_queue, arg[e])
                               IN  Keeps(q) /\ arg[e] \notin Members(q)
    /\ (\A e \in Threads : pc[e] \notin {"linked", "popped"}) => Keeps(lock_queue)

LEMMA WaitingFinite == IsFiniteSet(Waiting) /\ Cardinality(Waiting) \in Nat
<1>1. IsFiniteSet(Threads)
  BY FS_Interval, ThreadsAssumption DEF Threads
<1>2. Waiting \in SUBSET Threads
  BY DEF Waiting
<1> QED
  BY <1>1, <1>2, FS_Subset, FS_CardinalityType

\* A well-formed list has a back when it has items, and a node that it does not
\* have leads nowhere.
LEMMA BackOfList ==
    ASSUME NEW q, Listed(q)
    PROVE  /\ IsEmpty(q) <=> q.back = -1
           /\ ~IsEmpty(q) => q.back \in Members(q) /\ q.front \in Members(q)
           /\ IsEmpty(q) <=> q.front = -1
           /\ \A n \in Threads \ Members(q) : q.next[n] = -1
<1> DEFINE s == Items(q)
<1>1. q \in Steques /\ Represents(q, s)
  BY DEF Listed
<1> HIDE DEF s
<1>2. /\ s \in Seq(Threads) /\ Len(s) \in Nat /\ q.N = Len(s)
      /\ s = <<>> <=> Len(s) = 0
      /\ \A k \in 1..Len(s) : s[k] \in Threads
  BY <1>1, ListLength
<1>3. Members(q) = {s[k] : k \in 1..Len(s)}
  BY <1>1, ListOf
<1>4. q.back = (IF s = <<>> THEN -1 ELSE s[Len(s)])
      /\ q.front = IF s = <<>> THEN -1 ELSE s[1]
  BY <1>1 DEF Represents
<1>5. Len(s) # 0 => /\ Len(s) \in 1..Len(s) /\ 1 \in 1..Len(s)
                    /\ s[Len(s)] # -1 /\ s[1] # -1
  BY <1>2
<1>6. \A n \in Threads \ Members(q) : q.next[n] = -1
  BY <1>1, <1>3 DEF Represents
<1> QED
  BY <1>2, <1>3, <1>4, <1>5, <1>6 DEF IsEmpty

\* The step of an enqueue that finds a node, and the one that links it.
LEMMA NodeStep ==
    ASSUME LockInv, NEW e \in Threads, LockNode(e)
    PROVE  LockInv'
<1>1. /\ running = e /\ pc[e] = "enqueue"
      /\ UNCHANGED <<running, over>>
  BY DEF LockNode, At, sched
<1>2. PICK n \in Mallocs :
        /\ nodes' = nodes \cup {n}
        /\ lock_queue' = NewNode(lock_queue, n)
        /\ arg' = [arg EXCEPT ![e] = n]
        /\ pc' = [pc EXCEPT ![e] = IF lock_queue.back = -1 THEN "first" ELSE "next"]
  BY DEF LockNode, CallGoto, Goto
<1>3. n \in Threads /\ n \notin nodes
  BY DEF LockNode, Mallocs, FreeNodes
<1>4. \A f \in Threads : pc[f] \notin ListPlaces
  BY <1>1 DEF LockInv, ListPlaces
<1>5. Keeps(lock_queue)
  BY <1>4 DEF LockInv, ListPlaces
<1>6. n \notin Members(lock_queue) /\ lock_queue.next[n] = -1
  BY <1>3, <1>5, BackOfList DEF Keeps
<1>7. lock_queue' = lock_queue
  <2>1. lock_queue = [front |-> lock_queue.front, back |-> lock_queue.back,
                      next |-> lock_queue.next, N |-> lock_queue.N]
        /\ lock_queue.next \in [Threads -> Pointers]
    BY DEF LockInv, Steques
  <2>2. [lock_queue.next EXCEPT ![n] = -1] = lock_queue.next
    BY <1>6, <2>1
  <2> QED
    BY <1>2, <2>1, <2>2 DEF NewNode
<1>8. IsEmpty(lock_queue) <=> lock_queue.back = -1
  BY <1>5, BackOfList DEF Keeps
<1>9. /\ pc \in [Threads -> AllPlaces] /\ DOMAIN arg = Threads
      /\ lock_queue \in Steques /\ nodes \in SUBSET Threads /\ over # "fault"
  BY DEF LockInv
<1>10. /\ pc' \in [Threads -> AllPlaces] /\ DOMAIN arg' = Threads
       /\ nodes' \in SUBSET Threads
       /\ pc'[e] = (IF lock_queue.back = -1 THEN "first" ELSE "next")
       /\ arg'[e] = n
       /\ \A f \in Threads \ {e} : pc'[f] = pc[f]
  <2>1. "first" \in AllPlaces /\ "next" \in AllPlaces
    BY DEF AllPlaces, Inside
  <2> QED
    BY <1>2, <1>3, <1>9, <2>1
<1>11. Waiting' = Waiting
  BY <1>1, <1>10 DEF Waiting, Waits
<1>12. Keeps(lock_queue)'
  BY <1>2, <1>5, <1>7, <1>11 DEF Keeps
<1> QED
  BY <1>1, <1>2, <1>4, <1>6, <1>7, <1>8, <1>9, <1>10, <1>12 DEF LockInv, ListPlaces

LEMMA LinkStep ==
    ASSUME LockInv, NEW e \in Threads, LockLink(e)
    PROVE  LockInv'
<1>1. running = e /\ pc[e] \in {"first", "next"} /\ running' = running
  BY DEF LockLink, At, sched
<1>2. /\ pc \in [Threads -> AllPlaces] /\ DOMAIN arg = Threads
      /\ lock_queue \in Steques /\ nodes \in SUBSET Threads /\ over # "fault"
      /\ arg[e] \in nodes /\ arg[e] \notin Members(lock_queue)
      /\ pc[e] = "first" <=> IsEmpty(lock_queue)
      /\ \A f \in Threads : f # e => pc[f] \notin ListPlaces
  BY <1>1 DEF LockInv, ListPlaces
<1>3. Keeps(lock_queue)
  BY <1>1, <1>2 DEF LockInv, ListPlaces
<1> DEFINE n == arg[e]
           q == SetBack(lock_queue', n)
<1>4. /\ pc[e] = "first" <=> lock_queue.back = -1
      /\ pc[e] = "next" => lock_queue.back \in nodes
  BY <1>1, <1>2, <1>3, BackOfList DEF Keeps
<1>5. /\ lock_queue' = (IF lock_queue.back = -1 THEN LinkFront(lock_queue, n)
                                                ELSE LinkNext(lock_queue, n))
      /\ pc' = [pc EXCEPT ![e] = "linked"]
      /\ UNCHANGED <<nodes, arg, over>>
  BY <1>1, <1>4 DEF LockLink, Goto
<1>6. NewNode(lock_queue, n) = lock_queue
  <2>1. lock_queue = [front |-> lock_queue.front, back |-> lock_queue.back,
                      next |-> lock_queue.next, N |-> lock_queue.N]
        /\ lock_queue.next \in [Threads -> Pointers]
    BY <1>2 DEF Steques
  <2>2. lock_queue.next[n] = -1
    BY <1>2, <1>3, BackOfList DEF Keeps
  <2>3. [lock_queue.next EXCEPT ![n] = -1] = lock_queue.next
    BY <2>1, <2>2
  <2> QED
    BY <2>1, <2>3 DEF NewNode
<1>7. q = Enqueue(lock_queue, n)
  BY <1>5, <1>6 DEF Enqueue
<1>8. lock_queue' \in Steques
  BY <1>2, <1>5 DEF LinkFront, LinkNext, Steques, Pointers
<1>9. /\ pc' \in [Threads -> AllPlaces] /\ pc'[e] = "linked"
      /\ \A f \in Threads \ {e} : pc'[f] = pc[f]
  BY <1>2, <1>5 DEF AllPlaces, Inside
<1>10. Waiting' = Waiting \cup {e} /\ e \notin Waiting
  BY <1>1, <1>9 DEF Waiting, Waits
<1> HIDE DEF n
<1>11. Listed(q) /\ Members(q) = Members(lock_queue) \cup {n} /\ q.N = lock_queue.N + 1
  <2>1. n \in Threads /\ n \notin Members(lock_queue)
    BY <1>2 DEF n
  <2>2. q.N = lock_queue.N + 1
    BY <1>2, <1>7, <2>1, EnqueueStores
  <2> QED
    BY <1>3, <1>7, <2>1, <2>2, EnqueueList DEF Keeps
<1>12. Cardinality(Waiting') <= q.N
  <2>1. Cardinality(Waiting \cup {e}) = Cardinality(Waiting) + 1
    BY <1>10, WaitingFinite, FS_AddElement
  <2>2. lock_queue.N \in Nat
    BY <1>2 DEF Steques
  <2> QED
    BY <1>3, <1>10, <1>11, <2>1, <2>2, WaitingFinite DEF Keeps
<1> HIDE DEF q
<1>13. Members(q) \subseteq nodes'
  BY <1>2, <1>3, <1>5, <1>11 DEF Keeps, n
<1>14. q = SetBack(lock_queue, arg[e])'
  BY <1>5 DEF n, q
<1>15. Keeps(SetBack(lock_queue, arg[e]))'
  BY <1>11, <1>12, <1>13, <1>14 DEF Keeps
<1> QED
  BY <1>1, <1>2, <1>5, <1>8, <1>9, <1>15 DEF LockInv, ListPlaces

LEMMA BackStep ==
    ASSUME LockInv, NEW e \in Threads, LockBack(e)
    PROVE  LockInv'
<1>1. /\ running = e /\ pc[e] = "linked"
      /\ lock_queue' = SetBack(lock_queue, arg[e])
      /\ pc' = [pc EXCEPT ![e] = "spin"]
      /\ arg' = [arg EXCEPT ![e] = 0]
      /\ UNCHANGED <<running, nodes, over>>
  BY DEF LockBack, At, CallGoto, Goto, sched
<1>2. /\ pc \in [Threads -> AllPlaces] /\ DOMAIN arg = Threads
      /\ nodes \in SUBSET Threads /\ over # "fault"
      /\ Keeps(SetBack(lock_queue, arg[e]))
      /\ \A f \in Threads : f # e => pc[f] \notin ListPlaces
  BY <1>1 DEF LockInv, ListPlaces
<1>3. /\ pc' \in [Threads -> AllPlaces] /\ pc'[e] = "spin" /\ DOMAIN arg' = Threads
      /\ \A f \in Threads \ {e} : pc'[f] = pc[f]
  BY <1>1, <1>2 DEF AllPlaces, Inside
<1>4. Waiting' = Waiting
  BY <1>1, <1>3 DEF Waiting, Waits
<1>5. Keeps(lock_queue)' /\ lock_queue' \in Steques
  BY <1>1, <1>2, <1>4 DEF Keeps, Listed
<1> QED
  BY <1>1, <1>2, <1>3, <1>5 DEF LockInv, ListPlaces

\* There is an item for a thread that has taken the mutex.
LEMMA ItemFound ==
    ASSUME LockInv, NEW e \in Threads, running = e, pc[e] = "pop"
    PROVE  /\ Keeps(lock_queue) /\ ~IsEmpty(lock_queue) /\ lock_queue.front # -1
           /\ lock_queue.front \in Members(lock_queue)
<1>1. Keeps(lock_queue)
  BY DEF LockInv, ListPlaces
<1>2. e \in Waiting
  BY DEF Waiting, Waits
<1>3. Cardinality(Waiting) # 0
  BY <1>2, WaitingFinite, FS_EmptySet
<1>4. lock_queue.N # 0
  BY <1>1, <1>3, WaitingFinite DEF Keeps, Listed, Steques
<1> QED
  BY <1>1, <1>4, BackOfList DEF Keeps, IsEmpty

LEMMA PopStep ==
    ASSUME LockInv, NEW e \in Threads, LockPop(e)
    PROVE  LockInv'
<1>1. running = e /\ pc[e] = "pop" /\ UNCHANGED <<running, lock_queue, nodes>>
  BY DEF LockPop, At, mutex, sched
<1>2. /\ pc \in [Threads -> AllPlaces] /\ DOMAIN arg = Threads
      /\ lock_queue \in Steques /\ nodes \in SUBSET Threads /\ over # "fault"
      /\ \A f \in Threads : pc[f] \notin ListPlaces
  BY <1>1 DEF LockInv, ListPlaces
<1> DEFINE n == lock_queue.front
<1>3. Keeps(lock_queue) /\ n # -1 /\ n \in nodes
  BY <1>1, ItemFound DEF Keeps
<1>4. /\ pc' = [pc EXCEPT ![e] = "unlink"]
      /\ arg' = [arg EXCEPT ![e] = n]
      /\ over' = over
  BY <1>3 DEF LockPop, CallGoto, Goto
<1>5. /\ pc' \in [Threads -> AllPlaces] /\ pc'[e] = "unlink"
      /\ DOMAIN arg' = Threads /\ arg'[e] = n
      /\ \A f \in Threads \ {e} : pc'[f] = pc[f]
  BY <1>2, <1>4 DEF AllPlaces, Inside
<1>6. Waiting' = Waiting
  BY <1>1, <1>5 DEF Waiting, Waits
<1>7. Keeps(lock_queue)'
  BY <1>1, <1>3, <1>6 DEF Keeps
<1> QED
  BY <1>1, <1>2, <1>3, <1>4, <1>5, <1>7 DEF LockInv, ListPlaces

LEMMA UnlinkStep ==
    ASSUME LockInv, NEW e \in Threads, LockUnlink(e)
    PROVE  LockInv'
<1>1. running = e /\ pc[e] = "unlink" /\ running' = running
  BY DEF LockUnlink, At, sched
<1> DEFINE n == lock_queue.front
           q == Pop(lock_queue)
<1>2. /\ pc \in [Threads -> AllPlaces] /\ DOMAIN arg = Threads
      /\ lock_queue \in Steques /\ nodes \in SUBSET Threads /\ over # "fault"
      /\ arg[e] = n /\ n \in nodes
      /\ \A f \in Threads : f # e => pc[f] \notin ListPlaces
  BY <1>1 DEF LockInv, ListPlaces
<1>3. /\ Keeps(lock_queue) /\ ~IsEmpty(lock_queue) /\ n # -1
      /\ n \in Members(lock_queue)
  <2>1. Keeps(lock_queue)
    BY <1>1, <1>2 DEF LockInv, ListPlaces
  <2>2. n \in Threads
    BY <1>2
  <2> QED
    BY <2>1, <2>2, BackOfList DEF Keeps, Members, IsEmpty
<1>4. /\ lock_queue' = Unlink(lock_queue)
      /\ pc' = [pc EXCEPT ![e] = "popped"]
      /\ UNCHANGED <<nodes, arg, over>>
  BY <1>2 DEF LockUnlink, Goto
<1>5. /\ pc' \in [Threads -> AllPlaces] /\ pc'[e] = "popped"
      /\ DOMAIN arg' = Threads /\ arg'[e] = n
      /\ \A f \in Threads \ {e} : pc'[f] = pc[f]
  BY <1>2, <1>4 DEF AllPlaces, Inside
<1>6. Waiting' = Waiting \ {e} /\ e \in Waiting
  BY <1>1, <1>5 DEF Waiting, Waits
<1>7. Listed(q) /\ Members(q) = Members(lock_queue) \ {n} /\ q.N = lock_queue.N - 1
  BY <1>2, <1>3, PopList, PopStores DEF Keeps
<1>8. lock_queue' \in Steques
  BY <1>2, <1>3, <1>4 DEF Unlink, Steques, Pointers
<1>9. q = Free(lock_queue, arg[e])'
  BY <1>4, <1>5 DEF Pop
<1> HIDE DEF q
<1>10. Cardinality(Waiting') <= q.N
  <2>1. Cardinality(Waiting \ {e}) = Cardinality(Waiting) - 1
    BY <1>6, WaitingFinite, FS_RemoveElement
  <2>2. lock_queue.N \in Nat
    BY <1>2 DEF Steques
  <2> QED
    BY <1>3, <1>6, <1>7, <2>1, <2>2, WaitingFinite DEF Keeps
<1>11. Members(q) \subseteq nodes' /\ n \notin Members(q)
  BY <1>3, <1>4, <1>7 DEF Keeps
<1>12. Keeps(Free(lock_queue, arg[e]))'
  BY <1>7, <1>9, <1>10, <1>11 DEF Keeps
<1>13. (arg[e] \notin Members(Free(lock_queue, arg[e])))'
  BY <1>5, <1>9, <1>11
<1> QED
  BY <1>1, <1>2, <1>3, <1>4, <1>5, <1>8, <1>12, <1>13 DEF LockInv, ListPlaces

LEMMA PoppedStep ==
    ASSUME LockInv, NEW e \in Threads, LockPopped(e)
    PROVE  LockInv'
<1>1. running = e /\ pc[e] = "popped" /\ running' = running
  BY DEF LockPopped, At, sched
<1> DEFINE q == Free(lock_queue, arg[e])
<1>2. /\ pc \in [Threads -> AllPlaces] /\ DOMAIN arg = Threads
      /\ nodes \in SUBSET Threads /\ over # "fault"
      /\ arg[e] \in nodes /\ Keeps(q) /\ arg[e] \notin Members(q)
      /\ \A f \in Threads : f # e => pc[f] \notin ListPlaces
  BY <1>1 DEF LockInv, ListPlaces
<1>3. /\ lock_queue' = q
      /\ nodes' = nodes \ {arg[e]}
      /\ pc' = [pc EXCEPT ![e] = "run"]
      /\ arg' = [arg EXCEPT ![e] = 0]
      /\ over' = over
  BY <1>2 DEF LockPopped, Return, CallGoto, Goto
<1> HIDE DEF q
<1>4. /\ pc' \in [Threads -> AllPlaces] /\ pc'[e] = "run" /\ DOMAIN arg' = Threads
      /\ \A f \in Threads \ {e} : pc'[f] = pc[f]
  BY <1>2, <1>3 DEF AllPlaces, Inside
<1>5. Waiting' = Waiting
  BY <1>1, <1>4 DEF Waiting, Waits
<1>6. Keeps(lock_queue)' /\ lock_queue' \in Steques /\ nodes' \in SUBSET Threads
  BY <1>2, <1>3, <1>5 DEF Keeps, Listed
<1> QED
  BY <1>1, <1>2, <1>3, <1>4, <1>6 DEF LockInv, ListPlaces

\* Only the creation of a thread with the number of one that waits would take
\* that one away.
LEMMA AsideStep ==
    ASSUME LockInv, NEW e \in Threads, running = e, Aside(e)
    PROVE  LockInv'
<1>1. /\ pc \in [Threads -> AllPlaces] /\ DOMAIN arg = Threads
      /\ lock_queue \in Steques /\ nodes \in SUBSET Threads
      /\ \A f \in Threads : pc[f] \notin ListPlaces
  BY DEF LockInv, Aside
<1>2. Keeps(lock_queue)
  BY <1>1 DEF LockInv, ListPlaces
<1>3. UNCHANGED <<lock_queue, nodes>> /\ over' # "fault" /\ DOMAIN arg' = Threads
  BY <1>1 DEF Aside
<1> DEFINE Moved ==
        /\ pc' \in [Threads -> AllPlaces]
        /\ \A f \in Threads : pc'[f] \notin ListPlaces
        /\ \A f \in Threads : pc'[f] \in Waits => pc[f] \in Waits
<1>4. Moved
  <2>1. "run" \in AllPlaces /\ "run" \notin Waits /\ "run" \notin ListPlaces
    BY DEF AllPlaces, Inside, Waits, ListPlaces
  <2>2. CASE pc' = pc
    BY <1>1, <2>2
  <2>3. ASSUME NEW to \in AllPlaces \ ListPlaces, pc' = [pc EXCEPT ![e] = to],
               to \in Waits => pc[e] \in Waits
        PROVE  Moved
    BY <1>1, <2>3
  <2>4. CASE pc' = [pc EXCEPT ![e] = "run", ![arg[e]] = "run"]
    BY <1>1, <2>1, <2>4
  <2> QED
    BY <2>2, <2>3, <2>4 DEF Aside
<1>5. Cardinality(Waiting') <= Cardinality(Waiting) /\ Cardinality(Waiting') \in Nat
  <2>1. Waiting' \subseteq Waiting
    BY <1>4 DEF Waiting
  <2> QED
    BY <2>1, WaitingFinite, FS_Subset, FS_CardinalityType
<1>6. Keeps(lock_queue)'
  <2>1. lock_queue.N \in Nat
    BY <1>1 DEF Steques
  <2> QED
    BY <1>2, <1>3, <1>5, <2>1, WaitingFinite DEF Keeps
<1> QED
  BY <1>1, <1>3, <1>4, <1>6 DEF LockInv, ListPlaces

LEMMA InitLock == Init => LockInv
<1>1. SUFFICES ASSUME Init PROVE LockInv
  OBVIOUS
<1>2. /\ pc \in [Threads -> AllPlaces] /\ DOMAIN arg = Threads
      /\ lock_queue = EmptySteque /\ nodes = {} /\ over = "no"
      /\ \A e \in Threads : pc[e] \notin ListPlaces \cup Waits
  BY <1>1 DEF Init, AllPlaces, Inside, ListPlaces, Waits
<1>3. Listed(EmptySteque) /\ Members(EmptySteque) = {} /\ EmptySteque.N = 0
  <2>1. EmptySteque \in Steques /\ Represents(EmptySteque, <<>>)
    BY InitIsEmpty
  <2>2. Listed(EmptySteque) /\ Members(EmptySteque) = {<<>>[k] : k \in 1..Len(<<>>)}
    BY <2>1, ListOf
  <2>3. Len(<<>>) = 0
    OBVIOUS
  <2> QED
    BY <2>2, <2>3 DEF EmptySteque
<1>4. Cardinality(Waiting) = 0
  BY <1>2, FS_EmptySet DEF Waiting
<1>5. Keeps(lock_queue)
  BY <1>2, <1>3, <1>4 DEF Keeps
<1> QED
  BY <1>2, <1>3, <1>5 DEF LockInv, ListPlaces, Listed

LEMMA LockStep ==
    ASSUME LockInv, Next, Windows \cap ListPlaces = {}
    PROVE  LockInv'
<1>1. ASSUME NEW e \in Threads, Step(e) \/ Preempt(e) PROVE LockInv'
  <2>1. running = e /\ (Aside(e) \/ ListStep(e))
    BY <1>1, Asides
  <2> QED
    BY <2>1, AsideStep, NodeStep, LinkStep, BackStep, PopStep, UnlinkStep, PoppedStep
    DEF ListStep
<1>2. ASSUME Terminated \/ MainReturns PROVE LockInv'
  <2>1. /\ UNCHANGED <<pc, arg, lock_queue, nodes, running>>
        /\ over' = over \/ over' = "exit 0"
    BY <1>2 DEF Terminated, MainReturns, vars, mutex, sched
  <2> QED
    BY <2>1 DEF LockInv, Keeps, Waiting
<1> QED
  BY <1>1, <1>2 DEF Next

\* Wherever else a signal comes, also where two threads get the mutex at once: if
\* none comes between the stores of an enqueue or a pop of lock_queue, the
\* queue stays right ...
THEOREM LockQueueKept ==
    ASSUME Windows \cap ListPlaces = {}
    PROVE  Spec => []LockInv
<1>1. LockInv /\ [Next]_vars => LockInv'
  <2>1. ASSUME LockInv, UNCHANGED vars PROVE LockInv'
    BY <2>1 DEF LockInv, Keeps, Waiting, vars, mutex, sched
  <2> QED
    BY <2>1, LockStep
<1> QED
  BY <1>1, InitLock, PTL DEF Spec

\* ... and so the pop of it after a wait finds an item, and no locker uses a
\* node that is free.
THEOREM LockQueueHolds ==
    ASSUME Windows \cap ListPlaces = {}
    PROVE  Spec => []LockQueueSuffices
<1>1. ASSUME LockInv, NEW e \in Threads, pc[e] = "pop" PROVE lock_queue.front # -1
  <2>1. Cardinality(Waiting) # 0
    <3>1. e \in Waiting
      BY <1>1 DEF Waiting, Waits
    <3> QED
      BY <3>1, WaitingFinite, FS_EmptySet
  <2>2. ASSUME NEW q, Keeps(q), q.front = lock_queue.front
        PROVE  lock_queue.front # -1
    <3>1. q.N # 0
      BY <2>1, <2>2, WaitingFinite DEF Keeps, Listed, Steques
    <3> QED
      BY <2>2, <3>1, BackOfList DEF Keeps, IsEmpty
  <2>3. /\ \A f \in Threads : pc[f] = "linked" => Keeps(SetBack(lock_queue, arg[f]))
        /\ \A f \in Threads : pc[f] = "popped" => Keeps(Free(lock_queue, arg[f]))
        /\ (\A f \in Threads : pc[f] \notin {"linked", "popped"}) => Keeps(lock_queue)
    BY <1>1 DEF LockInv
  <2>4. \A n : /\ SetBack(lock_queue, n).front = lock_queue.front
               /\ Free(lock_queue, n).front = lock_queue.front
    BY DEF SetBack, Free
  <2> QED
    BY <2>2, <2>3, <2>4
<1>2. LockInv => LockQueueSuffices
  BY <1>1 DEF LockInv, LockQueueSuffices
<1> QED
  BY <1>2, LockQueueKept, PTL

\* A list has no more items than there are threads, since it has none twice.
LEMMA ListBound ==
    ASSUME NEW q, Listed(q)
    PROVE  q.N = Cardinality(Members(q)) /\ q.N \in Nat
<1> DEFINE s == Items(q)
           D == 1..Len(s)
<1>1. q \in Steques /\ Represents(q, s)
  BY DEF Listed
<1> HIDE DEF s
<1>2. Len(s) \in Nat /\ q.N = Len(s) /\ Members(q) = {s[k] : k \in 1..Len(s)}
  BY <1>1, ListLength, ListOf
<1>3. \A i, j \in 1..Len(s) : s[i] = s[j] => i = j
  BY <1>1 DEF Represents
<1> DEFINE f == [k \in D |-> s[k]]
<1>4. f \in Bijection(D, Members(q))
  BY <1>2, <1>3 DEF Bijection, Injection, Surjection, IsInjective
<1>5. IsFiniteSet(D) /\ Cardinality(D) = Len(s)
  <2>1. 1 \in Int /\ Len(s) \in Int /\ Len(s) - 1 + 1 = Len(s)
    BY <1>2
  <2>2. /\ IsFiniteSet(1..Len(s))
        /\ Cardinality(1..Len(s)) = IF 1 > Len(s) THEN 0 ELSE Len(s) - 1 + 1
    BY ONLY <2>1, FS_Interval
  <2> QED
    BY <1>2, <2>1, <2>2
<1>6. Cardinality(Members(q)) = Cardinality(D)
  BY <1>4, <1>5, FS_Bijection DEF ExistsBijection
<1> QED
  BY <1>2, <1>5, <1>6

\* Every variable keeps its type; in particular lock_queue never holds more
\* items than there are threads, and its count agrees with it.
THEOREM TypeCorrect ==
    ASSUME Windows \subseteq TamePlaces \ ListPlaces
    PROVE  Spec => []TypeOK
<1>1. ASSUME NEW S \in SUBSET Threads
      PROVE  Cardinality(S) \in Nat /\ Cardinality(S) <= MaxThreads
             /\ \A n \in Threads \ S : Cardinality(S) + 1 <= MaxThreads
  <2>1. IsFiniteSet(Threads) /\ Cardinality(Threads) = MaxThreads
    BY FS_Interval, ThreadsAssumption DEF Threads
  <2>2. /\ Cardinality(S) <= MaxThreads /\ Cardinality(S) \in Nat /\ IsFiniteSet(S)
    BY <2>1, FS_Subset, FS_CardinalityType
  <2>3. ASSUME NEW n \in Threads \ S PROVE Cardinality(S) + 1 <= MaxThreads
    <3>1. Cardinality(S \cup {n}) = Cardinality(S) + 1
      BY <2>2, FS_AddElement
    <3>2. S \cup {n} \in SUBSET Threads
      OBVIOUS
    <3> QED
      BY <2>1, <3>1, <3>2, FS_Subset
  <2> QED
    BY <2>2, <2>3
<1>2. ASSUME LockInv PROVE lock_queue \in Steques /\ lock_queue.N <= MaxThreads
  <2>1. lock_queue \in Steques /\ lock_queue.N \in Nat /\ MaxThreads \in Nat
    BY <1>2, ThreadsAssumption DEF LockInv, Steques
  <2>2. ASSUME NEW q, Keeps(q)
        PROVE  /\ q.N \in Nat /\ q.N <= MaxThreads
               /\ \A n \in Threads \ Members(q) : q.N + 1 <= MaxThreads
    <3>1. Members(q) \in SUBSET Threads
      BY DEF Members
    <3> QED
      BY <1>1, <2>2, <3>1, ListBound DEF Keeps
  <2>3. ASSUME NEW e \in Threads, pc[e] = "linked" PROVE lock_queue.N <= MaxThreads
    <3>1. Keeps(SetBack(lock_queue, arg[e]))
      BY <1>2, <2>3 DEF LockInv
    <3>2. SetBack(lock_queue, arg[e]).N = lock_queue.N + 1
      BY DEF SetBack
    <3> QED
      BY <2>1, <2>2, <3>1, <3>2
  <2>4. ASSUME NEW e \in Threads, pc[e] = "popped" PROVE lock_queue.N <= MaxThreads
    <3> DEFINE q == Free(lock_queue, arg[e])
    <3>1. Keeps(q) /\ arg[e] \in Threads \ Members(q)
      BY <1>2, <2>4 DEF LockInv, ListPlaces
    <3>2. q.N = lock_queue.N - 1
      BY DEF Free
    <3> HIDE DEF q
    <3> QED
      BY <2>1, <2>2, <3>1, <3>2
  <2> QED
    BY <1>2, <2>1, <2>2, <2>3, <2>4 DEF LockInv
<1>3. ASSUME TurnInv, LockInv PROVE TypeOK
  <2>1. Shape
    BY <1>3, TurnParts
  <2> QED
    BY <1>2, <1>3, <2>1 DEF Shape, TypeOK, Inside, Ended, Ending
<1>4. Windows \subseteq TamePlaces /\ Windows \cap ListPlaces = {}
  OBVIOUS
<1> QED
  BY <1>3, <1>4, RunQueueKept, LockQueueKept, PTL
-----------------------------------------------------------------------------
\* A thread that has ended executes nothing of the program, in every step and
\* for any number of threads.
THEOREM EndedStaysEnded ==
    ASSUME Windows \subseteq TamePlaces
    PROVE  Spec => GoneStaysGone
<1> DEFINE Stays == \A e \in Threads : Gone(e) /\ ~IsEmpty(threads_queue) =>
                        pc'[e] = pc[e] \/ pc[e] \in {"leaving", "returning"}
<1>1. ASSUME TurnInv, Next PROVE Stays
  <2>1. /\ Shape /\ Flags /\ Places /\ OnProcessor
        /\ global_thread_id \in 1..MaxThreads /\ MaxThreads \in Int
    BY <1>1, TurnParts
  <2>2. pc \in [Threads -> AllPlaces]
    BY <2>1 DEF Shape, AllPlaces
  <2>3. SUFFICES ASSUME NEW e \in Threads, Gone(e), ~IsEmpty(threads_queue),
                        pc[e] \notin {"leaving", "returning"}
                 PROVE  pc'[e] = pc[e]
    OBVIOUS
  <2>4. PlaceOf(e) /\ e \in Created
    BY <2>1, <2>3 DEF Places, Flags, Gone
  <2>5. running # e
    <3>1. pc[e] \notin Ending
      BY <2>3, <2>4 DEF PlaceOf, Ending
    <3>2. ASSUME running = e PROVE FALSE
      <4>1. e \notin cancelled /\ pc[e] \in Inside \cup {"creating"}
        BY <2>1, <3>1, <3>2 DEF OnProcessor
      <4>2. e \in completed
        BY <2>3, <4>1 DEF Gone
      <4> QED
        BY <2>4, <4>1, <4>2 DEF PlaceOf, Ended, Ending, Inside
    <3> QED
      BY <3>2
  <2>6. ASSUME NEW f \in Threads, Step(f) \/ Preempt(f) PROVE pc'[e] = pc[e]
    <3>1. MoveOf(f) /\ f # e
      BY <2>5, <2>6, Moves
    <3>2. ASSUME pc[f] = "creating" PROVE arg[f] # e
      <4>1. arg[f] = global_thread_id
        BY <2>1, <3>2 DEF Places, PlaceOf
      <4> QED
        BY <2>1, <2>4, <4>1 DEF Created
    <3> QED
      BY <2>2, <3>1, <3>2 DEF MoveOf
  <2>7. ASSUME Terminated \/ MainReturns PROVE pc'[e] = pc[e]
    BY <2>7 DEF Terminated, MainReturns, vars
  <2> QED
    BY <1>1, <2>6, <2>7 DEF Next
<1>2. ASSUME UNCHANGED vars PROVE Stays
  BY <1>2 DEF vars
<1>3. TurnInv /\ [Next]_vars => [Stays]_vars
  BY <1>1
<1> QED
  BY <1>3, RunQueueKept, PTL DEF Spec, GoneStaysGone
-----------------------------------------------------------------------------
(* The refinement of ThreadAPI, with no windows *)

\* What the refinement shows of the threads that have ended.
Value == [t \in Threads |-> IF Gone(t) THEN ret_val[t] ELSE "garbage"]

\* Places between two parts of a call that no signal splits.
Brief == {"cancelling", "set", "take", "pop", "unlink", "popped"}

\* Who has exited is not cancelled afterwards.
Exited == \A t \in Threads : ret_val[t] = "exited" => t \in completed \ cancelled

\* Such a call has the processor, the mutex is free until it is set, it has
\* one holder, and who has ended has a value, but for the one whose value is
\* about to be set.
Sole ==
    /\ Exited
    /\ \A e \in Threads : pc[e] \in Brief => running = e
    /\ \A e \in Threads : pc[e] \in {"set", "take"} => lock = 0
    /\ \A e \in Threads : pc[e] \in {"pop", "unlink", "popped"} => lock = 1 /\ holds = {}
    /\ \A e, f \in holds : e = f
    /\ holds # {} => lock = 1
    /\ \A t \in cancelled \cup completed :
            ret_val[t] = "garbage" => pc[running] = "cancelling" /\ arg[running] = t

LEMMA SoleParts ==
    ASSUME TurnInv, Sole, NEW e \in Threads, running = e
    PROVE  /\ pc \in [Threads -> AllPlaces] /\ arg \in [Threads -> Threads]
           /\ ret_val \in [Threads -> {"garbage", "exited", "canceled"}]
           /\ cancelled \in SUBSET Threads /\ completed \in SUBSET Threads
           /\ lock \in {0, 1}
           /\ global_thread_id \in 1..MaxThreads /\ MaxThreads \in Int
           /\ \A f \in Threads : f # e => pc[f] \notin Brief
           /\ pc[e] # "cancelling" =>
                \A t \in cancelled \cup completed : ret_val[t] # "garbage"
           /\ pc[e] \in Inside =>
                Current = e /\ e < global_thread_id /\ ~Gone(e)
           /\ pc[e] \in {"set", "take"} => lock = 0
           /\ pc[e] \in {"pop", "unlink", "popped"} => lock = 1 /\ holds = {}
           /\ \A f, g \in holds : f = g
           /\ holds # {} => lock = 1
           /\ Exited
<1>1. Shape /\ Flags /\ Places /\ OnProcessor
      /\ global_thread_id \in 1..MaxThreads /\ MaxThreads \in Int
  BY TurnParts
<1>2. /\ pc \in [Threads -> AllPlaces] /\ arg \in [Threads -> Threads]
      /\ ret_val \in [Threads -> {"garbage", "exited", "canceled"}]
      /\ cancelled \in SUBSET Threads /\ completed \in SUBSET Threads
      /\ lock \in {0, 1}
  BY <1>1 DEF Shape, AllPlaces
<1>3. /\ \A f \in Threads : f # e => pc[f] \notin Brief
      /\ pc[e] # "cancelling" =>
            \A t \in cancelled \cup completed : ret_val[t] # "garbage"
      /\ pc[e] \in {"set", "take"} => lock = 0
      /\ pc[e] \in {"pop", "unlink", "popped"} => lock = 1 /\ holds = {}
      /\ \A f, g \in holds : f = g
      /\ holds # {} => lock = 1
      /\ Exited
  BY DEF Sole
<1>4. ASSUME pc[e] \in Inside
      PROVE  Current = e /\ e < global_thread_id /\ ~Gone(e)
  <2>1. Current = e /\ e \notin cancelled /\ PlaceOf(e)
    BY <1>1, <1>4 DEF OnProcessor, Inside, Ending, Places
  <2>2. e \in Created /\ e \notin completed
    BY <1>4, <2>1 DEF PlaceOf, Inside, Ended, Ending
  <2> QED
    BY <1>1, <2>1, <2>2 DEF Created, Gone
<1> QED
  BY <1>1, <1>2, <1>3, <1>4

LEMMA SoleFrom ==
    ASSUME TurnInv, Sole, NEW e \in Threads, running = e, MoveOf(e),
           running' = running \/ pc'[e] \notin Brief,
           pc'[e] \in {"set", "take"} => lock' = 0,
           pc'[e] \in {"pop", "unlink", "popped"} => lock' = 1 /\ holds' = {},
           \A f, g \in holds' : f = g,
           holds' # {} => lock' = 1,
           \A t \in cancelled' \cup completed' : ret_val'[t] = "garbage" =>
                pc'[e] = "cancelling" /\ arg'[e] = t,
           Exited'
    PROVE  Sole'
<1>1. pc \in [Threads -> AllPlaces] /\ \A f \in Threads : f # e => pc[f] \notin Brief
  BY SoleParts
<1>2. ASSUME NEW f \in Threads, f # e PROVE pc'[f] \notin Brief
  <2>1. pc'[f] = pc[f] \/ pc'[f] = "run"
    BY <1>1, <1>2 DEF MoveOf
  <2> QED
    BY <1>1, <1>2, <2>1 DEF Brief
<1>3. \A f \in Threads : pc'[f] \in Brief => running' = f
  BY <1>2
<1>4. \A f \in Threads :
        /\ pc'[f] \in {"set", "take"} => lock' = 0
        /\ pc'[f] \in {"pop", "unlink", "popped"} => lock' = 1 /\ holds' = {}
  BY <1>2 DEF Brief
<1>5. \A t \in cancelled' \cup completed' : ret_val'[t] = "garbage" =>
        pc'[running'] = "cancelling" /\ arg'[running'] = t
  BY DEF Brief
<1> QED
  BY <1>3, <1>4, <1>5 DEF Sole

\* The step of the abstract library, or none.
Abstract == API!Next \/ UNCHANGED API!vars

LEMMA NoStep ==
    ASSUME cancelled' \cup completed' = cancelled \cup completed,
           ret_val' = ret_val,
           UNCHANGED <<global_thread_id, got, holds>>
    PROVE  Abstract
<1>1. \A t \in Threads : Gone(t)' <=> Gone(t)
  BY DEF Gone
<1>2. Value' = Value
  BY <1>1 DEF Value
<1> QED
  BY <1>2 DEF Abstract, API!vars, Value

LEMMA ReportStep ==
    ASSUME TurnInv, NEW t \in Threads, Gone(t), ret_val[t] # "garbage", Report(t),
           UNCHANGED <<cancelled, completed, ret_val, global_thread_id, holds>>
    PROVE  Abstract
<1>1. Value' = Value /\ Value[t] = ret_val[t]
  BY DEF Value, Gone
<1>2. API!Report(t)
  BY <1>1 DEF API!Report, Value, Report
<1> QED
  BY <1>2 DEF Abstract, API!Next

\* One more thread has ended with a value, or one that has no value yet gets it.
LEMMA EndStep ==
    ASSUME TurnInv, NEW t \in Threads, NEW v \in {"exited", "canceled"},
           t < global_thread_id, Value[t] = "garbage",
           cancelled' \cup completed' = cancelled \cup completed \cup {t},
           ret_val' = [ret_val EXCEPT ![t] = v],
           UNCHANGED <<global_thread_id, got, holds>>
    PROVE  Abstract
<1>1. ret_val \in [Threads -> {"garbage", "exited", "canceled"}]
  BY TurnParts DEF Shape
<1>2. ASSUME NEW f \in Threads
      PROVE  (IF Gone(f)' THEN ret_val'[f] ELSE "garbage")
                = IF f = t THEN v ELSE IF Gone(f) THEN ret_val[f] ELSE "garbage"
  BY <1>1 DEF Gone
<1>3. Value' = [Value EXCEPT ![t] = v]
  BY <1>2 DEF Value
<1>4. API!End(t)
  BY <1>3 DEF API!End, API!Alive, Value
<1> QED
  BY <1>4 DEF Abstract, API!Next

LEMMA HoldersStep ==
    ASSUME TurnInv, NEW e \in Threads, ~Gone(e), e < global_thread_id,
           \/ holds = {} /\ holds' = {e}
           \/ holds = {e} /\ holds' = {},
           UNCHANGED <<cancelled, completed, ret_val, global_thread_id, got>>
    PROVE  Abstract
<1>1. Value' = Value /\ Value[e] = "garbage"
  BY DEF Value, Gone
<1>2. API!Alive(e)
  BY <1>1 DEF API!Alive, Value
<1>3. API!Acquire(e) \/ API!Release(e)
  BY <1>1, <1>2 DEF API!Acquire, API!Release, Value
<1> QED
  BY <1>3 DEF Abstract, API!Next

\* A step keeps Sole, and is one of the abstract library or none.
Maps == Sole' /\ Abstract

LEMMA TurnMaps ==
    ASSUME TurnInv, Sole, NEW e \in Threads,
           \/ Yield(e)
           \/ Preempt(e) /\ Windows = {}
           \/ Depart(e)
    PROVE  Maps
<1>1. running = e /\ MoveOf(e)
  BY Moves DEF Step
<1>2. /\ pc \in [Threads -> AllPlaces]
      /\ pc[e] # "cancelling" =>
            \A t \in cancelled \cup completed : ret_val[t] # "garbage"
      /\ \A f, g \in holds : f = g
      /\ holds # {} => lock = 1
      /\ Exited
  BY <1>1, SoleParts
<1>3. /\ Shape /\ Contexts /\ Listed(threads_queue) /\ Places /\ OnProcessor
  BY TurnParts
<1>4. UNCHANGED <<structs, mutex, got>> /\ pc[e] \notin Brief
  BY DEF Yield, Preempt, Depart, At, Brief
<1>5. \E q : Listed(q) /\ RunNext(q, running)
  <2>1. CASE Depart(e)
    <3>1. arg[e] = e
      BY <1>3, <2>1 DEF Depart, At, Places, PlaceOf
    <3> QED
      BY <1>1, <1>3, <2>1, <3>1 DEF Depart
  <2>2. CASE Yield(e) \/ (Preempt(e) /\ Windows = {})
    <3>1. CycleAndRunFront(threads_queue) /\ pc[e] \in Inside
      BY <2>2 DEF Yield, Preempt, At, Inside
    <3>2. ~IsEmpty(threads_queue) /\ RunNext(Cycle(threads_queue), Current)
      BY <3>1 DEF CycleAndRunFront, Current
    <3>3. Current = running
      BY <1>1, <3>1, SoleParts
    <3> QED
      BY <1>3, <3>2, <3>3, CycleList
  <2> QED
    BY <2>1, <2>2
<1>6. PICK q : Listed(q) /\ RunNext(q, running)
  BY <1>5
<1>7. completed \subseteq completed' /\ completed' \subseteq completed \cup cancelled
  BY <1>3, <1>6, RunNextDoes
<1>8. /\ cancelled' = cancelled /\ ret_val' = ret_val /\ lock' = lock
      /\ holds' = holds /\ got' = got /\ global_thread_id' = global_thread_id
  BY <1>4 DEF structs, mutex
<1>9. cancelled' \cup completed' = cancelled \cup completed
  BY <1>7, <1>8
<1>10. Abstract
  BY <1>8, <1>9, NoStep
<1>11. pc'[e] \notin Brief
  BY <1>2, <1>4 DEF Yield, Preempt, Depart, CallGoto, Goto, Brief
<1>12. \A t \in cancelled' \cup completed' : ret_val'[t] # "garbage"
  BY <1>2, <1>4, <1>8, <1>9 DEF Brief
<1>13. /\ \A f, g \in holds' : f = g
       /\ holds' # {} => lock' = 1
  BY <1>2, <1>8
<1>14. pc'[e] \notin {"set", "take", "pop", "unlink", "popped"}
  BY <1>11 DEF Brief
<1>15. Exited'
  BY <1>2, <1>7, <1>8 DEF Exited
<1> QED
  BY <1>1, <1>10, <1>11, <1>12, <1>13, <1>14, <1>15, SoleFrom DEF Maps

\* The calls that end no thread and leave the mutex alone.
LEMMA PlainMaps ==
    ASSUME TurnInv, Sole, NEW e \in Threads, NEW t \in Threads,
           \/ Create(e) \/ GhostEnds(e) \/ SpinEnds(e) \/ Lock(e)
           \/ LockNode(e) \/ LockLink(e) \/ LockBack(e) \/ LockPop(e) \/ LockUnlink(e)
           \/ Join(e, t) \/ JoinLate(e, t) \/ JoinReturn(e)
    PROVE  Maps
<1>1. running = e /\ MoveOf(e)
  BY Moves DEF Step
<1>2. /\ pc \in [Threads -> AllPlaces]
      /\ pc[e] # "cancelling" =>
            \A u \in cancelled \cup completed : ret_val[u] # "garbage"
      /\ pc[e] \in Inside =>
            Current = e /\ e < global_thread_id /\ ~Gone(e)
      /\ \A f, g \in holds : f = g
      /\ pc[e] \in {"pop", "unlink", "popped"} => lock = 1 /\ holds = {}
      /\ holds # {} => lock = 1
      /\ Exited
  BY <1>1, SoleParts
<1>3. UNCHANGED <<structs, lock, holds, completed, running>> /\ pc[e] # "cancelling"
  BY DEF Create, GhostEnds, SpinEnds, Lock, LockNode, LockLink, LockBack, LockPop, LockUnlink,
     Join, JoinLate, JoinReturn, At, Fault, mutex, sched
<1>4. /\ cancelled' = cancelled /\ ret_val' = ret_val
      /\ global_thread_id' = global_thread_id
  BY <1>3 DEF structs
<1>5. Abstract
  <2>1. CASE got' = got
    BY <1>3, <1>4, <2>1, NoStep
  <2>2. ASSUME NEW u \in Threads, u \in cancelled \cup completed, Report(u)
        PROVE  Abstract
    <3>1. ret_val[u] # "garbage" /\ Gone(u)
      BY <1>2, <1>3, <2>2 DEF Gone
    <3> QED
      BY <1>3, <1>4, <2>2, <3>1, ReportStep
  <2>3. CASE \/ Create(e) \/ GhostEnds(e) \/ SpinEnds(e) \/ Lock(e)
             \/ LockNode(e) \/ LockLink(e) \/ LockBack(e) \/ LockPop(e) \/ LockUnlink(e)
    BY <2>1, <2>3 DEF Create, GhostEnds, SpinEnds, Lock, LockNode, LockLink,
       LockBack, LockPop, LockUnlink
  <2>4. CASE Join(e, t)
    BY <2>1, <2>2, <2>4 DEF Join
  <2>5. CASE JoinLate(e, t)
    <3>1. t \in completed
      BY <2>5, TurnParts DEF JoinLate, Known, Queued, Created, Threads
    <3> QED
      BY <2>2, <2>5, <3>1 DEF JoinLate
  <2>6. CASE JoinReturn(e)
    <3>1. arg[e] \in Threads
      BY <1>1, SoleParts
    <3> QED
      BY <2>2, <2>6, <3>1 DEF JoinReturn, Gone
  <2> QED
    BY <2>3, <2>4, <2>5, <2>6
<1>6. /\ pc'[e] \in {"set", "take"} => lock' = 0
      /\ pc'[e] \in {"pop", "unlink", "popped"} => lock' = 1 /\ holds' = {}
  BY <1>2, <1>3 DEF Create, GhostEnds, SpinEnds, Lock, LockNode, LockLink, LockBack,
     LockPop, LockUnlink, Fault, Join, JoinLate, JoinReturn, At, Return, CallGoto, Goto
<1>7. \A u \in cancelled' \cup completed' : ret_val'[u] # "garbage"
  BY <1>2, <1>3, <1>4
<1>8. /\ \A f, g \in holds' : f = g
      /\ holds' # {} => lock' = 1
      /\ running' = running
  BY <1>2, <1>3
<1>9. Exited'
  BY <1>2, <1>3, <1>4 DEF Exited
<1> QED
  BY <1>1, <1>5, <1>6, <1>7, <1>8, <1>9, SoleFrom DEF Maps

LEMMA CreateThreadMaps ==
    ASSUME TurnInv, Sole, NEW e \in Threads, CreateThread(e)
    PROVE  Maps
<1>1. running = e /\ MoveOf(e) /\ pc[e] = "creating"
  BY Moves DEF Step, CreateThread, At
<1>2. /\ pc \in [Threads -> AllPlaces]
      /\ pc[e] # "cancelling" =>
            \A u \in cancelled \cup completed : ret_val[u] # "garbage"
      /\ \A f, g \in holds : f = g
      /\ holds # {} => lock = 1
      /\ Exited
      /\ global_thread_id \in 1..MaxThreads /\ MaxThreads \in Int
  BY <1>1, SoleParts
<1>3. arg[e] = global_thread_id /\ global_thread_id < MaxThreads
  BY <1>1, TurnParts DEF Places, PlaceOf
<1>4. /\ global_thread_id' = global_thread_id + 1
      /\ UNCHANGED <<cancelled, ret_val, lock, holds, completed, running, got>>
  BY <1>3 DEF CreateThread, mutex
<1>5. Value' = Value
  BY <1>4 DEF Value, Gone
<1>6. global_thread_id \in Threads
  BY <1>2, <1>3 DEF Threads
<1>7. API!Create
  BY <1>4, <1>5, <1>6 DEF API!Create, Value
<1>8. pc'[e] = "run"
  BY <1>1, <1>2 DEF CreateThread
<1>9. \A u \in cancelled' \cup completed' : ret_val'[u] # "garbage"
  BY <1>1, <1>2, <1>4
<1>10. /\ \A f, g \in holds' : f = g
       /\ holds' # {} => lock' = 1
       /\ running' = running
  BY <1>2, <1>4
<1>a. Exited'
  BY <1>2, <1>4 DEF Exited
<1>11. Sole'
  BY <1>1, <1>8, <1>9, <1>10, <1>a, SoleFrom
<1> QED
  BY <1>7, <1>11 DEF Maps, Abstract, API!Next

LEMMA LeaveMaps ==
    ASSUME TurnInv, Sole, NEW e \in Threads, At(e, {"run"}),
           NEW value \in {"exited", "canceled"}, NEW to \in {"leaving", "returning"},
           Leave(e, value, to), MoveOf(e),
           \/ cancelled' = cancelled
           \/ cancelled' = cancelled \cup {e} /\ value = "canceled"
    PROVE  Maps
<1>1. running = e /\ pc[e] = "run" /\ pc[e] \in Inside
  BY DEF At, Inside
<1>2. /\ pc \in [Threads -> AllPlaces]
      /\ ret_val \in [Threads -> {"garbage", "exited", "canceled"}]
      /\ \A u \in cancelled \cup completed : ret_val[u] # "garbage"
      /\ Current = e /\ e < global_thread_id /\ ~Gone(e)
      /\ \A f, g \in holds : f = g
      /\ holds # {} => lock = 1
      /\ Exited
  BY <1>1, SoleParts
<1>3. /\ completed' = completed \cup {e}
      /\ ret_val' = [ret_val EXCEPT ![e] = value]
      /\ pc' = [pc EXCEPT ![e] = to]
      /\ UNCHANGED <<global_thread_id, lock, holds, running, got>>
  BY <1>2 DEF Leave, CallGoto, Goto, mutex
<1>4. cancelled' \cup completed' = cancelled \cup completed \cup {e}
  BY <1>3
<1>5. Value[e] = "garbage"
  BY <1>2 DEF Value
<1>6. Abstract
  BY <1>2, <1>3, <1>4, <1>5, EndStep
<1>7. pc'[e] = to
  BY <1>2, <1>3
<1>8. \A u \in cancelled' \cup completed' : ret_val'[u] # "garbage"
  <2> TAKE u \in cancelled' \cup completed'
  <2>1. CASE u = e
    BY <1>2, <1>3, <2>1
  <2>2. CASE u # e
    BY <1>2, <1>3, <1>4, <2>2
  <2> QED
    BY <2>1, <2>2
<1>9. /\ \A f, g \in holds' : f = g
      /\ holds' # {} => lock' = 1
      /\ running' = running
  BY <1>2, <1>3
<1>10. Exited'
  <2>1. ASSUME NEW u \in Threads, ret_val'[u] = "exited"
        PROVE  u \in completed' \ cancelled'
    <3>1. CASE u = e
      BY <1>2, <1>3, <2>1, <3>1 DEF Gone
    <3>2. CASE u # e
      BY <1>2, <1>3, <2>1, <3>2 DEF Exited
    <3> QED
      BY <3>1, <3>2
  <2> QED
    BY <2>1 DEF Exited
<1> QED
  BY <1>1, <1>6, <1>7, <1>8, <1>9, <1>10, SoleFrom DEF Maps

\* gtthread_cancel of another thread ends it when its value is set, unless it
\* had been cancelled before.
LEMMA CancelMaps ==
    ASSUME TurnInv, Sole, NEW e \in Threads, NEW t \in Threads, Cancel(e, t),
           t # Current
    PROVE  Maps
<1>1. running = e /\ MoveOf(e) /\ pc[e] = "run"
  BY Moves DEF Step, Cancel, At
<1>2. /\ pc \in [Threads -> AllPlaces] /\ arg \in [Threads -> Threads]
      /\ \A u \in cancelled \cup completed : ret_val[u] # "garbage"
      /\ \A f, g \in holds : f = g
      /\ holds # {} => lock = 1
      /\ Exited
  BY <1>1, SoleParts
<1>3. /\ cancelled' = cancelled \cup {t}
      /\ pc' = [pc EXCEPT ![e] = "cancelling"]
      /\ arg' = [arg EXCEPT ![e] = t]
      /\ UNCHANGED <<global_thread_id, ret_val, lock, holds, completed, running, got>>
  BY DEF Cancel, CallGoto, Goto, mutex, sched
<1>4. pc'[e] = "cancelling" /\ arg'[e] = t
  BY <1>2, <1>3
<1>5. \A u \in cancelled' \cup completed' : ret_val'[u] = "garbage" => u = t
  BY <1>2, <1>3
<1>6. /\ \A f, g \in holds' : f = g
      /\ holds' # {} => lock' = 1
      /\ running' = running
  BY <1>2, <1>3
<1>a. Exited'
  <2>1. t \notin completed
    BY TurnParts DEF Cancel, Queued
  <2> QED
    BY <1>2, <1>3, <2>1 DEF Exited
<1>7. Sole'
  BY <1>1, <1>4, <1>5, <1>6, <1>a, SoleFrom
<1>8. CASE Gone(t)
  <2>1. cancelled' \cup completed' = cancelled \cup completed
    BY <1>3, <1>8 DEF Gone
  <2> QED
    BY <1>3, <1>7, <2>1, NoStep DEF Maps
<1>9. CASE ~Gone(t) /\ ret_val[t] = "garbage"
  <2>1. ASSUME NEW u \in Threads
        PROVE  (IF Gone(u)' THEN ret_val'[u] ELSE "garbage")
                    = IF Gone(u) THEN ret_val[u] ELSE "garbage"
    BY <1>3, <1>9 DEF Gone
  <2>2. Value' = Value
    BY <2>1 DEF Value
  <2> QED
    BY <1>3, <1>7, <2>2 DEF Maps, Abstract, API!vars, Value
<1>10. CASE ~Gone(t) /\ ret_val[t] # "garbage"
  <2>1. ret_val \in [Threads -> {"garbage", "exited", "canceled"}]
    BY <1>1, SoleParts
  <2>2. ret_val[t] \in {"exited", "canceled"} /\ ret_val' = [ret_val EXCEPT ![t] = ret_val[t]]
    BY <1>3, <1>10, <2>1
  <2>3. t < global_thread_id
    BY TurnParts DEF Cancel, Queued, Created, Threads
  <2>4. Value[t] = "garbage"
    BY <1>10 DEF Value
  <2>5. cancelled' \cup completed' = cancelled \cup completed \cup {t}
    BY <1>3
  <2> QED
    BY <1>3, <1>7, <2>2, <2>3, <2>4, <2>5, EndStep DEF Maps
<1> QED
  BY <1>8, <1>9, <1>10

LEMMA CancelValueMaps ==
    ASSUME TurnInv, Sole, NEW e \in Threads, CancelValue(e)
    PROVE  Maps
<1>1. running = e /\ MoveOf(e) /\ pc[e] = "cancelling"
  BY Moves DEF Step, CancelValue, At
<1> DEFINE t == arg[e]
<1>2. /\ pc \in [Threads -> AllPlaces] /\ t \in Threads
      /\ ret_val \in [Threads -> {"garbage", "exited", "canceled"}]
      /\ \A f, g \in holds : f = g
      /\ holds # {} => lock = 1
      /\ Exited
      /\ cancelled \in SUBSET Threads /\ completed \in SUBSET Threads
  BY <1>1, SoleParts
<1>3. /\ ret_val' = [ret_val EXCEPT ![t] = "canceled"]
      /\ pc' = [pc EXCEPT ![e] = "run"]
      /\ UNCHANGED <<global_thread_id, cancelled, lock, holds, completed, running, got>>
  BY DEF CancelValue, Return, CallGoto, Goto, mutex, sched
<1>4. /\ t \in cancelled /\ t < global_thread_id
  <2>1. t \in cancelled /\ cancelled \subseteq Created
    BY <1>1, TurnParts DEF Places, PlaceOf, Flags
  <2>2. global_thread_id \in 1..MaxThreads /\ MaxThreads \in Int
    BY TurnParts
  <2> HIDE DEF t
  <2>3. t \in Created
    BY <2>1
  <2> QED
    BY <2>1, <2>2, <2>3 DEF Created
<1>5. \A u \in cancelled \cup completed : ret_val[u] = "garbage" => u = t
  BY <1>1 DEF Sole
<1> HIDE DEF t
<1>6. \A u \in cancelled' \cup completed' : ret_val'[u] # "garbage"
  BY <1>2, <1>3, <1>5
<1>7. pc'[e] = "run"
  BY <1>2, <1>3
<1>8. /\ \A f, g \in holds' : f = g
      /\ holds' # {} => lock' = 1
      /\ running' = running
  BY <1>2, <1>3
<1>a. Exited' /\ ret_val[t] # "exited"
  <2>1. ASSUME NEW u \in Threads, ret_val'[u] = "exited" PROVE ret_val[u] = "exited"
    BY <1>2, <1>3, <2>1
  <2> QED
    BY <1>2, <1>3, <1>4, <2>1 DEF Exited
<1>9. Sole'
  BY <1>1, <1>6, <1>7, <1>8, <1>a, SoleFrom
<1>10. cancelled' \cup completed' = cancelled \cup completed
  BY <1>3
<1>11. Abstract
  <2>1. CASE ret_val[t] = "canceled"
    <3>1. ret_val' = ret_val
      BY <1>2, <1>3, <2>1
    <3> QED
      BY <1>3, <1>10, <3>1, NoStep
  <2>2. CASE ret_val[t] = "garbage"
    <3>1. Value[t] = "garbage"
      BY <1>2, <2>2 DEF Value
    <3>2. cancelled' \cup completed' = cancelled \cup completed \cup {t}
      BY <1>4, <1>10
    <3> QED
      BY <1>2, <1>3, <1>4, <3>1, <3>2, EndStep
  <2> QED
    BY <1>2, <1>a, <2>1, <2>2
<1> QED
  BY <1>9, <1>11 DEF Maps

LEMMA MutexMaps ==
    ASSUME TurnInv, Sole, NEW e \in Threads,
           LockSet(e) \/ LockTake(e) \/ LockPopped(e) \/ Unlock(e)
    PROVE  Maps
<1>1. running = e /\ MoveOf(e) /\ pc[e] \in Inside /\ pc[e] # "cancelling"
  BY Moves DEF Step, LockSet, LockTake, LockPopped, Unlock, At, Inside
<1>2. /\ pc \in [Threads -> AllPlaces]
      /\ \A u \in cancelled \cup completed : ret_val[u] # "garbage"
      /\ e < global_thread_id /\ ~Gone(e)
      /\ pc[e] \in {"set", "take"} => lock = 0
      /\ pc[e] \in {"pop", "unlink", "popped"} => lock = 1 /\ holds = {}
      /\ \A f, g \in holds : f = g
      /\ holds # {} => lock = 1
      /\ Exited
  BY <1>1, SoleParts
<1>3. /\ UNCHANGED <<structs, sched, got>>
      /\ pc'[e] \in {"run", "pop", "unlink", "popped"}
  BY <1>2 DEF LockSet, LockTake, LockPopped, Fault, Unlock, At, Return, CallGoto, Goto
<1>4. UNCHANGED <<cancelled, completed, ret_val, global_thread_id, got, running>>
  BY <1>3 DEF structs, sched
<1>5. \/ holds = {} /\ holds' = {e} /\ lock' = 1 /\ pc'[e] = "run"
      \/ holds = {e} /\ holds' = {} /\ pc'[e] = "run"
      \/ holds = {} /\ holds' = {} /\ lock' = 1
  BY <1>2 DEF LockSet, LockTake, LockPopped, Fault, Unlock, At, Return, CallGoto, Goto
<1>6. Abstract
  BY <1>2, <1>4, <1>5, HoldersStep, NoStep
<1>7. \A u \in cancelled' \cup completed' : ret_val'[u] # "garbage"
  BY <1>2, <1>4
<1>8. /\ \A f, g \in holds' : f = g
      /\ holds' # {} => lock' = 1
      /\ pc'[e] \in {"pop", "unlink", "popped"} => lock' = 1 /\ holds' = {}
  BY <1>5
<1>9. Exited'
  BY <1>2, <1>4 DEF Exited
<1> QED
  BY <1>1, <1>3, <1>4, <1>6, <1>7, <1>8, <1>9, SoleFrom DEF Maps

LEMMA StutterMaps ==
    ASSUME Sole, UNCHANGED vars \/ Terminated \/ MainReturns
    PROVE  Maps
<1>1. UNCHANGED <<structs, mutex, sched, pc, arg, got>>
  BY DEF Terminated, MainReturns, vars
<1>2. Sole'
  BY <1>1 DEF Sole, Exited, structs, mutex, sched
<1>3. Abstract
  BY <1>1, NoStep DEF structs, mutex, sched
<1> QED
  BY <1>2, <1>3 DEF Maps

LEMMA StepMaps ==
    ASSUME TurnInv, Sole, Next, Windows = {}
    PROVE  Maps
<1>1. ASSUME NEW e \in Threads, Exit(e) PROVE Maps
  <2>1. MoveOf(e) /\ At(e, {"run"}) /\ cancelled' = cancelled
    BY <1>1, Moves DEF Step, Exit
  <2>2. Leave(e, "exited", "leaving") \/ Leave(e, "exited", "returning")
    BY <1>1 DEF Exit
  <2> QED
    BY <2>1, <2>2, LeaveMaps
<1>2. ASSUME NEW e \in Threads, NEW t \in Threads, Cancel(e, t) PROVE Maps
  <2>1. CASE t = Current
    <3>1. MoveOf(e) /\ At(e, {"run"}) /\ cancelled' = cancelled \cup {t}
          /\ Leave(e, "canceled", "leaving")
      BY <1>2, <2>1, Moves DEF Step, Cancel
    <3>2. t = e
      BY <2>1, <3>1, TurnParts DEF At, OnProcessor, Ending
    <3> QED
      BY <3>1, <3>2, LeaveMaps
  <2>2. CASE t # Current
    BY <1>2, <2>2, CancelMaps
  <2> QED
    BY <2>1, <2>2
<1>3. ASSUME NEW e \in Threads, Step(e) \/ Preempt(e) PROVE Maps
  <2>1. CASE Step(e)
    BY Zenon, <1>1, <1>2, <2>1, TurnMaps, PlainMaps, CreateThreadMaps,
       CancelValueMaps, MutexMaps DEF Step
  <2>2. CASE Preempt(e)
    BY <2>2, TurnMaps
  <2> QED
    BY <1>3, <2>1, <2>2
<1> QED
  BY <1>3, StutterMaps DEF Next

\* With no windows the library is what gtthread.h promises: every step is one
\* of ThreadAPI, or changes nothing that a program can see.
THEOREM Refinement ==
    ASSUME Windows = {}
    PROVE  Spec => Implements
<1>1. Init => Sole
  BY DEF Init, Sole, Exited, Brief
<1>2. Init => API!Init
  BY DEF Init, API!Init, Gone
<1>3. TurnInv /\ Sole /\ [Next]_vars => Sole' /\ [API!Next]_(API!vars)
  BY StepMaps, StutterMaps DEF Maps, Abstract
<1>4. Windows \subseteq TamePlaces
  OBVIOUS
<1> QED
  BY <1>1, <1>2, <1>3, <1>4, RunQueueKept, PTL DEF Spec, Implements, API!Spec

\* With no windows two threads never have the mutex at once, and it is taken
\* while one of them has it.
THEOREM OneHolder ==
    ASSUME Windows = {}
    PROVE  Spec => []MutualExclusion
<1>1. Init => Sole
  BY DEF Init, Sole, Exited, Brief
<1>2. TurnInv /\ Sole /\ [Next]_vars => Sole'
  BY StepMaps, StutterMaps DEF Maps
<1>3. ASSUME Sole PROVE MutualExclusion
  <2>1. CASE holds = {}
    BY <2>1, FS_EmptySet DEF MutualExclusion
  <2>2. CASE holds # {}
    <3>1. PICK e : holds = {e}
      <4>1. PICK e \in holds : TRUE
        BY <2>2
      <4>2. holds = {e}
        BY <1>3, <4>1 DEF Sole
      <4> QED
        BY <4>2
    <3>2. Cardinality(holds) = 1
      BY <3>1, FS_Singleton
    <3> QED
      BY <1>3, <3>2 DEF MutualExclusion, Sole
  <2> QED
    BY <2>1, <2>2
<1>4. Windows \subseteq TamePlaces
  OBVIOUS
<1> QED
  BY <1>1, <1>2, <1>3, <1>4, RunQueueKept, PTL DEF Spec
=============================================================================
