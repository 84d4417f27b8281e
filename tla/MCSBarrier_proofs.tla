------------------------- MODULE MCSBarrier_proofs -------------------------
(***************************************************************************)
(* The tree barrier is a barrier, its channels hold one message at most    *)
(* and end empty, and its waits never all block, for any number of         *)
(* processes and of calls.                                                 *)
(***************************************************************************)
EXTENDS MCSBarrier, WellFoundedInduction, TLAPS

\* The ranks of the two trees: the k-th child of p.
ArrivalChild(p, k) == p * 4 + k + 1

\* Episodes whose arrival a process has told its parent of.  (The root tells
\* itself when it turns around.)
Told(r) ==
    calls[r] + (IF pc[r] \in {"report", "sleep", "wake", "waking"} THEN 1 ELSE 0)

\* Episodes in which p has gathered the arrival of its k-th child.
Gathered(p, k) ==
    calls[p] + (IF pc[p] = "out" \/ (pc[p] = "gather" /\ i[p] <= k) THEN 0 ELSE 1)

\* Episodes in which a process has been awake.
Awakened(r) == calls[r] + (IF pc[r] \in {"wake", "waking"} THEN 1 ELSE 0)

\* Episodes in which p has sent its k-th wakeup.
Sent(p, k) ==
    calls[p] + (IF \/ pc[p] = "wake" /\ i[p] > k
                   \/ pc[p] = "waking" /\ i[p] >= k THEN 1 ELSE 0)

\* The type of the state, with what the program counter says of the loops.
Shape ==
    /\ arrivals \in [Ranks -> Nat]
    /\ wakeups \in [Ranks -> Nat]
    /\ pc \in [Ranks -> {"out", "gather", "report", "sleep", "wake", "waking"}]
    /\ i \in [Ranks -> 0..4]
    /\ calls \in [Ranks -> 0..Calls]
    /\ \A r \in Ranks :
        /\ pc[r] # "out" => calls[r] < Calls
        /\ pc[r] \in {"report", "sleep"} => r # 0
        /\ pc[r] = "wake" => i[r] <= 2
        /\ pc[r] = "waking" => i[r] < 2 /\ HasPointer(r, i[r])

\* What is on its way to the parent, and nothing is to nobody.
Arrivals ==
    /\ \A p \in Ranks, k \in 0..3 : HaveChild(p, k) =>
            Told(ArrivalChild(p, k)) = Gathered(p, k) + arrivals[ArrivalChild(p, k)]
    /\ arrivals[0] = 0

Wakeups ==
    /\ \A p \in Ranks, k \in 0..1 : HasPointer(p, k) =>
            Sent(p, k) = Awakened(ChildPointer(p, k)) + wakeups[ChildPointer(p, k)]
    /\ wakeups[0] = 0

\* Nobody is awake in an episode that somebody has not told of.
Agreement == \A r, q \in Ranks : Awakened(r) <= Told(q)

\* The inductive invariant.
TreeInv == Shape /\ Arrivals /\ Wakeups /\ Agreement
-----------------------------------------------------------------------------
(* The two trees *)

Less == {p \in Nat \X Nat : p[1] < p[2]}

\* Every nonempty set of naturals has a least element.
LEMMA LeastNatural ==
    ASSUME NEW T \in SUBSET Nat, T # {}
    PROVE  \E m \in T : \A k \in T : m <= k
<1>1. OpToRel(<, Nat) = Less
  BY Zenon DEF OpToRel, Less
<1>2. IsWellFoundedOn(Less, Nat)
  BY Zenon, NatLessThanWellFounded, <1>1
<1>3. PICK m \in T : \A k \in T : <<k, m>> \notin Less
  BY <1>2, WFMin
<1>4. ASSUME NEW k \in T PROVE m <= k
  BY <1>3, m \in Nat, k \in Nat, <<k, m>> \notin Less DEF Less
<1> QED
  BY <1>4

\* Every process but the root is the child of one with a smaller rank.
LEMMA Parent ==
    ASSUME NEW q \in Ranks, q # 0
    PROVE  \E p \in Ranks, k \in 0..3 :
                p < q /\ HaveChild(p, k) /\ q = ArrivalChild(p, k)
<1> DEFINE p == (q - 1) \div 4
           k == (q - 1) % 4
<1>1. q \in Nat /\ q >= 1 /\ q < numProcesses /\ numProcesses \in Nat
  BY ProcessesAssumption DEF Ranks
<1>2. p \in Nat /\ k \in 0..3 /\ q - 1 = 4 * p + k
  BY <1>1
<1> HIDE DEF p, k
<1>3. p < q /\ p \in Ranks /\ HaveChild(p, k) /\ q = ArrivalChild(p, k)
  BY <1>1, <1>2 DEF Ranks, HaveChild, ArrivalChild
<1> QED
  BY <1>2, <1>3

LEMMA Waker ==
    ASSUME NEW q \in Ranks, q # 0
    PROVE  \E p \in Ranks, k \in 0..1 :
                HasPointer(p, k) /\ q = ChildPointer(p, k)
<1> DEFINE p == (q - 1) \div 2
           k == (q - 1) % 2
<1>1. q \in Nat /\ q >= 1 /\ q < numProcesses /\ numProcesses \in Nat
  BY ProcessesAssumption DEF Ranks
<1>2. p \in Nat /\ k \in 0..1 /\ q - 1 = 2 * p + k
  BY <1>1
<1> HIDE DEF p, k
<1>3. p \in Ranks /\ HasPointer(p, k) /\ q = ChildPointer(p, k)
  BY <1>1, <1>2 DEF Ranks, HasPointer, ChildPointer
<1> QED
  BY <1>2, <1>3

\* A child is a rank other than the root's, and has one parent.
LEMMA Children ==
    /\ \A p \in Ranks, k \in 0..3 : HaveChild(p, k) =>
            /\ ArrivalChild(p, k) \in Ranks \ {0}
            /\ \A q \in Ranks, j \in 0..3 :
                    ArrivalChild(q, j) = ArrivalChild(p, k) => q = p /\ j = k
    /\ \A p \in Ranks, k \in 0..1 : HasPointer(p, k) =>
            /\ ChildPointer(p, k) \in Ranks \ {0}
            /\ \A q \in Ranks, j \in 0..1 :
                    ChildPointer(q, j) = ChildPointer(p, k) => q = p /\ j = k
<1>1. numProcesses \in Nat
  BY ProcessesAssumption
<1> QED
  BY <1>1 DEF Ranks, HaveChild, ArrivalChild, HasPointer, ChildPointer
-----------------------------------------------------------------------------
(* One step of one process *)

LEMMA InitHolds == Init => TreeInv
<1>1. SUFFICES ASSUME Init PROVE TreeInv
  OBVIOUS
<1>2. 0 \in Ranks
  BY ProcessesAssumption DEF Ranks
<1>3. Shape
  BY <1>1, LoopAssumption DEF Init, Shape
<1>4. Arrivals
  BY <1>1, <1>2, Children DEF Init, Arrivals, Told, Gathered
<1>5. Wakeups
  BY <1>1, <1>2, Children DEF Init, Wakeups, Sent, Awakened
<1>6. Agreement
  BY <1>1 DEF Init, Agreement, Awakened, Told
<1> QED
  BY <1>3, <1>4, <1>5, <1>6 DEF TreeInv

LEMMA ShapeStep ==
    ASSUME Shape, NEW r \in Ranks, Step(r)
    PROVE  Shape'
<1> USE DEF Shape, Goto
<1>0. Calls \in Nat
  BY LoopAssumption
<1>1. CASE Enter(r)
  BY <1>0, <1>1 DEF Enter
<1>2. CASE Gather(r)
  <2> DEFINE child == r * 4 + i[r] + 1
  <2>1. i[r] \in 0..3 /\ i[r] + 1 \in 0..4
    BY <1>2 DEF Gather
  <2>2. arrivals' \in [Ranks -> Nat]
    <3>1. HaveChild(r, i[r]) => child \in Ranks
      BY <2>1, Children DEF ArrivalChild
    <3> QED
      BY <1>2, <3>1 DEF Gather
  <2>3. /\ UNCHANGED <<wakeups, calls>> /\ i' = [i EXCEPT ![r] = @ + 1]
        /\ pc' = [pc EXCEPT ![r] = "gather"] /\ pc[r] = "gather"
    BY <1>2 DEF Gather
  <2> QED
    BY <2>1, <2>2, <2>3
<1>3. CASE Root(r)
  BY <1>3 DEF Root
<1>4. CASE Report(r)
  BY <1>4 DEF Report
<1>5. CASE Reported(r)
  BY <1>5 DEF Reported
<1>6. CASE Awake(r)
  BY <1>6 DEF Awake
<1>7. CASE Wake(r)
  <2>1. wakeups' \in [Ranks -> Nat]
    BY <1>7 DEF Wake
  <2>2. CASE HasPointer(r, i[r]) /\ Goto(r, "wake", "waking") /\ UNCHANGED i
    BY <1>7, <2>1, <2>2 DEF Wake
  <2>3. CASE Goto(r, "wake", "wake") /\ i' = [i EXCEPT ![r] = @ + 1]
    BY <1>7, <2>1, <2>3 DEF Wake
  <2> QED
    BY <1>7, <2>2, <2>3 DEF Wake
<1>8. CASE Woken(r)
  BY <1>8 DEF Woken
<1>9. CASE Leave(r)
  BY <1>0, <1>9 DEF Leave
<1> QED
  BY <1>1, <1>2, <1>3, <1>4, <1>5, <1>6, <1>7, <1>8, <1>9 DEF Step

\* A step of a process leaves the counts of the others alone.
LEMMA Others ==
    ASSUME Shape, NEW r \in Ranks, Step(r), NEW q \in Ranks, q # r
    PROVE  /\ Told(q)' = Told(q) /\ Awakened(q)' = Awakened(q)
           /\ \A k \in 0..3 : Gathered(q, k)' = Gathered(q, k)
           /\ \A k \in 0..1 : Sent(q, k)' = Sent(q, k)
<1>1. pc'[q] = pc[q] /\ i'[q] = i[q] /\ calls'[q] = calls[q]
  BY DEF Step, Enter, Gather, Root, Report, Reported, Awake, Wake, Woken, Leave,
         Goto, Shape
<1> QED
  BY <1>1 DEF Told, Awakened, Gathered, Sent

LEMMA Counts ==
    ASSUME Shape, NEW r \in Ranks
    PROVE  /\ Told(r) \in Nat /\ Awakened(r) \in Nat
           /\ \A k \in 0..3 : Gathered(r, k) \in Nat
           /\ \A k \in 0..1 : Sent(r, k) \in Nat
BY DEF Shape, Told, Awakened, Gathered, Sent

\* What a step does to the counts of the process that makes it.
LEMMA Own ==
    ASSUME Shape, NEW r \in Ranks, Step(r)
    PROVE  /\ Told(r)' = Told(r) + (IF Report(r) \/ Root(r) THEN 1 ELSE 0)
           /\ Awakened(r)' = Awakened(r) + (IF Awake(r) \/ Root(r) THEN 1 ELSE 0)
           /\ \A k \in 0..3 : Gathered(r, k)' =
                Gathered(r, k) + (IF Gather(r) /\ i[r] = k THEN 1 ELSE 0)
           /\ \A k \in 0..1 : Sent(r, k)' =
                Sent(r, k) + (IF Wake(r) /\ i[r] = k THEN 1 ELSE 0)
<1> USE DEF Shape, Goto, Told, Awakened, Gathered, Sent
<1>1. CASE Enter(r)
  BY <1>1 DEF Enter, Report, Root, Awake, Gather, Wake
<1>2. CASE Gather(r)
  BY <1>2 DEF Enter, Report, Root, Awake, Gather, Wake
<1>3. CASE Root(r)
  BY <1>3 DEF Enter, Report, Root, Awake, Gather, Wake
<1>4. CASE Report(r)
  BY <1>4 DEF Enter, Report, Root, Awake, Gather, Wake
<1>5. CASE Reported(r)
  BY <1>5 DEF Reported, Report, Root, Awake, Gather, Wake
<1>6. CASE Awake(r)
  BY <1>6 DEF Enter, Report, Root, Awake, Gather, Wake
<1>7. CASE Wake(r)
  BY <1>7 DEF Enter, Report, Root, Awake, Gather, Wake
<1>8. CASE Woken(r)
  BY <1>8 DEF Woken, Report, Root, Awake, Gather, Wake
<1>9. CASE Leave(r)
  BY <1>9 DEF Leave, Report, Root, Awake, Gather, Wake
<1> QED
  BY <1>1, <1>2, <1>3, <1>4, <1>5, <1>6, <1>7, <1>8, <1>9 DEF Step

\* A report puts one arrival on its way and a turn of the first loop takes one.
LEMMA ArrivalsStep ==
    ASSUME Shape, Arrivals, NEW r \in Ranks, Step(r)
    PROVE  Arrivals'
<1>1. \A q \in Ranks : arrivals'[q] - arrivals[q] =
            IF Report(r) /\ q = r THEN 1
            ELSE IF /\ Gather(r) /\ HaveChild(r, i[r])
                    /\ q = ArrivalChild(r, i[r]) THEN -1 ELSE 0
  <2>1. CASE Report(r)
    BY <2>1 DEF Report, Gather, Shape
  <2>2. CASE Gather(r)
    BY <2>2 DEF Report, Gather, Shape, ArrivalChild
  <2>3. CASE ~Report(r) /\ ~Gather(r)
    <3>1. arrivals' = arrivals
      BY <2>3 DEF Step, Enter, Root, Reported, Awake, Wake, Woken, Leave
    <3> QED
      BY <2>3, <3>1 DEF Shape
  <2> QED
    BY <2>1, <2>2, <2>3
<1>2. Gather(r) => i[r] \in 0..3
  BY DEF Gather, Shape
<1>3. ~(Report(r) /\ Root(r)) /\ (Root(r) => r = 0) /\ (Report(r) => r # 0)
  BY DEF Report, Root
<1>4. ASSUME NEW p \in Ranks, NEW k \in 0..3, HaveChild(p, k)
      PROVE  Told(ArrivalChild(p, k))'
                = Gathered(p, k)' + arrivals'[ArrivalChild(p, k)]
  <2> DEFINE c == ArrivalChild(p, k)
  <2>1. c \in Ranks \ {0} /\ Told(c) = Gathered(p, k) + arrivals[c]
    BY <1>4, Children DEF Arrivals
  <2>2. (Gather(r) /\ c = ArrivalChild(r, i[r])) => p = r /\ k = i[r]
    BY <1>2, <1>4, Children
  <2>3. /\ Told(c) \in Nat /\ Gathered(p, k) \in Nat /\ arrivals[c] \in Nat
        /\ arrivals'[c] \in Nat
    BY <2>1, Counts, ShapeStep DEF Shape
  <2>4. Told(c)' = Told(c) + (IF Report(r) /\ c = r THEN 1 ELSE 0)
    BY <1>3, <2>1, <2>3, Own, Others
  <2>5. Gathered(p, k)' =
            Gathered(p, k) + (IF Gather(r) /\ p = r /\ k = i[r] THEN 1 ELSE 0)
    BY <2>3, Own, Others
  <2>6. arrivals'[c] = arrivals[c] + (IF Report(r) /\ c = r THEN 1
                          ELSE IF Gather(r) /\ p = r /\ k = i[r] THEN -1 ELSE 0)
    BY <1>1, <1>4, <2>1, <2>2, <2>3
  <2>7. ~(Report(r) /\ Gather(r))
    BY DEF Report, Gather
  <2> HIDE DEF c
  <2>8. Told(c)' = Gathered(p, k)' + arrivals'[c]
    BY <2>1, <2>3, <2>4, <2>5, <2>6, <2>7
  <2> QED
    BY <2>8 DEF c
<1>5. arrivals'[0] = 0
  <2>1. 0 \in Ranks
    BY ProcessesAssumption DEF Ranks
  <2>2. ~(Gather(r) /\ HaveChild(r, i[r]) /\ 0 = ArrivalChild(r, i[r]))
    BY <1>2, Children
  <2>3. arrivals'[0] - arrivals[0] = 0 /\ arrivals[0] = 0 /\ arrivals'[0] \in Nat
    BY <1>1, <1>3, <2>1, <2>2, ShapeStep DEF Arrivals, Shape
  <2> QED
    BY <2>3
<1> QED
  BY <1>4, <1>5 DEF Arrivals, ArrivalChild, HaveChild

\* A turn of the last loop puts one wakeup on its way and its process takes it.
LEMMA WakeupsStep ==
    ASSUME Shape, Wakeups, NEW r \in Ranks, Step(r)
    PROVE  Wakeups'
<1>1. \A q \in Ranks : wakeups'[q] - wakeups[q] =
            IF Awake(r) /\ q = r THEN -1
            ELSE IF /\ Wake(r) /\ HasPointer(r, i[r])
                    /\ q = ChildPointer(r, i[r]) THEN 1 ELSE 0
  <2>1. CASE Awake(r)
    BY <2>1 DEF Awake, Wake, Goto, Shape
  <2>2. CASE Wake(r)
    BY <2>2 DEF Awake, Wake, Goto, Shape
  <2>3. CASE ~Awake(r) /\ ~Wake(r)
    <3>1. wakeups' = wakeups
      BY <2>3 DEF Step, Enter, Gather, Root, Report, Reported, Woken, Leave
    <3> QED
      BY <2>3, <3>1 DEF Shape
  <2> QED
    BY <2>1, <2>2, <2>3
<1>2. Wake(r) => i[r] \in 0..1
  BY DEF Wake, Shape
<1>3. ~(Awake(r) /\ Root(r)) /\ (Root(r) => r = 0) /\ (Awake(r) => r # 0)
  BY DEF Awake, Root, Goto, Shape
<1>4. ASSUME NEW p \in Ranks, NEW k \in 0..1, HasPointer(p, k)
      PROVE  Sent(p, k)' = Awakened(ChildPointer(p, k))' + wakeups'[ChildPointer(p, k)]
  <2> DEFINE c == ChildPointer(p, k)
  <2>1. c \in Ranks \ {0} /\ Sent(p, k) = Awakened(c) + wakeups[c]
    BY <1>4, Children DEF Wakeups
  <2>2. (Wake(r) /\ c = ChildPointer(r, i[r])) => p = r /\ k = i[r]
    BY <1>2, <1>4, Children
  <2>3. /\ Awakened(c) \in Nat /\ Sent(p, k) \in Nat /\ wakeups[c] \in Nat
        /\ wakeups'[c] \in Nat
    BY <2>1, Counts, ShapeStep DEF Shape
  <2>4. Awakened(c)' = Awakened(c) + (IF Awake(r) /\ c = r THEN 1 ELSE 0)
    BY <1>3, <2>1, <2>3, Own, Others
  <2>5. Sent(p, k)' = Sent(p, k) + (IF Wake(r) /\ p = r /\ k = i[r] THEN 1 ELSE 0)
    BY <2>3, Own, Others
  <2>6. wakeups'[c] = wakeups[c] + (IF Awake(r) /\ c = r THEN -1
                          ELSE IF Wake(r) /\ p = r /\ k = i[r] THEN 1 ELSE 0)
    BY <1>1, <1>4, <2>1, <2>2, <2>3
  <2>7. ~(Awake(r) /\ Wake(r))
    BY DEF Awake, Wake, Goto
  <2> HIDE DEF c
  <2>8. Sent(p, k)' = Awakened(c)' + wakeups'[c]
    BY <2>1, <2>3, <2>4, <2>5, <2>6, <2>7
  <2> QED
    BY <2>8 DEF c
<1>5. wakeups'[0] = 0
  <2>1. 0 \in Ranks
    BY ProcessesAssumption DEF Ranks
  <2>2. ~(Wake(r) /\ HasPointer(r, i[r]) /\ 0 = ChildPointer(r, i[r]))
    BY <1>2, Children
  <2>3. wakeups'[0] - wakeups[0] = 0 /\ wakeups[0] = 0 /\ wakeups'[0] \in Nat
    BY <1>1, <1>3, <2>1, <2>2, ShapeStep DEF Wakeups, Shape
  <2> QED
    BY <2>3
<1> QED
  BY <1>4, <1>5 DEF Wakeups, ChildPointer, HasPointer
-----------------------------------------------------------------------------
(* Why everybody has arrived when the first process is awake *)

\* A process tells of itself after its children have told it of them.
LEMMA GatheredFirst ==
    ASSUME TreeInv, NEW p \in Ranks, NEW k \in 0..3, HaveChild(p, k)
    PROVE  Gathered(p, k) <= Told(ArrivalChild(p, k)) /\ Told(p) <= Gathered(p, k)
<1>1. ArrivalChild(p, k) \in Ranks
  BY Children
<1>2. /\ Told(ArrivalChild(p, k)) = Gathered(p, k) + arrivals[ArrivalChild(p, k)]
      /\ arrivals[ArrivalChild(p, k)] \in Nat
      /\ Gathered(p, k) \in Nat
  BY <1>1, Counts DEF TreeInv, Arrivals, Shape
<1>3. Told(p) <= Gathered(p, k)
  BY DEF TreeInv, Shape, Told, Gathered
<1> QED
  BY <1>2, <1>3

\* When the root turns around, all have told of the episode: the first that has
\* not would have a parent that has, or the root for its parent.
LEMMA RootKnows ==
    ASSUME TreeInv, Root(0), NEW q \in Ranks, q # 0
    PROVE  Told(q) > calls[0]
<1> DEFINE Late == {s \in Ranks \ {0} : ~(Told(s) > calls[0])}
<1>1. 0 \in Ranks /\ Ranks \subseteq Nat
  BY ProcessesAssumption DEF Ranks
<1>2. SUFFICES ASSUME Late # {} PROVE FALSE
  OBVIOUS
<1>3. PICK s \in Late : \A u \in Late : s <= u
  BY <1>1, <1>2, LeastNatural
<1>4. PICK p \in Ranks, k \in 0..3 :
            p < s /\ HaveChild(p, k) /\ s = ArrivalChild(p, k)
  BY <1>3, Parent
<1>5. Gathered(p, k) <= Told(s) /\ Told(p) <= Gathered(p, k)
  BY <1>4, GatheredFirst
<1>6. /\ calls[0] \in Nat /\ Told(s) \in Nat /\ Told(p) \in Nat
      /\ Gathered(p, k) \in Nat
  BY <1>1, <1>3, <1>4, Counts DEF TreeInv, Shape
<1>7. CASE p = 0
  <2>1. Gathered(p, k) = calls[0] + 1
    BY <1>7 DEF Root, Goto, Gathered
  <2> QED
    BY <1>3, <1>5, <1>6, <2>1
<1>8. CASE p # 0
  <2>1. p \notin Late
    BY <1>1, <1>3, <1>4
  <2>2. Told(p) > calls[0]
    BY <1>8, <2>1
  <2> QED
    BY <1>3, <1>5, <1>6, <2>2
<1> QED
  BY <1>7, <1>8

\* Who is woken is woken by a process that is awake.
LEMMA AwakeKnows ==
    ASSUME TreeInv, NEW r \in Ranks, Awake(r), NEW q \in Ranks
    PROVE  Told(q) > calls[r]
<1>1. r # 0 /\ Awakened(r) = calls[r]
  BY DEF Awake, Goto, TreeInv, Shape, Awakened
<1>2. PICK p \in Ranks, k \in 0..1 : HasPointer(p, k) /\ r = ChildPointer(p, k)
  BY <1>1, Waker
<1>3. Sent(p, k) = Awakened(r) + wakeups[r] /\ wakeups[r] > 0 /\ wakeups[r] \in Nat
  BY <1>2 DEF TreeInv, Wakeups, Awake, Shape
<1>4. Sent(p, k) <= Awakened(p)
  BY DEF TreeInv, Shape, Sent, Awakened
<1>5. Awakened(p) <= Told(q)
  BY DEF TreeInv, Agreement
<1>6. /\ Sent(p, k) \in Nat /\ Awakened(p) \in Nat /\ Awakened(r) \in Nat
      /\ Told(q) \in Nat
  BY Counts DEF TreeInv
<1> QED
  BY <1>1, <1>3, <1>4, <1>5, <1>6

LEMMA AgreementStep ==
    ASSUME TreeInv, NEW r \in Ranks, Step(r)
    PROVE  Agreement'
<1>1. Shape
  BY DEF TreeInv
<1>2. ASSUME NEW s \in Ranks, NEW q \in Ranks
      PROVE  Awakened(s)' <= Told(q)'
  <2>1. Awakened(s) <= Told(q) /\ Awakened(s) \in Nat /\ Told(q) \in Nat
    BY <1>1, Counts DEF TreeInv, Agreement
  <2>2. Told(q)' \in Nat /\ Told(q) <= Told(q)'
    BY <1>1, <2>1, Own, Others
  <2>3. CASE Awakened(s)' = Awakened(s)
    BY <2>1, <2>2, <2>3
  <2>4. CASE s = r /\ Root(r)
    <3>1. r = 0 /\ Awakened(s)' = calls[0] + 1 /\ calls[0] \in Nat
      BY <1>1, <2>4 DEF Root, Goto, Shape, Awakened
    <3>2. q # 0 => Told(q) > calls[0]
      BY <2>4, <3>1, RootKnows
    <3>3. q = 0 => Told(q)' = calls[0] + 1
      BY <1>1, <2>4 DEF Root, Goto, Shape, Told
    <3> QED
      BY <2>1, <2>2, <3>1, <3>2, <3>3
  <2>5. CASE s = r /\ Awake(r)
    <3>1. Awakened(s)' = calls[r] + 1 /\ calls[r] \in Nat
      BY <1>1, <2>5 DEF Awake, Goto, Shape, Awakened
    <3>2. Told(q) > calls[r]
      BY <2>5, AwakeKnows
    <3> QED
      BY <2>1, <2>2, <3>1, <3>2
  <2> QED
    BY <1>1, <2>1, <2>3, <2>4, <2>5, Own, Others
<1> QED
  BY <1>2 DEF Agreement

LEMMA StutterHolds == TreeInv /\ UNCHANGED vars => TreeInv'
BY DEF TreeInv, Shape, Arrivals, Wakeups, Agreement, Told, Gathered, Awakened,
       Sent, vars
-----------------------------------------------------------------------------
(* The theorems *)

\* The channels carry exactly what has been told and not yet gathered, or sent
\* and not yet awaited, and nobody is awake before everybody has arrived.
THEOREM Invariant == Spec => []TreeInv
<1>1. TreeInv /\ [Next]_vars => TreeInv'
  <2>1. SUFFICES ASSUME TreeInv, [Next]_vars PROVE TreeInv'
    OBVIOUS
  <2>2. CASE UNCHANGED vars \/ Terminated
    BY <2>1, <2>2, StutterHolds DEF Terminated
  <2>3. ASSUME NEW r \in Ranks, Step(r) PROVE TreeInv'
    BY <2>1, <2>3, ShapeStep, ArrivalsStep, WakeupsStep, AgreementStep DEF TreeInv
  <2> QED
    BY <2>1, <2>2, <2>3 DEF Next
<1> QED
  BY <1>1, InitHolds, PTL DEF Spec

\* Every variable keeps its type; in particular no channel, of arrivals or of
\* wakeups, ever holds two messages.
THEOREM TypeCorrect == Spec => []TypeOK
<1>1. ASSUME TreeInv PROVE TypeOK
  <2>1. ASSUME NEW q \in Ranks PROVE arrivals[q] \in 0..1
    <3>1. arrivals[q] \in Nat /\ Told(q) \in Nat /\ Awakened(q) \in Nat
      BY <1>1, Counts DEF TreeInv, Shape
    <3>2. CASE q = 0
      BY <1>1, <3>2 DEF TreeInv, Arrivals
    <3>3. CASE q # 0
      <4>1. PICK p \in Ranks, k \in 0..3 : HaveChild(p, k) /\ q = ArrivalChild(p, k)
        BY <3>3, Parent
      <4>2. Told(q) = Gathered(p, k) + arrivals[q]
        BY <1>1, <4>1 DEF TreeInv, Arrivals
      <4>3. Awakened(q) <= Told(p) /\ Told(p) <= Gathered(p, k)
        BY <1>1, <4>1, GatheredFirst DEF TreeInv, Agreement
      <4>4. Told(q) <= Awakened(q) + 1
        BY <1>1 DEF TreeInv, Shape, Told, Awakened
      <4>5. Told(p) \in Nat /\ Gathered(p, k) \in Nat
        BY <1>1, Counts DEF TreeInv
      <4> QED
        BY <3>1, <4>2, <4>3, <4>4, <4>5
    <3> QED
      BY <3>2, <3>3
  <2>2. ASSUME NEW q \in Ranks PROVE wakeups[q] \in 0..1
    <3>1. wakeups[q] \in Nat /\ Told(q) \in Nat /\ Awakened(q) \in Nat
      BY <1>1, Counts DEF TreeInv, Shape
    <3>2. CASE q = 0
      BY <1>1, <3>2 DEF TreeInv, Wakeups
    <3>3. CASE q # 0
      <4>1. PICK p \in Ranks, k \in 0..1 : HasPointer(p, k) /\ q = ChildPointer(p, k)
        BY <3>3, Waker
      <4>2. Sent(p, k) = Awakened(q) + wakeups[q]
        BY <1>1, <4>1 DEF TreeInv, Wakeups
      <4>3. Sent(p, k) <= Awakened(p)
        BY <1>1 DEF TreeInv, Shape, Sent, Awakened
      <4>4. Awakened(p) <= Told(q)
        BY <1>1 DEF TreeInv, Agreement
      <4>5. Told(q) <= Awakened(q) + 1
        BY <1>1 DEF TreeInv, Shape, Told, Awakened
      <4>6. Awakened(p) \in Nat /\ Sent(p, k) \in Nat
        BY <1>1, Counts DEF TreeInv
      <4> QED
        BY <3>1, <4>2, <4>3, <4>4, <4>5, <4>6
    <3> QED
      BY <3>2, <3>3
  <2> QED
    BY <1>1, <2>1, <2>2 DEF TreeInv, Shape, TypeOK
<1> QED
  BY <1>1, Invariant, PTL

\* When every process is through its calls, every message has been received.
THEOREM AllReceived == Spec => []NothingLeftOver
<1>1. ASSUME TreeInv, \A r \in Ranks : pc[r] = "out" /\ calls[r] = Calls,
             NEW q \in Ranks
      PROVE  arrivals[q] = 0 /\ wakeups[q] = 0
  <2>1. arrivals[q] \in Nat /\ wakeups[q] \in Nat /\ Calls \in Nat
    BY <1>1, LoopAssumption DEF TreeInv, Shape
  <2>2. CASE q = 0
    BY <1>1, <2>2 DEF TreeInv, Arrivals, Wakeups
  <2>3. CASE q # 0
    <3>1. PICK p \in Ranks, k \in 0..3 : HaveChild(p, k) /\ q = ArrivalChild(p, k)
      BY <2>3, Parent
    <3>2. PICK o \in Ranks, j \in 0..1 : HasPointer(o, j) /\ q = ChildPointer(o, j)
      BY <2>3, Waker
    <3>3. /\ Told(q) = Calls /\ Awakened(q) = Calls
          /\ Gathered(p, k) = Calls /\ Sent(o, j) = Calls
      BY <1>1, <2>1 DEF Told, Awakened, Gathered, Sent
    <3>4. Told(q) = Gathered(p, k) + arrivals[q] /\ Sent(o, j) = Awakened(q) + wakeups[q]
      BY <1>1, <3>1, <3>2 DEF TreeInv, Arrivals, Wakeups
    <3> QED
      BY <2>1, <3>3, <3>4
  <2> QED
    BY <2>2, <2>3
<1>2. TreeInv => NothingLeftOver
  BY <1>1 DEF NothingLeftOver
<1> QED
  BY <1>2, Invariant, PTL

\* A step of a process is a step of the abstract barrier or changes nothing
\* that it shows.
LEMMA PromiseStep ==
    ASSUME TreeInv, [Next]_vars
    PROVE  [Promise!Next]_(Promise!bvars)
<1>1. Shape
  BY DEF TreeInv
<1>2. CASE UNCHANGED vars \/ Terminated
  BY <1>2 DEF Terminated, vars, Promise!bvars, Entered
<1>3. ASSUME NEW r \in Ranks, Enter(r)
      PROVE  Promise!Enter(r)
  <2>1. calls' = calls /\ pc[r] = "out" /\ calls[r] < Calls
    BY <1>3 DEF Enter, Goto
  <2>2. Entered' = [Entered EXCEPT ![r] = @ + 1]
    <3>1. Entered'[r] = Entered[r] + 1
      BY <1>1, <1>3, <2>1 DEF Entered, Enter, Goto, Shape
    <3>2. \A u \in Ranks \ {r} : Entered'[u] = Entered[u]
      BY <1>1, <1>3, <2>1 DEF Entered, Enter, Goto, Shape
    <3> QED
      BY <3>1, <3>2, Zenon DEF Entered
  <2> QED
    BY <1>1, <2>1, <2>2 DEF Promise!Enter, Entered, Shape
<1>4. ASSUME NEW r \in Ranks, Leave(r)
      PROVE  Promise!Return(r)
  <2>1. /\ Entered[r] = calls[r] + 1 /\ calls[r] < Entered[r]
        /\ Awakened(r) = calls[r] + 1
    BY <1>1, <1>4 DEF Entered, Awakened, Leave, Goto, Shape
  <2>2. \A u \in Ranks : Entered[u] >= Entered[r]
    <3>1. \A u \in Ranks : Awakened(r) <= Told(u) /\ Told(u) <= Entered[u]
      BY <1>1 DEF TreeInv, Agreement, Told, Entered, Shape
    <3>2. \A u \in Ranks : Told(u) \in Nat /\ Entered[u] \in Nat
      BY <1>1, Counts DEF Entered, Shape
    <3> QED
      BY <1>1, <2>1, <3>1, <3>2
  <2>3. Entered' = Entered
    BY <1>1, <1>4 DEF Entered, Leave, Goto, Shape
  <2> QED
    BY <1>4, <2>1, <2>2, <2>3 DEF Promise!Return, Leave
<1>5. ASSUME NEW r \in Ranks,
             \/ Gather(r) \/ Root(r) \/ Report(r) \/ Reported(r)
             \/ Awake(r) \/ Wake(r) \/ Woken(r)
      PROVE  UNCHANGED Promise!bvars
  <2>1. calls' = calls
    BY <1>5 DEF Gather, Root, Report, Reported, Awake, Wake, Woken
  <2>2. \A u \in Ranks : (pc'[u] = "out") <=> (pc[u] = "out")
    BY <1>1, <1>5 DEF Gather, Root, Report, Reported, Awake, Wake, Woken, Goto, Shape
  <2> QED
    BY <2>1, <2>2 DEF Promise!bvars, Entered
<1> QED
  BY <1>2, <1>3, <1>4, <1>5 DEF Next, Step, Promise!Next

\* mcs.c is a barrier for every number of processes, although arrivals climb
\* one tree and wakeups descend another, and whatever MPI_Send waits for.
THEOREM Refinement == Spec => Refines
<1>1. Init => Promise!Init
  BY DEF Init, Promise!Init, Entered
<1> QED
  BY <1>1, PromiseStep, Invariant, PTL DEF Spec, Refines, Promise!Spec
-----------------------------------------------------------------------------
(* The waits *)

\* The next step of a process is not a wait, or what it waits for is there.  A
\* send may wait for its receiver.
CanGo(r) ==
    \/ pc[r] = "out" /\ calls[r] < Calls
    \/ pc[r] = "gather" /\ i[r] = 4
    \/ /\ pc[r] = "gather" /\ i[r] < 4
       /\ HaveChild(r, i[r]) => arrivals[ArrivalChild(r, i[r])] > 0
    \/ pc[r] = "report" /\ arrivals[r] = 0
    \/ pc[r] = "sleep" /\ wakeups[r] > 0
    \/ pc[r] = "wake"
    \/ pc[r] = "waking" /\ wakeups[ChildPointer(r, i[r])] = 0

Done(r) == pc[r] = "out" /\ calls[r] = Calls

NotStuck == (\A r \in Ranks : Done(r)) \/ \E r \in Ranks : CanGo(r)

\* A child that is not awake is not waited for in vain: it has told everybody,
\* its arrival has been gathered, and so it sleeps or is about to.
LEMMA NobodyAwake ==
    ASSUME TreeInv, NEW r \in Ranks, pc[r] = "waking"
    PROVE  CanGo(r) \/ CanGo(ChildPointer(r, i[r]))
<1> DEFINE c == ChildPointer(r, i[r])
<1>1. Shape /\ Arrivals /\ Wakeups /\ Agreement
  BY DEF TreeInv
<1>2. i[r] \in 0..1 /\ HasPointer(r, i[r]) /\ calls[r] \in Nat
  BY <1>1, LoopAssumption DEF Shape
<1>3. c \in Ranks \ {0}
  BY <1>2, Children
<1> HIDE DEF c
<1>4. SUFFICES ASSUME wakeups[c] # 0 PROVE CanGo(c)
  BY DEF CanGo, c
<1>5. wakeups[c] \in Nat /\ Told(c) \in Nat /\ Awakened(c) \in Nat
  BY <1>1, <1>3, Counts DEF Shape
<1>6. calls[r] + 1 = Awakened(c) + wakeups[c]
  <2>1. Sent(r, i[r]) = Awakened(c) + wakeups[c]
    BY <1>1, <1>2 DEF Wakeups, c
  <2>2. Sent(r, i[r]) = calls[r] + 1
    BY <1>2 DEF Sent
  <2> QED
    BY <2>1, <2>2
<1>7. \A q \in Ranks : calls[r] + 1 <= Told(q)
  <2>1. Awakened(r) = calls[r] + 1
    BY DEF Awakened
  <2> QED
    BY <1>1, <2>1 DEF Agreement
<1>8. Awakened(c) <= calls[r] /\ calls[r] + 1 <= Told(c)
  BY <1>2, <1>3, <1>4, <1>5, <1>6, <1>7
<1>9. pc[c] \in {"report", "sleep"} /\ Told(c) = Awakened(c) + 1
  BY <1>1, <1>2, <1>3, <1>5, <1>8, LoopAssumption DEF Told, Awakened, Shape
<1>10. CASE pc[c] = "sleep"
  BY <1>4, <1>5, <1>10 DEF CanGo
<1>11. CASE pc[c] = "report"
  <2>1. PICK p \in Ranks, k \in 0..3 : HaveChild(p, k) /\ c = ArrivalChild(p, k)
    BY <1>3, Parent
  <2>2. Told(p) <= Gathered(p, k)
    BY <2>1, GatheredFirst
  <2>3. Told(c) = Gathered(p, k) + arrivals[c]
    BY <1>1, <2>1 DEF Arrivals
  <2>4. calls[r] + 1 <= Told(p) /\ Told(p) \in Nat /\ Gathered(p, k) \in Nat
        /\ arrivals[c] \in Nat
    BY <1>1, <1>3, <1>7, Counts DEF Shape
  <2>5. arrivals[c] = 0
    BY <1>2, <1>5, <1>8, <1>9, <2>2, <2>3, <2>4
  <2> QED
    BY <1>11, <2>5 DEF CanGo
<1> QED
  BY <1>9, <1>10, <1>11

\* What is known of a state that is stuck: all who are not done are in their
\* call and gather, report or sleep.
LEMMA StuckShape ==
    ASSUME TreeInv, \A u \in Ranks : ~CanGo(u), NEW r \in Ranks
    PROVE  /\ calls[r] \in 0..Calls /\ Calls \in Nat
           /\ Done(r) \/ pc[r] \in {"gather", "report", "sleep"}
           /\ Done(r) => calls[r] = Calls /\ pc[r] = "out"
           /\ ~Done(r) => calls[r] < Calls
           /\ Awakened(r) = calls[r]
           /\ pc[r] = "gather" => i[r] \in 0..3
<1>1. Shape
  BY DEF TreeInv
<1>2. calls[r] \in 0..Calls /\ Calls \in Nat
  BY <1>1, LoopAssumption DEF Shape
<1>3. pc[r] # "waking"
  <2>1. SUFFICES ASSUME pc[r] = "waking" PROVE FALSE
    OBVIOUS
  <2>2. ChildPointer(r, i[r]) \in Ranks
    BY <1>1, <2>1, Children DEF Shape
  <2> QED
    BY <2>1, <2>2, NobodyAwake
<1>4. pc[r] # "wake"
  BY DEF CanGo
<1>5. Done(r) \/ pc[r] \in {"gather", "report", "sleep"}
  BY <1>1, <1>2, <1>3, <1>4 DEF Shape, CanGo, Done
<1>6. Awakened(r) = calls[r]
  BY <1>2, <1>3, <1>4 DEF Awakened
<1>7. pc[r] = "gather" => i[r] \in 0..3
  BY <1>1 DEF Shape, CanGo
<1>8. ~Done(r) => calls[r] < Calls
  BY <1>1, <1>5 DEF Shape
<1> QED
  BY <1>2, <1>5, <1>6, <1>7, <1>8 DEF Done

\* In a state that is stuck nobody gathers in the earliest call: of those who
\* do, the last rank would wait for a child in an earlier call.
LEMMA NobodyGathers ==
    ASSUME TreeInv, \A u \in Ranks : ~CanGo(u), NEW e \in Nat, e < Calls,
           \A u \in Ranks : ~Done(u) => e <= calls[u]
    PROVE  \A r \in Ranks : pc[r] = "gather" => calls[r] # e
<1> DEFINE G == {r \in Ranks : pc[r] = "gather" /\ calls[r] = e}
           T == {numProcesses - r : r \in G}
<1>1. Shape /\ Arrivals
  BY DEF TreeInv
<1>2. SUFFICES ASSUME G # {} PROVE FALSE
  OBVIOUS
<1>3. T \in SUBSET Nat /\ T # {}
  BY <1>2, ProcessesAssumption DEF Ranks
<1>4. PICK m \in T : \A x \in T : m <= x
  BY <1>3, LeastNatural
<1>5. PICK r \in G : m = numProcesses - r
  BY <1>4
<1>6. ASSUME NEW u \in G PROVE u <= r
  <2>1. m <= numProcesses - u
    BY <1>4
  <2> QED
    BY <1>5, <2>1, ProcessesAssumption DEF Ranks
<1>7. /\ r \in Ranks /\ pc[r] = "gather" /\ calls[r] = e /\ i[r] \in 0..3
      /\ HaveChild(r, i[r])
      /\ ~(arrivals[ArrivalChild(r, i[r])] > 0)
  <2>1. r \in Ranks /\ pc[r] = "gather" /\ calls[r] = e
    BY <1>5
  <2>2. i[r] \in 0..3
    BY <2>1, StuckShape
  <2> QED
    BY <2>1, <2>2 DEF CanGo
<1> HIDE DEF G, T
<1> DEFINE c == ArrivalChild(r, i[r])
<1>8. c \in Ranks /\ c > r
  <2>1. c \in Ranks
    BY <1>7, Children
  <2> QED
    BY <1>7, <2>1, ProcessesAssumption DEF ArrivalChild, Ranks
<1>9. Told(c) = e
  <2>1. Told(c) = Gathered(r, i[r]) + arrivals[c] /\ arrivals[c] \in Nat
    BY <1>1, <1>7, <1>8 DEF Arrivals, Shape
  <2>2. Gathered(r, i[r]) = e
    BY <1>7 DEF Gathered
  <2> QED
    BY <1>7, <2>1, <2>2
<1> HIDE DEF c
<1>10. /\ calls[c] \in 0..Calls /\ Calls \in Nat
       /\ Done(c) \/ pc[c] \in {"gather", "report", "sleep"}
       /\ Done(c) => calls[c] = Calls /\ pc[c] = "out"
  BY <1>8, StuckShape
<1>11. CASE Done(c)
  BY <1>9, <1>10, <1>11 DEF Told
<1>12. CASE pc[c] = "gather"
  <2>1. calls[c] = e
    BY <1>9, <1>10, <1>12 DEF Told
  <2>2. c \in G
    BY <1>8, <1>12, <2>1 DEF G
  <2> QED
    BY <1>6, <1>7, <1>8, <2>2 DEF Ranks
<1>13. CASE pc[c] \in {"report", "sleep"}
  <2>1. calls[c] + 1 = e
    BY <1>9, <1>10, <1>13 DEF Told
  <2>2. ~Done(c)
    BY <1>13 DEF Done
  <2> QED
    BY <1>8, <1>10, <2>1, <2>2
<1> QED
  BY <1>10, <1>11, <1>12, <1>13

\* Nor does anybody report: its parent would gather in that call.
LEMMA NobodyReports ==
    ASSUME TreeInv, \A u \in Ranks : ~CanGo(u), NEW e \in Nat, e < Calls,
           \A u \in Ranks : ~Done(u) => e <= calls[u]
    PROVE  \A r \in Ranks : pc[r] = "report" => calls[r] # e
<1>1. Shape /\ Arrivals
  BY DEF TreeInv
<1>2. SUFFICES ASSUME NEW r \in Ranks, pc[r] = "report", calls[r] = e PROVE FALSE
  OBVIOUS
<1>3. arrivals[r] \in Nat /\ arrivals[r] # 0 /\ r # 0
  BY <1>1, <1>2 DEF Shape, CanGo
<1>4. PICK p \in Ranks, k \in 0..3 : HaveChild(p, k) /\ r = ArrivalChild(p, k)
  BY <1>3, Parent
<1>5. e + 1 = Gathered(p, k) + arrivals[r] /\ Gathered(p, k) \in Nat
  <2>1. Told(r) = Gathered(p, k) + arrivals[r]
    BY <1>1, <1>4 DEF Arrivals
  <2>2. Told(r) = e + 1
    BY <1>2 DEF Told
  <2> QED
    BY <1>1, <1>4, <2>1, <2>2, Counts
<1>6. Gathered(p, k) <= e
  BY <1>3, <1>5
<1>7. /\ calls[p] \in 0..Calls /\ Calls \in Nat
      /\ Done(p) \/ pc[p] \in {"gather", "report", "sleep"}
      /\ Done(p) => calls[p] = Calls /\ pc[p] = "out"
      /\ ~Done(p) => e <= calls[p]
  BY <1>4, StuckShape
<1>8. pc[p] = "gather" /\ calls[p] = e
  BY <1>6, <1>7 DEF Gathered
<1> QED
  BY <1>4, <1>8, NobodyGathers

\* Until all calls have ended some process can go on, for any number of
\* processes and although every MPI_Send may wait for its receiver: else all of
\* the earliest call would sleep, and the first of them would have a waker in
\* an earlier call.
THEOREM DeadlockFree == Spec => []NotStuck
<1>1. ASSUME TreeInv PROVE NotStuck
  <2>1. Shape /\ Wakeups
    BY <1>1 DEF TreeInv
  <2>2. SUFFICES ASSUME NEW t \in Ranks, ~Done(t), \A u \in Ranks : ~CanGo(u)
                 PROVE  FALSE
    BY DEF NotStuck
  <2>3. \A u \in Ranks : calls[u] \in Nat
    BY <2>1, LoopAssumption DEF Shape
  <2> DEFINE C == {calls[u] : u \in {v \in Ranks : ~Done(v)}}
  <2>4. C \in SUBSET Nat /\ C # {}
    BY <2>2, <2>3
  <2>5. PICK e \in C : \A x \in C : e <= x
    BY <2>4, LeastNatural
  <2>6. PICK q \in Ranks : ~Done(q) /\ calls[q] = e
    BY <2>5
  <2>7. \A u \in Ranks : ~Done(u) => e <= calls[u]
    BY <2>5
  <2> HIDE DEF C
  <2>8. e \in Nat /\ e < Calls
    BY <1>1, <2>2, <2>3, <2>6, StuckShape
  <2>9. \A r \in Ranks : ~Done(r) /\ calls[r] = e => pc[r] = "sleep"
    <3>1. ASSUME NEW r \in Ranks, ~Done(r), calls[r] = e PROVE pc[r] = "sleep"
      <4>1. pc[r] \in {"gather", "report", "sleep"}
        BY <1>1, <2>2, <3>1, StuckShape
      <4>2. pc[r] # "gather"
        BY <1>1, <2>2, <2>7, <2>8, <3>1, NobodyGathers
      <4>3. pc[r] # "report"
        BY <1>1, <2>2, <2>7, <2>8, <3>1, NobodyReports
      <4> QED
        BY <4>1, <4>2, <4>3
    <3> QED
      BY <3>1
  <2> DEFINE S == {r \in Ranks : ~Done(r) /\ calls[r] = e}
  <2>10. S \in SUBSET Nat /\ S # {}
    BY <2>6 DEF Ranks
  <2>11. PICK r \in S : \A x \in S : r <= x
    BY <2>10, LeastNatural
  <2>12. r \in Ranks /\ calls[r] = e /\ pc[r] = "sleep" /\ r # 0 /\ wakeups[r] = 0
    <3>1. r \in Ranks /\ calls[r] = e /\ pc[r] = "sleep"
      BY <2>9, <2>11
    <3> QED
      BY <2>1, <2>2, <3>1 DEF Shape, CanGo
  <2>13. \A u \in Ranks : ~Done(u) /\ calls[u] = e => r <= u
    BY <2>11
  <2> HIDE DEF S
  <2>14. PICK p \in Ranks, k \in 0..1 : HasPointer(p, k) /\ r = ChildPointer(p, k)
    BY <2>12, Waker
  <2>15. p < r
    BY <2>12, <2>14 DEF ChildPointer, Ranks
  <2>16. Sent(p, k) = e
    <3>1. Sent(p, k) = Awakened(r) + wakeups[r]
      BY <2>1, <2>14 DEF Wakeups
    <3>2. Awakened(r) = e
      BY <2>3, <2>12 DEF Awakened
    <3> QED
      BY <2>8, <2>12, <3>1, <3>2
  <2>17. /\ calls[p] \in Nat
         /\ Done(p) \/ pc[p] \in {"gather", "report", "sleep"}
         /\ Done(p) => calls[p] = Calls /\ pc[p] = "out"
    BY <1>1, <2>2, <2>3, StuckShape
  <2>18. calls[p] = e
    BY <2>16, <2>17 DEF Sent
  <2>19. ~Done(p)
    BY <2>8, <2>17, <2>18
  <2> QED
    BY <2>12, <2>13, <2>15, <2>18, <2>19 DEF Ranks
<1> QED
  BY <1>1, Invariant, PTL
=============================================================================
