---------------------- MODULE CentralizedBarrier_proofs ----------------------
(***************************************************************************)
(* Type correctness, the exact count, the implementation of Barrier by     *)
(* CentralizedBarrier and that its waits never all block, for any number   *)
(* of threads and of calls.                                                *)
(***************************************************************************)
EXTENDS CentralizedBarrier, FiniteSetTheorems, TLAPS

\* The threads that are counted in the current episode of the barrier.
Counted == {t \in Threads : /\ pc[t] \in {"spin", "reset", "invert"}
                            /\ localsense[t] # globalsense}

\* The thread has left or may leave episode g and has not entered the next.
Released(t, g) ==
    /\ pc[t] \in {"out", "spin"}
    /\ calls[t] + (IF pc[t] = "out" THEN 0 ELSE 1) = g
    /\ localsense[t] = globalsense

\* The thread is in its call number g + 1.
Arriving(t, g) ==
    /\ pc[t] # "out"
    /\ calls[t] = g
    /\ localsense[t] # globalsense

Inside(t) == pc[t] \in {"load", "store", "reset", "invert"}

\* g episodes are over.
Phase(g) == \A t \in Threads : Released(t, g) \/ Arriving(t, g)

Guarded ==
    /\ \A t \in Threads : Inside(t) <=> critical = t
    /\ \A t \in Threads : pc[t] = "store" => loaded[t] = count

Exact ==
    /\ (\A t \in Threads : pc[t] # "invert") =>
            count = num_threads - Cardinality(Counted)
    /\ \A t \in Threads : pc[t] = "invert" => count = num_threads
    /\ \A t \in Threads : pc[t] \in {"reset", "invert"} => Counted = Threads

\* The inductive invariant.
BarrierInv == TypeOK /\ Guarded /\ Exact /\ \E g \in 0..Calls : Phase(g)
-----------------------------------------------------------------------------
LEMMA ThreadsFinite ==
    /\ IsFiniteSet(Threads)
    /\ Cardinality(Threads) = num_threads
<1>1. 0 \in Int /\ num_threads - 1 \in Int
  BY ThreadsAssumption
<1>2. IsFiniteSet(Threads) /\ Cardinality(Threads)
        = IF 0 > num_threads - 1 THEN 0 ELSE num_threads - 1 - 0 + 1
  BY <1>1, FS_Interval DEF Threads
<1> QED
  BY <1>2, ThreadsAssumption

\* A thread outside a set of counted threads leaves room for itself.
LEMMA CountOneMore ==
    ASSUME NEW S \in SUBSET Threads, NEW t \in Threads, t \notin S
    PROVE  /\ Cardinality(S) \in Nat
           /\ Cardinality(S) < num_threads
           /\ Cardinality(S \cup {t}) = Cardinality(S) + 1
           /\ Cardinality(S \cup {t}) = num_threads => S \cup {t} = Threads
<1>1. IsFiniteSet(S) /\ IsFiniteSet(S \cup {t})
  BY ThreadsFinite, FS_Subset, FS_AddElement
<1>2. Cardinality(S) \in Nat /\ Cardinality(S \cup {t}) = Cardinality(S) + 1
  BY <1>1, FS_CardinalityType, FS_AddElement
<1>3. S \cup {t} \subseteq Threads
  OBVIOUS
<1>4. Cardinality(S \cup {t}) <= num_threads
  BY <1>3, ThreadsFinite, FS_Subset
<1>5. Cardinality(S \cup {t}) = num_threads => S \cup {t} = Threads
  BY <1>3, ThreadsFinite, FS_Subset
<1> QED
  BY <1>2, <1>4, <1>5, ThreadsAssumption
-----------------------------------------------------------------------------
LEMMA InitHolds == Init => BarrierInv
<1>1. SUFFICES ASSUME Init PROVE BarrierInv
  OBVIOUS
<1>2. Counted = {} /\ Waiting = {}
  BY <1>1 DEF Init, Counted, Waiting
<1>3. Cardinality({}) = 0
  BY FS_EmptySet
<1>4. TypeOK
  BY <1>1, ThreadsAssumption, LoopAssumption DEF Init, TypeOK
<1>5. Guarded
  BY <1>1, NobodyAssumption DEF Init, Guarded, Inside
<1>6. Exact
  BY <1>1, <1>2, <1>3, ThreadsAssumption DEF Init, Exact
<1>7. Phase(0) /\ 0 \in 0..Calls
  BY <1>1, LoopAssumption DEF Init, Phase, Released
<1> QED
  BY <1>4, <1>5, <1>6, <1>7 DEF BarrierInv

LEMMA FlipHolds ==
    ASSUME BarrierInv, NEW t \in Threads, Flip(t)
    PROVE  BarrierInv'
<1>1. PICK g \in 0..Calls : Phase(g)
  BY DEF BarrierInv
<1>2. TypeOK /\ Guarded /\ Exact
  BY DEF BarrierInv
<1>3. TypeOK'
  BY <1>2, LoopAssumption DEF TypeOK, Flip, Goto
<1>4. Counted' = Counted
  BY <1>2 DEF Counted, Flip, Goto, TypeOK
<1>5. Guarded'
  BY <1>2 DEF Guarded, Inside, Flip, Goto, TypeOK
<1>6. Exact'
  BY <1>2, <1>4 DEF Exact, Flip, Goto, TypeOK
<1>7. Phase(g)'
  <2>1. Released(t, g) /\ calls[t] = g
    BY <1>1, <1>2, LoopAssumption DEF Phase, Released, Arriving, Flip, Goto, TypeOK
  <2>2. Arriving(t, g)'
    BY <2>1, <1>2 DEF Released, Arriving, Flip, Goto, TypeOK
  <2>3. ASSUME NEW u \in Threads, u # t
        PROVE  Released(u, g)' \/ Arriving(u, g)'
    BY <1>1, <1>2, <2>3 DEF Phase, Released, Arriving, Flip, Goto, TypeOK
  <2> QED
    BY <2>2, <2>3 DEF Phase
<1>8. g \in 0..Calls'
  BY DEF Flip
<1> QED
  BY <1>3, <1>5, <1>6, <1>7 DEF BarrierInv

LEMMA EnterHolds ==
    ASSUME BarrierInv, NEW t \in Threads, EnterCritical(t)
    PROVE  BarrierInv'
<1>1. PICK g \in 0..Calls : Phase(g)
  BY DEF BarrierInv
<1>2. TypeOK /\ Guarded /\ Exact
  BY DEF BarrierInv
<1>3. TypeOK'
  BY <1>2, ThreadsAssumption DEF TypeOK, Guarded, EnterCritical, Goto
<1>4. Counted' = Counted
  BY <1>2 DEF Counted, EnterCritical, Goto, TypeOK
<1>5. Guarded'
  BY <1>2, NobodyAssumption DEF Guarded, Inside, EnterCritical, Goto, TypeOK
<1>6. Exact'
  BY <1>2, <1>4 DEF Exact, EnterCritical, Goto, TypeOK
<1>7. Phase(g)'
  BY <1>1, <1>2 DEF Phase, Released, Arriving, EnterCritical, Goto, TypeOK
<1> QED
  BY <1>3, <1>5, <1>6, <1>7 DEF BarrierInv

LEMMA LoadHolds ==
    ASSUME BarrierInv, NEW t \in Threads, LoadCount(t)
    PROVE  BarrierInv'
<1>1. PICK g \in 0..Calls : Phase(g)
  BY DEF BarrierInv
<1>2. TypeOK /\ Guarded /\ Exact
  BY DEF BarrierInv
<1>3. TypeOK'
  BY <1>2, ThreadsAssumption DEF TypeOK, Guarded, LoadCount, Goto
<1>4. Counted' = Counted
  BY <1>2 DEF Counted, LoadCount, Goto, TypeOK
<1>5. Guarded'
  BY <1>2, NobodyAssumption DEF Guarded, Inside, LoadCount, Goto, TypeOK
<1>6. Exact'
  BY <1>2, <1>4 DEF Exact, LoadCount, Goto, TypeOK
<1>7. Phase(g)'
  BY <1>1, <1>2 DEF Phase, Released, Arriving, LoadCount, Goto, TypeOK
<1> QED
  BY <1>3, <1>5, <1>6, <1>7 DEF BarrierInv

LEMMA StoreHolds ==
    ASSUME BarrierInv, NEW t \in Threads, StoreCount(t)
    PROVE  BarrierInv'
<1>1. PICK g \in 0..Calls : Phase(g)
  BY DEF BarrierInv
<1>2. TypeOK /\ Guarded /\ Exact
  BY DEF BarrierInv
<1>3. pc[t] = "store" /\ critical = t /\ loaded[t] = count
  BY <1>2 DEF StoreCount, Goto, Guarded, Inside
<1>4. \A u \in Threads \ {t} : pc[u] \notin {"load", "store", "reset", "invert"}
  BY <1>2, <1>3 DEF Guarded, Inside
<1>5. Arriving(t, g)
  BY <1>1, <1>3 DEF Phase, Released
<1>6. t \notin Counted /\ Counted \in SUBSET Threads
  BY <1>3 DEF Counted
<1>7. pc' = [pc EXCEPT ![t] = "reset"] \/ pc' = [pc EXCEPT ![t] = "spin"]
  BY DEF StoreCount, Goto
<1>8. Counted' = Counted \cup {t}
  BY <1>2, <1>5, <1>7 DEF Counted, StoreCount, Arriving, TypeOK
<1>9. count = num_threads - Cardinality(Counted)
  BY <1>2, <1>3, <1>4 DEF Exact
<1>10. count' = count - 1
  BY <1>3 DEF StoreCount
<1>11. /\ count' = num_threads - Cardinality(Counted')
       /\ count' \in 0..num_threads
       /\ count' = 0 => Counted' = Threads
  BY <1>6, <1>8, <1>9, <1>10, CountOneMore, ThreadsAssumption
<1>12. TypeOK'
  BY <1>2, <1>7, <1>11 DEF TypeOK, StoreCount, Goto
<1>13. Guarded'
  BY <1>2, <1>3, <1>4, <1>7, NobodyAssumption DEF Guarded, Inside, StoreCount, Goto, TypeOK
<1>14. Exact'
  <2>1. \A u \in Threads : pc'[u] # "invert"
    BY <1>2, <1>4, <1>7 DEF TypeOK
  <2>2. ASSUME NEW u \in Threads, pc'[u] = "reset"
        PROVE  Counted' = Threads
    <3>1. u = t /\ pc' = [pc EXCEPT ![t] = "reset"]
      BY <1>2, <1>3, <1>4, <1>7, <2>2 DEF TypeOK
    <3>2. count' = 0
      BY <3>1, <1>2 DEF StoreCount, Goto, TypeOK
    <3> QED
      BY <3>2, <1>11
  <2> QED
    BY <1>11, <2>1, <2>2 DEF Exact
<1>15. Phase(g)'
  BY <1>1, <1>2, <1>5, <1>7 DEF Phase, Released, Arriving, StoreCount, TypeOK
<1> QED
  BY <1>12, <1>13, <1>14, <1>15 DEF BarrierInv

LEMMA ResetHolds ==
    ASSUME BarrierInv, NEW t \in Threads, ResetCount(t)
    PROVE  BarrierInv'
<1>1. PICK g \in 0..Calls : Phase(g)
  BY DEF BarrierInv
<1>2. TypeOK /\ Guarded /\ Exact
  BY DEF BarrierInv
<1>3. critical = t /\ \A u \in Threads \ {t} : ~Inside(u)
  BY <1>2 DEF ResetCount, Goto, Guarded, Inside
<1>4. TypeOK'
  BY <1>2, ThreadsAssumption DEF TypeOK, ResetCount, Goto
<1>5. Counted' = Counted /\ Counted = Threads
  BY <1>2 DEF Counted, ResetCount, Goto, TypeOK, Exact
<1>6. Guarded'
  BY <1>2, <1>3 DEF Guarded, Inside, ResetCount, Goto, TypeOK
<1>7. Exact'
  BY <1>2, <1>5 DEF Exact, ResetCount, Goto, TypeOK
<1>8. Phase(g)'
  BY <1>1, <1>2 DEF Phase, Released, Arriving, ResetCount, Goto, TypeOK
<1> QED
  BY <1>4, <1>6, <1>7, <1>8 DEF BarrierInv

LEMMA InvertHolds ==
    ASSUME BarrierInv, NEW t \in Threads, InvertGlobalsense(t)
    PROVE  BarrierInv'
<1>1. PICK g \in 0..Calls : Phase(g)
  BY DEF BarrierInv
<1>2. TypeOK /\ Guarded /\ Exact
  BY DEF BarrierInv
<1>3. pc[t] = "invert" /\ critical = t /\ \A u \in Threads \ {t} : ~Inside(u)
  BY <1>2 DEF InvertGlobalsense, Goto, Guarded, Inside
<1>4. count = num_threads /\ Counted = Threads
  BY <1>2, <1>3 DEF Exact
<1>5. \A u \in Threads : Arriving(u, g)
  BY <1>1, <1>4 DEF Phase, Released, Counted
<1>6. \A u \in Threads : pc'[u] = "spin" /\ localsense'[u] = globalsense'
  <2>1. \A u \in Threads : pc'[u] = "spin"
    BY <1>2, <1>3, <1>4 DEF Counted, Inside, InvertGlobalsense, Goto, TypeOK
  <2>2. \A u \in Threads : localsense[u] = 1 - globalsense
    BY <1>2, <1>5 DEF Arriving, TypeOK
  <2> QED
    BY <2>1, <2>2 DEF InvertGlobalsense
<1>7. TypeOK'
  BY <1>2, <1>5, <1>6 DEF TypeOK, InvertGlobalsense, Goto
<1>8. Guarded'
  BY <1>6, NobodyAssumption DEF Guarded, Inside, InvertGlobalsense
<1>9. Exact'
  <2>1. Counted' = {}
    BY <1>6 DEF Counted
  <2>2. count' = num_threads - Cardinality(Counted')
    BY <1>4, <2>1, FS_EmptySet, ThreadsAssumption DEF InvertGlobalsense
  <2> QED
    BY <1>6, <2>2 DEF Exact
<1>10. g + 1 \in 0..Calls
  <2>1. calls[t] = g /\ calls[t] < Calls
    BY <1>2, <1>5 DEF Arriving, TypeOK
  <2> QED
    BY <2>1, LoopAssumption
<1>11. Phase(g + 1)'
  BY <1>5, <1>6 DEF Phase, Released, Arriving, InvertGlobalsense
<1> QED
  BY <1>7, <1>8, <1>9, <1>10, <1>11 DEF BarrierInv

LEMMA LeaveHolds ==
    ASSUME BarrierInv, NEW t \in Threads, Leave(t)
    PROVE  BarrierInv'
<1>1. PICK g \in 0..Calls : Phase(g)
  BY DEF BarrierInv
<1>2. TypeOK /\ Guarded /\ Exact
  BY DEF BarrierInv
<1>3. Released(t, g)
  BY <1>1 DEF Phase, Arriving, Leave
<1>4. TypeOK'
  BY <1>2, LoopAssumption DEF TypeOK, Leave, Goto
<1>5. Counted' = Counted
  BY <1>2 DEF Counted, Leave, Goto, TypeOK
<1>6. Guarded'
  BY <1>2 DEF Guarded, Inside, Leave, Goto, TypeOK
<1>7. Exact'
  BY <1>2, <1>5 DEF Exact, Leave, Goto, TypeOK
<1>8. Phase(g)'
  <2>1. Released(t, g)'
    BY <1>2, <1>3 DEF Released, Leave, Goto, TypeOK
  <2>2. ASSUME NEW u \in Threads, u # t
        PROVE  Released(u, g)' \/ Arriving(u, g)'
    BY <1>1, <1>2, <2>2 DEF Phase, Released, Arriving, Leave, Goto, TypeOK
  <2> QED
    BY <2>1, <2>2 DEF Phase
<1> QED
  BY <1>4, <1>6, <1>7, <1>8 DEF BarrierInv

LEMMA StutterHolds == BarrierInv /\ UNCHANGED vars => BarrierInv'
<1>1. SUFFICES ASSUME BarrierInv, UNCHANGED vars PROVE BarrierInv'
  OBVIOUS
<1>2. PICK g \in 0..Calls : Phase(g)
  BY <1>1 DEF BarrierInv
<1>3. Counted' = Counted
  BY <1>1 DEF Counted, vars
<1>4. TypeOK' /\ Guarded' /\ Exact'
  BY <1>1, <1>3 DEF BarrierInv, TypeOK, Guarded, Inside, Exact, vars
<1>5. Phase(g)'
  BY <1>1, <1>2 DEF Phase, Released, Arriving, vars
<1> QED
  BY <1>4, <1>5 DEF BarrierInv
-----------------------------------------------------------------------------
\* The strengthened invariant: the critical section excludes, count is the
\* number of threads that are missing, and all are in one of two episodes.
THEOREM Invariant == Spec => []BarrierInv
<1>1. BarrierInv /\ [Next]_vars => BarrierInv'
  <2>1. SUFFICES ASSUME BarrierInv, [Next]_vars PROVE BarrierInv'
    OBVIOUS
  <2>2. CASE UNCHANGED vars
    BY <2>1, <2>2, StutterHolds
  <2>3. CASE Terminated
    BY <2>1, <2>3, StutterHolds DEF Terminated
  <2>4. ASSUME NEW t \in Threads, Step(t) PROVE BarrierInv'
    BY <2>1, <2>4, FlipHolds, EnterHolds, LoadHolds, StoreHolds, ResetHolds,
       InvertHolds, LeaveHolds DEF Step
  <2> QED
    BY <2>1, <2>2, <2>3, <2>4 DEF Next
<1> QED
  BY <1>1, InitHolds, PTL DEF Spec

\* Every variable keeps its type: count never leaves 0..num_threads.
THEOREM TypeCorrect == Spec => []TypeOK
<1>1. BarrierInv => TypeOK
  BY DEF BarrierInv
<1> QED
  BY <1>1, Invariant, PTL

\* The count of centralized.c:23-31 is exact whenever the critical section
\* is free: no arrival is lost, none is counted in the wrong episode.
THEOREM CountCorrect == Spec => []CountIsExact
<1>1. BarrierInv => CountIsExact
  <2>1. SUFFICES ASSUME BarrierInv, critical = Nobody
                 PROVE  count = num_threads - Cardinality(Waiting)
    BY DEF CountIsExact
  <2>2. \A t \in Threads : ~Inside(t)
    BY <2>1, NobodyAssumption DEF BarrierInv, Guarded
  <2>3. Counted = Waiting
    BY <2>2 DEF Counted, Waiting, Inside
  <2> QED
    BY <2>1, <2>2, <2>3 DEF BarrierInv, Exact, Inside
<1> QED
  BY <1>1, Invariant, PTL

\* A step of a thread is a step of the abstract barrier or changes nothing
\* that it shows.
LEMMA PromiseStep ==
    ASSUME BarrierInv, [Next]_vars
    PROVE  [Promise!Next]_(Promise!bvars)
<1>1. PICK g \in 0..Calls : Phase(g)
  BY DEF BarrierInv
<1>2. TypeOK
  BY DEF BarrierInv
<1>3. CASE UNCHANGED vars
  BY <1>3 DEF vars, Promise!bvars, Entered
<1>4. CASE Terminated
  BY <1>4 DEF Terminated, vars, Promise!bvars, Entered
<1>5. ASSUME NEW t \in Threads, Flip(t)
      PROVE  Promise!Enter(t)
  <2>1. calls' = calls /\ pc[t] = "out" /\ calls[t] < Calls
    BY <1>5 DEF Flip, Goto
  <2>2. Entered' = [Entered EXCEPT ![t] = @ + 1]
    <3>1. Entered'[t] = Entered[t] + 1
      BY <1>2, <1>5, <2>1 DEF Entered, Flip, Goto, TypeOK
    <3>2. \A u \in Threads \ {t} : Entered'[u] = Entered[u]
      BY <1>2, <1>5, <2>1 DEF Entered, Flip, Goto, TypeOK
    <3> QED
      BY <3>1, <3>2, Zenon DEF Entered
  <2> QED
    BY <1>2, <2>1, <2>2 DEF Promise!Enter, Entered, TypeOK
<1>6. ASSUME NEW t \in Threads, Leave(t)
      PROVE  Promise!Return(t)
  <2>1. Released(t, g) /\ pc[t] = "spin"
    BY <1>1, <1>6 DEF Phase, Arriving, Leave, Goto
  <2>2. Entered[t] = g /\ calls[t] < Entered[t]
    BY <1>2, <2>1 DEF Released, Entered, TypeOK
  <2>3. \A u \in Threads : Entered[u] >= g
    BY <1>1, <1>2 DEF Phase, Released, Arriving, Entered, TypeOK
  <2>4. Entered' = Entered
    BY <1>2, <1>6 DEF Entered, Leave, Goto, TypeOK
  <2> QED
    BY <1>6, <2>2, <2>3, <2>4 DEF Promise!Return, Leave
<1>7. ASSUME NEW t \in Threads,
             \/ EnterCritical(t) \/ LoadCount(t) \/ StoreCount(t)
             \/ ResetCount(t) \/ InvertGlobalsense(t)
      PROVE  UNCHANGED Promise!bvars
  <2>1. calls' = calls
    BY <1>7 DEF EnterCritical, LoadCount, StoreCount, ResetCount, InvertGlobalsense
  <2>2. \A u \in Threads : (pc'[u] = "out") <=> (pc[u] = "out")
    BY <1>2, <1>7 DEF EnterCritical, LoadCount, StoreCount, ResetCount,
       InvertGlobalsense, Goto, TypeOK
  <2> QED
    BY <2>1, <2>2 DEF Promise!bvars, Entered
<1> QED
  BY <1>3, <1>4, <1>5, <1>6, <1>7 DEF Next, Step, Promise!Next

\* centralized.c is a barrier: nobody is released before all have arrived,
\* in any of its episodes and for any interleaving of the threads.
THEOREM Refinement == Spec => Refines
<1>1. Init => Promise!Init
  BY DEF Init, Promise!Init, Entered
<1> QED
  BY <1>1, PromiseStep, Invariant, PTL DEF Spec, Refines, Promise!Spec
-----------------------------------------------------------------------------
(* The waits *)

\* The next step of a thread is not a wait, or what it waits for is there.
CanGo(t) ==
    \/ pc[t] = "out" /\ calls[t] < Calls
    \/ pc[t] = "enter" /\ critical = Nobody
    \/ Inside(t)
    \/ pc[t] = "spin" /\ globalsense = localsense[t]

NotStuck ==
    \/ \A t \in Threads : pc[t] = "out" /\ calls[t] = Calls
    \/ \E t \in Threads : CanGo(t)

\* When all threads are counted one of them is about to free the others.
LastFrees ==
    Counted = Threads => \E t \in Threads : pc[t] \in {"reset", "invert"}

LEMMA LastFreesStep ==
    ASSUME BarrierInv, BarrierInv', NEW t \in Threads, Step(t)
    PROVE  LastFrees'
<1>1. TypeOK /\ Guarded /\ Guarded' /\ Exact' /\ TypeOK'
  BY DEF BarrierInv
<1>2. CASE Flip(t) \/ EnterCritical(t) \/ LoadCount(t) \/ Leave(t)
  <2>1. t \notin Counted'
    BY <1>1, <1>2 DEF Flip, EnterCritical, LoadCount, Leave, Goto, Counted, TypeOK
  <2> QED
    BY <2>1 DEF LastFrees
<1>3. CASE StoreCount(t)
  <2>1. SUFFICES ASSUME Counted' = Threads, pc'[t] # "reset" PROVE FALSE
    BY DEF LastFrees
  <2>2. pc'[t] = "spin" /\ count' # 0 /\ critical' = Nobody
    BY <1>1, <1>3, <2>1 DEF StoreCount, Goto, TypeOK
  <2>3. \A u \in Threads : pc'[u] # "invert"
    BY <1>1, <2>2, NobodyAssumption DEF Guarded, Inside
  <2>4. count' = num_threads - Cardinality(Threads)
    BY <1>1, <2>1, <2>3 DEF Exact
  <2>5. num_threads \in Nat
    BY ThreadsAssumption
  <2> QED
    BY <2>2, <2>4, <2>5, ThreadsFinite
<1>4. CASE ResetCount(t)
  <2>1. pc'[t] = "invert"
    BY <1>1, <1>4 DEF ResetCount, Goto, TypeOK
  <2> QED
    BY <2>1 DEF LastFrees
<1>5. CASE InvertGlobalsense(t)
  <2>1. t \notin Counted'
    BY <1>1, <1>5 DEF InvertGlobalsense, Goto, Counted, TypeOK
  <2> QED
    BY <2>1 DEF LastFrees
<1> QED
  BY <1>2, <1>3, <1>4, <1>5 DEF Step

\* Until all calls have ended some thread can go on, for any number of threads:
\* when all the others spin, the one in the critical section or the one that
\* has yet to arrive does not wait.
THEOREM DeadlockFree == Spec => []NotStuck
<1>1. Init => LastFrees
  <2>1. Init => \A t \in Threads : t \notin Counted
    BY DEF Init, Counted
  <2>2. 0 \in Threads
    BY ThreadsAssumption DEF Threads
  <2> QED
    BY <2>1, <2>2 DEF LastFrees
<1>2. LastFrees /\ BarrierInv /\ BarrierInv' /\ [Next]_vars => LastFrees'
  <2>1. CASE UNCHANGED vars
    BY <2>1 DEF vars, LastFrees, Counted
  <2>2. CASE Terminated
    BY <2>2 DEF Terminated, vars, LastFrees, Counted
  <2> QED
    BY <2>1, <2>2, LastFreesStep DEF Next
<1>3. ASSUME BarrierInv, LastFrees PROVE NotStuck
  <2>1. PICK g \in 0..Calls : Phase(g)
    BY <1>3 DEF BarrierInv
  <2>2. TypeOK /\ Guarded
    BY <1>3 DEF BarrierInv
  <2>3. SUFFICES ASSUME \A t \in Threads : ~CanGo(t)
                 PROVE  \A t \in Threads : pc[t] = "out" /\ calls[t] = Calls
    BY DEF NotStuck
  <2>4. \A t \in Threads : ~Inside(t)
    BY <2>3 DEF CanGo
  <2>5. critical = Nobody
    BY <2>2, <2>4 DEF Guarded, TypeOK
  <2>6. ASSUME NEW t \in Threads
        PROVE  \/ pc[t] = "out" /\ calls[t] = Calls
               \/ pc[t] = "spin" /\ globalsense # localsense[t]
    <3>1. pc[t] \in {"out", "spin"} /\ calls[t] \in 0..Calls
      BY <2>2, <2>3, <2>4, <2>5 DEF TypeOK, CanGo, Inside
    <3> QED
      BY <2>3, <3>1, LoopAssumption DEF CanGo
  <2>7. SUFFICES ASSUME NEW t \in Threads, pc[t] = "spin", globalsense # localsense[t]
                 PROVE  FALSE
    BY <2>6
  <2>8. calls[t] = g /\ g < Calls
    BY <2>1, <2>2, <2>7 DEF Phase, Released, Arriving, TypeOK
  <2>9. ASSUME NEW u \in Threads PROVE u \in Counted /\ pc[u] = "spin"
    <3>1. pc[u] # "out"
      <4>1. SUFFICES ASSUME pc[u] = "out" PROVE FALSE
        OBVIOUS
      <4>2. calls[u] = Calls /\ calls[u] + 0 = g
        BY <2>1, <2>6, <4>1 DEF Phase, Released, Arriving
      <4> QED
        BY <2>8, <4>2, LoopAssumption
    <3> QED
      BY <2>6, <3>1 DEF Counted
  <2>10. Counted = Threads
    BY <2>9 DEF Counted
  <2> QED
    BY <1>3, <2>9, <2>10 DEF LastFrees
<1> QED
  BY <1>1, <1>2, <1>3, Invariant, PTL DEF Spec
=============================================================================
