----------------------- MODULE CombinedBarrier_proofs -----------------------
(***************************************************************************)
(* Type correctness, the agreement on globalsense, the implementation of   *)
(* Barrier by CombinedBarrier and that its waits never all block, for any  *)
(* number of processes, threads and calls.                                 *)
(***************************************************************************)
EXTENDS CombinedBarrier, WellFoundedInduction, TLAPS

\* Thread t against thread 0 of its process: in the same episode, where what
\* it has read is still globalsense, or one behind, and about to see the flip.
InStep(r, t) ==
    \/ /\ calls[<<r, t>>] = calls[<<r, 0>>]
       /\ pc[<<r, t>>] # "out" => localsense[<<r, t>>] = globalsense[r]
    \/ /\ calls[<<r, t>>] + 1 = calls[<<r, 0>>]
       /\ pc[<<r, t>>] \in {"omp", "spin"}
       /\ localsense[<<r, t>>] # globalsense[r]

InStepAll == \A r \in Ranks, t \in Threads : InStep(r, t)

\* Thread 0 has met the threads of its process when it meets the processes.
NodeHere(r, c) == \A t \in Threads : OmpEntered(<<r, t>>) > c

Gathered ==
    /\ \A r \in Ranks : NodeHere(r, calls[<<r, 0>>] - 1)
    /\ \A r \in Ranks : pc[<<r, 0>>] \in {"mcs", "flip"}
            => NodeHere(r, calls[<<r, 0>>])

\* What thread 0 knows of the other processes.
Met ==
    /\ \A r, q \in Ranks : calls[<<r, 0>>] <= McsEntered(q)
    /\ \A r, q \in Ranks : pc[<<r, 0>>] = "flip" => calls[<<r, 0>>] < McsEntered(q)

\* The inductive invariant.
CInv == TypeOK /\ InStepAll /\ Gathered /\ Met
-----------------------------------------------------------------------------
LEMMA WorkerZero == 0 \in Threads /\ \A r \in Ranks : <<r, 0>> \in Workers
BY SizeAssumption DEF Threads, Workers

LEMMA CountTypes ==
    ASSUME TypeOK
    PROVE  /\ \A r \in Ranks, t \in Threads :
                    calls[<<r, t>>] \in Nat /\ OmpEntered(<<r, t>>) \in Nat
           /\ \A r \in Ranks : calls[<<r, 0>>] \in Nat /\ McsEntered(r) \in Nat
BY WorkerZero, LoopAssumption DEF TypeOK, OmpEntered, McsEntered, Workers

LEMMA CountTypesNext ==
    ASSUME TypeOK'
    PROVE  /\ \A r \in Ranks, t \in Threads :
                    calls'[<<r, t>>] \in Nat /\ OmpEntered(<<r, t>>)' \in Nat
           /\ \A r \in Ranks : calls'[<<r, 0>>] \in Nat /\ McsEntered(r)' \in Nat
BY WorkerZero, LoopAssumption DEF TypeOK, OmpEntered, McsEntered, Workers

LEMMA InitHolds == Init => CInv
<1>1. SUFFICES ASSUME Init PROVE CInv
  OBVIOUS
<1>2. TypeOK
  BY <1>1, LoopAssumption DEF Init, TypeOK
<1>3. InStepAll
  BY <1>1, WorkerZero DEF Init, InStepAll, InStep, Workers
<1>4. Gathered
  <2>1. \A r \in Ranks : calls[<<r, 0>>] = 0 /\ pc[<<r, 0>>] = "out"
    BY <1>1, WorkerZero DEF Init
  <2>2. \A r \in Ranks, t \in Threads : OmpEntered(<<r, t>>) = 0
    BY <1>1 DEF Init, OmpEntered, Workers
  <2> QED
    BY <2>1, <2>2 DEF Gathered, NodeHere
<1>5. Met
  BY <1>1, WorkerZero DEF Init, Met, McsEntered
<1> QED
  BY <1>2, <1>3, <1>4, <1>5 DEF CInv

LEMMA TypeStep ==
    ASSUME TypeOK, NEW r \in Ranks, NEW t \in Threads, Step(r, t)
    PROVE  TypeOK'
<1>0. <<r, t>> \in Workers /\ <<r, t>>[2] = t /\ <<r, 0>>[2] = 0
  BY DEF Workers
<1>1. CASE ReadSense(r, t)
  BY <1>0, <1>1 DEF TypeOK, ReadSense, Goto
<1>2. CASE OmpEnter(r, t)
  BY <1>0, <1>2 DEF TypeOK, OmpEnter, Goto
<1>3. CASE OmpReturn(r, t)
  BY <1>0, <1>3 DEF TypeOK, OmpReturn, Goto
<1>4. CASE Leave(r, t)
  BY <1>0, <1>4, LoopAssumption DEF TypeOK, Leave, Goto
<1>5. CASE t = 0 /\ McsReturn(r)
  BY <1>0, <1>5 DEF TypeOK, McsReturn, Goto
<1>6. CASE t = 0 /\ Flip(r)
  BY <1>0, <1>6, LoopAssumption DEF TypeOK, Flip, Goto
<1> QED
  BY <1>1, <1>2, <1>3, <1>4, <1>5, <1>6 DEF Step

\* Steps of a thread that change neither senses nor counts of calls.
LEMMA Quiet ==
    ASSUME CInv, NEW r \in Ranks, NEW t \in Threads,
           OmpEnter(r, t) \/ OmpReturn(r, t) \/ (t = 0 /\ McsReturn(r))
    PROVE  InStepAll' /\ Gathered' /\ Met'
<1>0. /\ TypeOK /\ InStepAll /\ Gathered /\ Met
      /\ <<r, t>> \in Workers
  BY DEF CInv, Workers
<1>1. /\ calls' = calls /\ localsense' = localsense /\ globalsense' = globalsense
      /\ \A w \in Workers \ {<<r, t>>} : pc'[w] = pc[w]
      /\ pc[<<r, t>>] # "out" /\ pc'[<<r, t>>] # "out"
      /\ pc[<<r, t>>] = "omp_call" \/ pc[<<r, t>>] = "omp" \/ pc[<<r, t>>] = "mcs"
  BY <1>0 DEF OmpEnter, OmpReturn, McsReturn, Goto, TypeOK
<1>2. InStepAll'
  <2>1. ASSUME NEW q \in Ranks, NEW u \in Threads PROVE InStep(q, u)'
    <3>0. <<q, u>> \in Workers /\ InStep(q, u)
      BY <1>0 DEF Workers, InStepAll
    <3>1. CASE <<q, u>> # <<r, t>>
      BY <1>1, <3>0, <3>1 DEF InStep
    <3>2. CASE <<q, u>> = <<r, t>>
      <4>1. CASE calls[<<q, u>>] = calls[<<q, 0>>]
        <5>1. localsense[<<q, u>>] = globalsense[q]
          BY <1>0, <1>1, <3>0, <3>2, <4>1, CountTypes, WorkerZero DEF InStep
        <5> QED
          BY <1>1, <4>1, <5>1 DEF InStep
      <4>2. CASE calls[<<q, u>>] + 1 = calls[<<q, 0>>]
        <5>1. pc[<<q, u>>] \in {"omp", "spin"} /\ localsense[<<q, u>>] # globalsense[q]
          BY <1>0, <3>0, <4>2, CountTypes DEF InStep
        <5>2. u # 0
          BY <1>0, <4>2, CountTypes
        <5>3. pc'[<<q, u>>] = "spin"
          BY <1>0, <1>1, <3>2, <5>1, <5>2
             DEF OmpEnter, OmpReturn, McsReturn, Goto, TypeOK
        <5> QED
          BY <1>1, <4>2, <5>1, <5>3 DEF InStep
      <4> QED
        BY <3>0, <4>1, <4>2 DEF InStep
    <3> QED
      BY <3>1, <3>2
  <2> QED
    BY <2>1 DEF InStepAll
<1>3. \A q \in Ranks, u \in Threads : OmpEntered(<<q, u>>)' >= OmpEntered(<<q, u>>)
  <2>1. ASSUME NEW q \in Ranks, NEW u \in Threads
        PROVE  OmpEntered(<<q, u>>)' >= OmpEntered(<<q, u>>)
    <3>1. <<q, u>> \in Workers
      BY DEF Workers
    <3>2. calls[<<q, u>>] \in Nat
      BY <1>0, CountTypes
    <3>3. pc'[<<q, u>>] \in {"out", "omp_call"} => pc[<<q, u>>] \in {"out", "omp_call"}
      BY <1>0, <1>1, <3>1 DEF OmpEnter, OmpReturn, McsReturn, Goto, TypeOK
    <3> QED
      BY <1>1, <3>2, <3>3 DEF OmpEntered
  <2> QED
    BY <2>1
<1>a. /\ TypeOK' /\ Step(r, t)
      /\ \A q \in Ranks : calls'[<<q, 0>>] = calls[<<q, 0>>] /\ calls[<<q, 0>>] \in Nat
  <2>1. Step(r, t)
    BY DEF Step
  <2> QED
    BY <1>0, <1>1, <2>1, TypeStep, CountTypes
<1>b. \A q \in Ranks, u \in Threads :
        OmpEntered(<<q, u>>)' \in Nat /\ OmpEntered(<<q, u>>) \in Nat
  BY <1>0, <1>a, CountTypes, CountTypesNext
<1>4. Gathered'
  <2>1. ASSUME NEW q \in Ranks, NEW c \in Int, NodeHere(q, c)
        PROVE  NodeHere(q, c)'
    BY <1>3, <1>b, <2>1 DEF NodeHere
  <2>2. ASSUME NEW q \in Ranks PROVE NodeHere(q, calls[<<q, 0>>] - 1)'
    <3>1. NodeHere(q, calls[<<q, 0>>] - 1)
      BY <1>0 DEF Gathered
    <3> QED
      BY <1>1, <1>3, <1>a, <1>b, <3>1 DEF NodeHere
  <2>3. ASSUME NEW q \in Ranks, pc'[<<q, 0>>] \in {"mcs", "flip"}
        PROVE  NodeHere(q, calls[<<q, 0>>])'
    <3>1. CASE pc[<<q, 0>>] \in {"mcs", "flip"}
      <4>1. NodeHere(q, calls[<<q, 0>>])
        BY <1>0, <3>1 DEF Gathered
      <4> QED
        BY <1>1, <1>3, <1>a, <1>b, <4>1 DEF NodeHere
    <3>2. CASE pc[<<q, 0>>] \notin {"mcs", "flip"}
      <4>1. q = r /\ t = 0 /\ OmpReturn(r, t)
        BY <1>0, <1>1, <2>3, <3>2, WorkerZero
           DEF OmpEnter, OmpReturn, McsReturn, Goto, TypeOK, Workers
      <4>2. OmpEntered(<<q, 0>>) = calls[<<q, 0>>] + 1
        BY <4>1 DEF OmpReturn, Goto, OmpEntered
      <4>3. \A u \in Threads : OmpEntered(<<q, u>>) >= calls[<<q, 0>>] + 1
        BY <4>1, <4>2 DEF OmpReturn
      <4> QED
        BY <1>1, <1>3, <1>a, <1>b, <4>3 DEF NodeHere
    <3> QED
      BY <3>1, <3>2
  <2> QED
    BY <2>2, <2>3 DEF Gathered
<1>5. \A q \in Ranks : McsEntered(q)' >= McsEntered(q)
                      /\ McsEntered(q)' \in Nat /\ McsEntered(q) \in Nat
  <2>1. ASSUME NEW q \in Ranks
        PROVE  pc[<<q, 0>>] \in {"mcs", "flip"} => pc'[<<q, 0>>] \in {"mcs", "flip"}
    BY <1>0, <1>1, WorkerZero DEF OmpEnter, OmpReturn, McsReturn, Goto, TypeOK
  <2>2. \A q \in Ranks : McsEntered(q)' \in Nat /\ McsEntered(q) \in Nat
    BY <1>0, <1>a, CountTypes, CountTypesNext
  <2>3. ASSUME NEW q \in Ranks PROVE McsEntered(q)' >= McsEntered(q)
    BY <1>1, <1>a, <2>1 DEF McsEntered
  <2> QED
    BY <2>2, <2>3
<1>6. Met'
  <2>1. ASSUME NEW p \in Ranks, NEW q \in Ranks
        PROVE  calls'[<<p, 0>>] <= McsEntered(q)'
    <3>1. calls[<<p, 0>>] <= McsEntered(q)
      BY <1>0 DEF Met
    <3> QED
      BY <1>a, <1>5, <3>1
  <2>2. ASSUME NEW p \in Ranks, NEW q \in Ranks, pc'[<<p, 0>>] = "flip"
        PROVE  calls'[<<p, 0>>] < McsEntered(q)'
    <3>1. CASE pc[<<p, 0>>] = "flip"
      BY <1>0, <1>a, <1>5, <3>1 DEF Met
    <3>2. CASE pc[<<p, 0>>] # "flip"
      <4>1. p = r /\ t = 0 /\ McsReturn(r)
        BY <1>0, <1>1, <2>2, <3>2, WorkerZero
           DEF OmpEnter, OmpReturn, McsReturn, Goto, TypeOK, Workers
      <4>2. McsEntered(p) = calls[<<p, 0>>] + 1 /\ McsEntered(q) >= McsEntered(p)
        BY <4>1 DEF McsReturn, Goto, McsEntered
      <4> QED
        BY <1>a, <1>5, <4>2
    <3> QED
      BY <3>1, <3>2
  <2> QED
    BY <2>1, <2>2 DEF Met
<1> QED
  BY <1>2, <1>4, <1>6

\* Entering a call and leaving it after the spinning: nothing that the inner
\* barriers count changes.
LEMMA EnterLeave ==
    ASSUME CInv, NEW r \in Ranks, NEW t \in Threads,
           ReadSense(r, t) \/ Leave(r, t)
    PROVE  InStepAll' /\ Gathered' /\ Met'
<1>0. /\ TypeOK /\ InStepAll /\ Gathered /\ Met
      /\ <<r, t>> \in Workers /\ <<r, t>>[2] = t
  BY DEF CInv, Workers
<1>1. Step(r, t) /\ TypeOK'
  BY <1>0, TypeStep DEF Step
<1>2. /\ globalsense' = globalsense
      /\ \A w \in Workers \ {<<r, t>>} :
            pc'[w] = pc[w] /\ calls'[w] = calls[w] /\ localsense'[w] = localsense[w]
      /\ pc[<<r, t>>] \notin {"mcs", "flip"} /\ pc'[<<r, t>>] \notin {"mcs", "flip"}
  BY <1>0 DEF ReadSense, Leave, Goto, TypeOK
<1>3. \A q \in Ranks : calls'[<<q, 0>>] = calls[<<q, 0>>] /\ calls[<<q, 0>>] \in Nat
  <2>1. CASE ReadSense(r, t)
    BY <1>0, <2>1, CountTypes DEF ReadSense
  <2>2. CASE Leave(r, t)
    <3>1. t # 0
      BY <1>0, <2>2 DEF Leave, Goto, TypeOK
    <3> QED
      BY <1>0, <1>2, <3>1, CountTypes, WorkerZero
  <2> QED
    BY <2>1, <2>2
<1>4. InStepAll'
  <2>1. ASSUME NEW q \in Ranks, NEW u \in Threads PROVE InStep(q, u)'
    <3>0. <<q, u>> \in Workers /\ InStep(q, u)
      BY <1>0 DEF Workers, InStepAll
    <3>1. CASE <<q, u>> # <<r, t>>
      BY <1>2, <1>3, <3>0, <3>1 DEF InStep
    <3>2. CASE <<q, u>> = <<r, t>> /\ ReadSense(r, t)
      <4>1. calls[<<r, t>>] = calls[<<r, 0>>]
        BY <3>0, <3>2 DEF InStep, ReadSense, Goto
      <4>2. calls' = calls /\ localsense'[<<r, t>>] = globalsense[r]
        BY <1>0, <3>2 DEF ReadSense, TypeOK
      <4> QED
        BY <1>2, <3>2, <4>1, <4>2 DEF InStep
    <3>3. CASE <<q, u>> = <<r, t>> /\ Leave(r, t)
      <4>1. calls[<<r, t>>] + 1 = calls[<<r, 0>>]
        BY <3>0, <3>3 DEF InStep, Leave, Goto
      <4>2. calls'[<<r, t>>] = calls[<<r, t>>] + 1 /\ pc'[<<r, t>>] = "out"
        BY <1>0, <3>3 DEF Leave, Goto, TypeOK
      <4> QED
        BY <1>3, <3>3, <4>1, <4>2 DEF InStep
    <3> QED
      BY <3>1, <3>2, <3>3
  <2> QED
    BY <2>1 DEF InStepAll
<1>5. \A w \in Workers : OmpEntered(w)' = OmpEntered(w)
  <2>1. OmpEntered(<<r, t>>)' = OmpEntered(<<r, t>>)
    BY <1>0, CountTypes DEF ReadSense, Leave, Goto, OmpEntered, TypeOK
  <2> QED
    BY <1>2, <2>1 DEF OmpEntered
<1>6. \A q \in Ranks : pc'[<<q, 0>>] \in {"mcs", "flip"} => pc'[<<q, 0>>] = pc[<<q, 0>>]
  BY <1>2, WorkerZero
<1>7. \A q \in Ranks : pc[<<q, 0>>] \in {"mcs", "flip"} => pc'[<<q, 0>>] = pc[<<q, 0>>]
  BY <1>2, WorkerZero
<1>8. Gathered'
  <2>1. \A q \in Ranks, u \in Threads : OmpEntered(<<q, u>>)' = OmpEntered(<<q, u>>)
    BY <1>5 DEF Workers
  <2> QED
    BY <1>0, <1>3, <1>6, <2>1 DEF Gathered, NodeHere
<1>9. Met'
  <2>1. \A q \in Ranks : McsEntered(q)' = McsEntered(q)
    BY <1>3, <1>6, <1>7 DEF McsEntered
  <2> QED
    BY <1>0, <1>3, <1>6, <2>1 DEF Met
<1> QED
  BY <1>4, <1>8, <1>9

\* The flip finds every other thread of the process in its OpenMP barrier or
\* spinning, and lets it see a new globalsense.
LEMMA FlipHolds ==
    ASSUME CInv, NEW r \in Ranks, Flip(r)
    PROVE  InStepAll' /\ Gathered' /\ Met'
<1>0. /\ TypeOK /\ InStepAll /\ Gathered /\ Met
      /\ <<r, 0>> \in Workers /\ 0 \in Threads
  BY WorkerZero DEF CInv
<1>1. /\ localsense' = localsense
      /\ globalsense'[r] = 1 - globalsense[r]
      /\ \A q \in Ranks \ {r} : globalsense'[q] = globalsense[q]
      /\ \A w \in Workers \ {<<r, 0>>} : pc'[w] = pc[w] /\ calls'[w] = calls[w]
      /\ pc[<<r, 0>>] = "flip" /\ pc'[<<r, 0>>] = "out"
      /\ calls'[<<r, 0>>] = calls[<<r, 0>>] + 1
  BY <1>0 DEF Flip, Goto, TypeOK
<1>2. \A q \in Ranks, u \in Threads : <<q, u>> \in Workers /\ calls[<<q, u>>] \in Nat
  BY <1>0, CountTypes DEF Workers
<1>3. ASSUME NEW u \in Threads, u # 0
      PROVE  /\ calls[<<r, u>>] = calls[<<r, 0>>]
             /\ pc[<<r, u>>] \in {"omp", "spin"}
             /\ localsense[<<r, u>>] = globalsense[r]
  <2>1. OmpEntered(<<r, u>>) > calls[<<r, 0>>]
    BY <1>0, <1>1 DEF Gathered, NodeHere
  <2>2. InStep(r, u)
    BY <1>0 DEF InStepAll
  <2>3. calls[<<r, u>>] = calls[<<r, 0>>] /\ pc[<<r, u>>] \notin {"out", "omp_call"}
    BY <1>0, <1>2, <2>1, <2>2 DEF OmpEntered, InStep
  <2>4. localsense[<<r, u>>] = globalsense[r]
    BY <1>0, <1>2, <2>2, <2>3 DEF InStep
  <2>5. pc[<<r, u>>] \in {"omp", "spin"}
    <3>1. <<r, u>>[2] = u /\ <<r, u>> \in Workers
      BY <1>2
    <3> QED
      BY <1>0, <1>3, <2>3, <3>1 DEF TypeOK
  <2> QED
    BY <2>3, <2>4, <2>5
<1>4. InStepAll'
  <2>1. ASSUME NEW q \in Ranks, NEW u \in Threads PROVE InStep(q, u)'
    <3>0. InStep(q, u) /\ <<q, u>> \in Workers /\ <<q, 0>> \in Workers
      BY <1>0, <1>2 DEF InStepAll
    <3>1. CASE q # r
      BY <1>1, <3>0, <3>1 DEF InStep
    <3>2. CASE q = r /\ u = 0
      BY <1>1, <3>2 DEF InStep
    <3>3. CASE q = r /\ u # 0
      <4>1. pc'[<<r, u>>] = pc[<<r, u>>] /\ calls'[<<r, u>>] = calls[<<r, u>>]
        BY <1>1, <3>0, <3>3
      <4>2. globalsense'[r] # globalsense[r]
        BY <1>0, <1>1 DEF TypeOK
      <4> QED
        BY <1>1, <1>2, <1>3, <3>3, <4>1, <4>2 DEF InStep
    <3> QED
      BY <3>1, <3>2, <3>3
  <2> QED
    BY <2>1 DEF InStepAll
<1>5. \A q \in Ranks, u \in Threads : OmpEntered(<<q, u>>)' = OmpEntered(<<q, u>>)
  <2>1. OmpEntered(<<r, 0>>)' = OmpEntered(<<r, 0>>)
    BY <1>0, <1>1, <1>2 DEF OmpEntered
  <2> QED
    BY <1>1, <1>2, <2>1 DEF OmpEntered
<1>6. \A q \in Ranks : McsEntered(q)' = McsEntered(q)
  <2>1. McsEntered(r)' = McsEntered(r)
    BY <1>0, <1>1, <1>2 DEF McsEntered
  <2> QED
    BY <1>0, <1>1, <1>2, <2>1 DEF McsEntered
<1>7. \A q \in Ranks \ {r} :
        pc'[<<q, 0>>] = pc[<<q, 0>>] /\ calls'[<<q, 0>>] = calls[<<q, 0>>]
  BY <1>0, <1>1, <1>2
<1>8. Gathered'
  <2>1. ASSUME NEW q \in Ranks PROVE NodeHere(q, calls[<<q, 0>>] - 1)'
    <3>1. CASE q = r
      <4>1. NodeHere(r, calls[<<r, 0>>])
        BY <1>0, <1>1 DEF Gathered
      <4>2. calls'[<<r, 0>>] - 1 = calls[<<r, 0>>]
        BY <1>0, <1>1, <1>2
      <4> QED
        BY <1>5, <3>1, <4>1, <4>2 DEF NodeHere
    <3>2. CASE q # r
      BY <1>0, <1>5, <1>7, <3>2 DEF Gathered, NodeHere
    <3> QED
      BY <3>1, <3>2
  <2>2. ASSUME NEW q \in Ranks, pc'[<<q, 0>>] \in {"mcs", "flip"}
        PROVE  NodeHere(q, calls[<<q, 0>>])'
    BY <1>0, <1>1, <1>5, <1>7, <2>2 DEF Gathered, NodeHere
  <2> QED
    BY <2>1, <2>2 DEF Gathered
<1>9. Met'
  <2>1. ASSUME NEW p \in Ranks, NEW q \in Ranks
        PROVE  calls'[<<p, 0>>] <= McsEntered(q)'
    <3>1. CASE p = r
      <4>1. calls[<<r, 0>>] < McsEntered(q) /\ McsEntered(q) \in Nat
        BY <1>0, <1>1, CountTypes DEF Met
      <4> QED
        BY <1>0, <1>1, <1>2, <1>6, <3>1, <4>1
    <3>2. CASE p # r
      BY <1>0, <1>6, <1>7, <3>2 DEF Met
    <3> QED
      BY <3>1, <3>2
  <2>2. ASSUME NEW p \in Ranks, NEW q \in Ranks, pc'[<<p, 0>>] = "flip"
        PROVE  calls'[<<p, 0>>] < McsEntered(q)'
    BY <1>0, <1>1, <1>6, <1>7, <2>2 DEF Met
  <2> QED
    BY <2>1, <2>2 DEF Met
<1> QED
  BY <1>4, <1>8, <1>9

LEMMA StutterHolds == CInv /\ UNCHANGED vars => CInv'
BY DEF CInv, TypeOK, InStepAll, InStep, Gathered, NodeHere, Met, OmpEntered,
       McsEntered, vars
-----------------------------------------------------------------------------
\* The strengthened invariant: every thread is in the episode of thread 0 of
\* its process or about to follow it, and thread 0 has met all it counts on.
THEOREM Invariant == Spec => []CInv
<1>1. CInv /\ [Next]_vars => CInv'
  <2>1. SUFFICES ASSUME CInv, [Next]_vars PROVE CInv'
    OBVIOUS
  <2>2. CASE UNCHANGED vars \/ Terminated
    BY <2>1, <2>2, StutterHolds DEF Terminated
  <2>3. ASSUME NEW r \in Ranks, NEW t \in Threads, Step(r, t) PROVE CInv'
    <3>1. TypeOK'
      BY <2>1, <2>3, TypeStep DEF CInv
    <3>2. InStepAll' /\ Gathered' /\ Met'
      BY <2>1, <2>3, Quiet, EnterLeave, FlipHolds DEF Step
    <3> QED
      BY <3>1, <3>2 DEF CInv
  <2> QED
    BY <2>1, <2>2, <2>3 DEF Next
<1> QED
  BY <1>1, InitHolds, PTL DEF Spec

\* Every variable keeps its type, and only thread 0 goes to the MCS barrier.
THEOREM TypeCorrect == Spec => []TypeOK
<1>1. CInv => TypeOK
  BY DEF CInv
<1> QED
  BY <1>1, Invariant, PTL

\* combined_barrier.c:21 reads globalsense without any synchronisation, and
\* still all threads of a process read the same value in the same call.
THEOREM SenseAgreed == Spec => []SameSense
<1>1. CInv => SameSense
  <2>1. SUFFICES ASSUME CInv, NEW r \in Ranks, NEW t \in Threads, NEW u \in Threads,
                        pc[<<r, t>>] # "out", pc[<<r, u>>] # "out",
                        calls[<<r, t>>] = calls[<<r, u>>]
                 PROVE  localsense[<<r, t>>] = localsense[<<r, u>>]
    BY DEF SameSense
  <2>2. /\ calls[<<r, t>>] \in Nat /\ calls[<<r, u>>] \in Nat /\ calls[<<r, 0>>] \in Nat
        /\ localsense[<<r, t>>] \in {0, 1} /\ localsense[<<r, u>>] \in {0, 1}
        /\ globalsense[r] \in {0, 1}
        /\ InStep(r, t) /\ InStep(r, u)
    BY <2>1, CountTypes DEF CInv, TypeOK, InStepAll, Workers
  <2> QED
    BY <2>1, <2>2 DEF InStep
<1> QED
  BY <1>1, Invariant, PTL

\* What thread 0 of a process has entered, all threads of the process have.
LEMMA AllIn ==
    ASSUME CInv, NEW q \in Ranks, NEW u \in Threads
    PROVE  /\ Entered[<<q, u>>] >= McsEntered(q)
           /\ Entered[<<q, u>>] \in Nat /\ McsEntered(q) \in Nat
<1>0. /\ TypeOK /\ Gathered /\ <<q, u>> \in Workers
      /\ calls[<<q, u>>] \in Nat /\ calls[<<q, 0>>] \in Nat
      /\ McsEntered(q) \in Nat /\ OmpEntered(<<q, u>>) \in Nat
  BY CountTypes DEF CInv, Workers
<1>1. OmpEntered(<<q, u>>) >= McsEntered(q)
  <2>1. CASE pc[<<q, 0>>] \in {"mcs", "flip"}
    BY <1>0, <2>1 DEF Gathered, NodeHere, McsEntered
  <2>2. CASE pc[<<q, 0>>] \notin {"mcs", "flip"}
    BY <1>0, <2>2 DEF Gathered, NodeHere, McsEntered
  <2> QED
    BY <2>1, <2>2
<1>2. Entered[<<q, u>>] \in Nat /\ Entered[<<q, u>>] >= OmpEntered(<<q, u>>)
  BY <1>0 DEF Entered, OmpEntered
<1> QED
  BY <1>0, <1>1, <1>2

\* A step of a thread is a step of the abstract barrier or changes nothing
\* that it shows.
LEMMA PromiseStep ==
    ASSUME CInv, [Next]_vars
    PROVE  [Promise!Next]_(Promise!bvars)
<1>1. TypeOK /\ InStepAll /\ Met
  BY DEF CInv
<1>2. CASE UNCHANGED vars \/ Terminated
  BY <1>2 DEF Terminated, vars, Promise!bvars, Entered
<1>3. ASSUME NEW r \in Ranks, NEW t \in Threads, ReadSense(r, t)
      PROVE  Promise!Enter(<<r, t>>)
  <2> DEFINE w == <<r, t>>
  <2>0. w \in Workers
    BY DEF Workers
  <2>1. calls' = calls /\ pc[w] = "out" /\ calls[w] < Calls
    BY <1>3 DEF ReadSense, Goto
  <2>2. Entered' = [Entered EXCEPT ![w] = @ + 1]
    <3>1. Entered'[w] = Entered[w] + 1
      BY <1>1, <1>3, <2>0, <2>1 DEF Entered, ReadSense, Goto, TypeOK
    <3>2. \A v \in Workers \ {w} : Entered'[v] = Entered[v]
      BY <1>1, <1>3, <2>0, <2>1 DEF Entered, ReadSense, Goto, TypeOK
    <3> HIDE DEF w
    <3> QED
      BY <3>1, <3>2, Zenon DEF Entered
  <2>3. Entered[w] = calls[w]
    BY <1>1, <2>0, <2>1 DEF Entered, TypeOK
  <2> QED
    BY <2>1, <2>2, <2>3 DEF Promise!Enter
<1>4. ASSUME NEW r \in Ranks, NEW t \in Threads, Leave(r, t) \/ (t = 0 /\ Flip(r))
      PROVE  Promise!Return(<<r, t>>)
  <2> DEFINE w == <<r, t>>
  <2>0. w \in Workers /\ calls[w] \in Nat /\ calls[<<r, 0>>] \in Nat
    BY <1>1, CountTypes DEF Workers
  <2>1. /\ calls' = [calls EXCEPT ![w] = @ + 1] /\ pc[w] # "out"
        /\ pc' = [pc EXCEPT ![w] = "out"]
    BY <1>4 DEF Leave, Flip, Goto
  <2>2. Entered[w] = calls[w] + 1 /\ calls[w] < Entered[w]
    BY <2>0, <2>1 DEF Entered
  <2>3. \A q \in Ranks : McsEntered(q) >= Entered[w]
    <3>1. CASE Leave(r, t)
      <4>1. calls[w] + 1 = calls[<<r, 0>>]
        BY <1>1, <3>1 DEF InStepAll, InStep, Leave, Goto
      <4> QED
        BY <1>1, <2>2, <4>1 DEF Met
    <3>2. CASE t = 0 /\ Flip(r)
      <4>1. \A q \in Ranks : calls[w] < McsEntered(q)
        BY <1>1, <3>2 DEF Met, Flip, Goto
      <4>2. \A q \in Ranks : McsEntered(q) \in Nat
        BY <1>1, CountTypes
      <4> HIDE DEF w
      <4> QED
        BY <2>0, <2>2, <4>1, <4>2
    <3> QED
      BY <1>4, <3>1, <3>2
  <2>4. \A v \in Workers : Entered[v] >= Entered[w]
    <3>1. ASSUME NEW q \in Ranks, NEW u \in Threads
          PROVE  Entered[<<q, u>>] >= Entered[w]
      BY <2>0, <2>2, <2>3, AllIn
    <3> QED
      BY <3>1 DEF Workers
  <2>5. Entered' = Entered
    <3>1. Entered'[w] = Entered[w]
      BY <1>1, <2>0, <2>1 DEF Entered, TypeOK
    <3>2. \A v \in Workers \ {w} : Entered'[v] = Entered[v]
      BY <1>1, <2>0, <2>1 DEF Entered, TypeOK
    <3> HIDE DEF w
    <3> QED
      BY <3>1, <3>2, Zenon DEF Entered
  <2> QED
    BY <2>1, <2>2, <2>4, <2>5 DEF Promise!Return
<1>5. ASSUME NEW r \in Ranks, NEW t \in Threads,
             OmpEnter(r, t) \/ OmpReturn(r, t) \/ (t = 0 /\ McsReturn(r))
      PROVE  UNCHANGED Promise!bvars
  <2>1. calls' = calls
    BY <1>5 DEF OmpEnter, OmpReturn, McsReturn
  <2>2. \A v \in Workers : (pc'[v] = "out") <=> (pc[v] = "out")
    BY <1>1, <1>5 DEF OmpEnter, OmpReturn, McsReturn, Goto, TypeOK
  <2> QED
    BY <2>1, <2>2 DEF Promise!bvars, Entered
<1>6. ASSUME NEW r \in Ranks, NEW t \in Threads, Step(r, t)
      PROVE  [Promise!Next]_(Promise!bvars)
  <2>1. <<r, t>> \in Workers
    BY DEF Workers
  <2> QED
    BY <1>3, <1>4, <1>5, <1>6, <2>1 DEF Step, Promise!Next
<1> QED
  BY <1>2, <1>6 DEF Next

\* combined_barrier.c is a barrier for all the threads of all the processes,
\* given that its two inner barriers are barriers for theirs.
THEOREM Refinement == Spec => Refines
<1>1. Init => Promise!Init
  BY DEF Init, Promise!Init, Entered
<1> QED
  BY <1>1, PromiseStep, Invariant, PTL DEF Spec, Refines, Promise!Spec
-----------------------------------------------------------------------------
(* The waits *)

\* The next step of a thread is not a wait, or what it waits for is there.
CanGo(r, t) ==
    \/ pc[<<r, t>>] = "out" /\ calls[<<r, t>>] < Calls
    \/ pc[<<r, t>>] \in {"omp_call", "flip"}
    \/ /\ pc[<<r, t>>] = "omp"
       /\ \A u \in Threads : OmpEntered(<<r, u>>) >= OmpEntered(<<r, t>>)
    \/ /\ pc[<<r, t>>] = "mcs"
       /\ \A q \in Ranks : McsEntered(q) >= McsEntered(r)
    \/ pc[<<r, t>>] = "spin" /\ localsense[<<r, t>>] # globalsense[r]

Done(w) == pc[w] = "out" /\ calls[w] = Calls

NotStuck ==
    (\A w \in Workers : Done(w)) \/ \E r \in Ranks, t \in Threads : CanGo(r, t)

Less == {p \in Nat \X Nat : p[1] < p[2]}

\* Every nonempty set of naturals has a least element.
LEMMA LeastNatural ==
    ASSUME NEW T \in SUBSET Nat, T # {}
    PROVE  \E m \in T : \A k \in T : m <= k
<1>1. OpToRel(<, Nat) = Less
  BY Zenon DEF OpToRel, Less
<1>2. IsWellFoundedOn(Less, Nat)
  BY Zenon, NatLessThanWellFounded, <1>1
<1>3. PICK m \in T : \A k \in T : <<k, m>> \notin Less
  BY <1>2, WFMin
<1>4. ASSUME NEW k \in T PROVE m <= k
  BY <1>3, m \in Nat, k \in Nat, <<k, m>> \notin Less DEF Less
<1> QED
  BY <1>4

\* In a state that is stuck, whoever is in the earliest call spins.
LEMMA EarliestSpin ==
    ASSUME CInv, \A q \in Ranks, u \in Threads : ~CanGo(q, u),
           NEW e \in Nat, e < Calls,
           \A w \in Workers : ~Done(w) => e <= calls[w],
           NEW r \in Ranks, NEW t \in Threads, calls[<<r, t>>] = e
    PROVE  pc[<<r, t>>] = "spin"
<1>1. TypeOK /\ Calls \in Nat
  BY LoopAssumption DEF CInv
<1>2. ASSUME NEW q \in Ranks, NEW u \in Threads
      PROVE  /\ calls[<<q, u>>] \in Nat /\ e <= calls[<<q, u>>]
             /\ calls[<<q, u>>] = e => pc[<<q, u>>] \in {"omp", "mcs", "spin"}
  <2>1. <<q, u>> \in Workers
    BY DEF Workers
  <2>2. calls[<<q, u>>] \in Nat /\ e <= calls[<<q, u>>]
    BY <1>1, <2>1 DEF TypeOK, Done
  <2>3. calls[<<q, u>>] = e => pc[<<q, u>>] \in {"omp", "mcs", "spin"}
    BY <1>1, <2>1 DEF TypeOK, CanGo
  <2> QED
    BY <2>2, <2>3
<1>3. CASE pc[<<r, t>>] = "omp"
  <2>1. OmpEntered(<<r, t>>) = e + 1
    BY <1>3 DEF OmpEntered
  <2>2. \A u \in Threads : OmpEntered(<<r, u>>) >= e + 1
    <3>1. ASSUME NEW u \in Threads PROVE OmpEntered(<<r, u>>) >= e + 1
      BY <1>2 DEF OmpEntered
    <3> QED
      BY <3>1
  <2> QED
    BY <1>3, <2>1, <2>2 DEF CanGo
<1>4. CASE pc[<<r, t>>] = "mcs"
  <2>1. t = 0
    <3>1. <<r, t>> \in Workers /\ <<r, t>>[2] = t
      BY DEF Workers
    <3> QED
      BY <1>1, <1>4, <3>1 DEF TypeOK
  <2>2. McsEntered(r) = e + 1
    BY <1>4, <2>1 DEF McsEntered
  <2>3. ASSUME NEW q \in Ranks PROVE McsEntered(q) >= e + 1
    <3>1. /\ calls[<<q, 0>>] \in Nat /\ e <= calls[<<q, 0>>]
          /\ calls[<<q, 0>>] = e => pc[<<q, 0>>] \in {"omp", "mcs", "spin"}
      BY <1>2, WorkerZero
    <3>2. pc[<<q, 0>>] # "spin"
      <4>1. <<q, 0>> \in Workers /\ <<q, 0>>[2] = 0
        BY WorkerZero
      <4> QED
        BY <1>1, <4>1 DEF TypeOK
    <3>3. CASE calls[<<q, 0>>] = e
      <4>1. pc[<<q, 0>>] # "omp"
        <5>1. SUFFICES ASSUME pc[<<q, 0>>] = "omp" PROVE FALSE
          OBVIOUS
        <5>2. OmpEntered(<<q, 0>>) = e + 1
          BY <3>3, <5>1 DEF OmpEntered
        <5>3. ASSUME NEW u \in Threads PROVE OmpEntered(<<q, u>>) >= e + 1
          BY <1>2 DEF OmpEntered
        <5> QED
          BY <5>1, <5>2, <5>3, WorkerZero DEF CanGo
      <4> QED
        BY <3>1, <3>2, <3>3, <4>1 DEF McsEntered
    <3>4. CASE calls[<<q, 0>>] # e
      BY <3>1, <3>4 DEF McsEntered
    <3> QED
      BY <3>3, <3>4
  <2> QED
    BY <1>4, <2>2, <2>3 DEF CanGo
<1> QED
  BY <1>2, <1>3, <1>4

\* Until all calls have ended some thread of some process can go on, for any
\* number of them: else all of the earliest call would spin, but thread 0 of a
\* process never does.
THEOREM DeadlockFree == Spec => []NotStuck
<1>1. ASSUME CInv PROVE NotStuck
  <2>1. TypeOK /\ Calls \in Nat /\ InStepAll
    BY <1>1, LoopAssumption DEF CInv
  <2>2. SUFFICES ASSUME NEW v \in Workers, ~Done(v),
                        \A q \in Ranks, u \in Threads : ~CanGo(q, u)
                 PROVE  FALSE
    BY DEF NotStuck
  <2>3. \A w \in Workers : calls[w] \in 0..Calls
    BY <2>1 DEF TypeOK
  <2> DEFINE C == {calls[w] : w \in {x \in Workers : ~Done(x)}}
  <2>4. C \in SUBSET Nat /\ C # {}
    BY <2>1, <2>2, <2>3
  <2>5. PICK e \in C : \A x \in C : e <= x
    BY <2>4, LeastNatural
  <2>6. PICK w \in Workers : ~Done(w) /\ calls[w] = e
    BY <2>5
  <2>7. \A x \in Workers : ~Done(x) => e <= calls[x]
    BY <2>5
  <2> HIDE DEF C
  <2>8. PICK r \in Ranks, t \in Threads : w = <<r, t>>
    BY <2>6 DEF Workers
  <2>9. e \in Nat /\ e < Calls
    <3>1. e \in 0..Calls
      BY <2>3, <2>6
    <3>2. pc[<<r, t>>] # "out" => e < Calls
      BY <2>1, <2>6, <2>8 DEF TypeOK
    <3>3. pc[<<r, t>>] = "out" => e # Calls
      BY <2>6, <2>8 DEF Done
    <3> QED
      BY <2>1, <3>1, <3>2, <3>3
  <2>10. calls[<<r, t>>] = e /\ pc[<<r, t>>] = "spin"
    BY <1>1, <2>2, <2>6, <2>7, <2>8, <2>9, EarliestSpin
  <2>11. calls[<<r, 0>>] # e
    <3>1. SUFFICES ASSUME calls[<<r, 0>>] = e PROVE FALSE
      OBVIOUS
    <3>2. pc[<<r, 0>>] = "spin"
      BY <1>1, <2>2, <2>7, <2>9, <3>1, WorkerZero, EarliestSpin
    <3>3. <<r, 0>> \in Workers /\ <<r, 0>>[2] = 0
      BY WorkerZero
    <3> QED
      BY <2>1, <3>2, <3>3 DEF TypeOK
  <2>12. localsense[<<r, t>>] # globalsense[r]
    BY <2>1, <2>10, <2>11 DEF InStepAll, InStep
  <2> QED
    BY <2>2, <2>10, <2>12 DEF CanGo
<1> QED
  BY <1>1, Invariant, PTL
=============================================================================
