--------------------- MODULE DisseminationBarrier_proofs ---------------------
(***************************************************************************)
(* Type correctness, the implementation of Barrier by DisseminationBarrier,*)
(* that no signal is lost and that the waits never all block, for any      *)
(* number of threads and of calls.                                         *)
(***************************************************************************)
EXTENDS DisseminationBarrier, WellFoundedInduction, TLAPS

\* How far around the ring u is from t, in the direction of the signals.
Ahead(t, u) == IF t <= u THEN u - t ELSE u - t + num_threads

InRound(t) == pc[t] \in {"meet", "send", "receive", "reset"}

\* Rounds that a thread has begun in its call.
Begun(t) == IF pc[t] = "out" THEN 0 ELSE i[t] + (IF InRound(t) THEN 1 ELSE 0)

\* Rounds of its call in which it has met its partner.
Met(t) == i[t] + (IF pc[t] \in {"send", "receive", "reset"} THEN 1 ELSE 0)

\* The type of the state, with what the program counter says of the round.
Shape ==
    /\ round_no \in [Threads -> Nat]
    /\ msg_received \in [Threads -> Threads \cup {-1}]
    /\ pc \in [Threads -> {"out", "loop", "meet", "send", "receive", "reset"}]
    /\ i \in [Threads -> 0..total_rounds]
    /\ calls \in [Threads -> 0..Calls]
    /\ \A t \in Threads : pc[t] # "out" => calls[t] < Calls
    /\ \A t \in Threads : InRound(t) => i[t] < total_rounds

\* A round number counts the rounds of all calls.
Position ==
    \A t \in Threads : round_no[t] = total_rounds * calls[t] + Begun(t)

\* After r rounds a thread knows that the next pow2[r] - 1 threads of the ring
\* have entered the call that it is in itself.
Knowledge ==
    \A t \in Threads : pc[t] # "out" =>
        \A u \in Threads : Ahead(t, u) < pow2[Met(t)] => Entered[u] > calls[t]

Meeting == \A t, u \in Threads : calls[t] <= Entered[u]

\* The inductive invariant.
DInv == Shape /\ Position /\ Knowledge /\ Meeting
-----------------------------------------------------------------------------
\* A remainder on the ring needs one subtraction at most.
LEMMA Wrap ==
    ASSUME NEW t \in Nat, NEW p \in Nat, NEW n \in Nat, n > 0, t + p < 2 * n
    PROVE  (t + p) % n = IF t + p < n THEN t + p ELSE t + p - n
<1>1. CASE t + p < n
  BY <1>1
<1>2. CASE t + p >= n
  BY <1>2
<1> QED
  BY <1>1, <1>2

\* The partner of a round.
LEMMA SendToIs ==
    ASSUME NEW t \in Threads, NEW p \in 0..(num_threads - 1)
    PROVE  (t + p) % num_threads
                = IF t + p < num_threads THEN t + p ELSE t + p - num_threads
<1>1. /\ t \in Nat /\ p \in Nat /\ t + p < 2 * num_threads
      /\ num_threads \in Nat /\ num_threads > 0
  BY ThreadsAssumption DEF Threads
<1> QED
  BY <1>1, Wrap, Zenon

\* What t knows and what its partner knows make twice as much.
LEMMA Doubling ==
    ASSUME NEW t \in Threads, NEW u \in Threads,
           NEW p \in 0..(num_threads - 1),
           Ahead(t, u) < 2 * p
    PROVE  LET s == (t + p) % num_threads IN
           s \in Threads /\ (Ahead(t, u) < p \/ Ahead(s, u) < p)
<1> DEFINE s == (t + p) % num_threads
<1>1. s = IF t + p < num_threads THEN t + p ELSE t + p - num_threads
  BY SendToIs
<1> HIDE DEF s
<1>2. s \in Threads /\ (Ahead(t, u) < p \/ Ahead(s, u) < p)
  BY <1>1, ThreadsAssumption DEF Ahead, Threads
<1> QED
  BY <1>2 DEF s

\* A round number tells the call, but for one that has just ended.
LEMMA SameCall ==
    ASSUME NEW c \in Nat, NEW d \in Nat,
           NEW x \in 1..total_rounds, NEW y \in 0..total_rounds,
           total_rounds * c + x = total_rounds * d + y
    PROVE  \/ c = d /\ x = y
           \/ d = c + 1 /\ y = 0
<1>0. total_rounds \in Nat
  BY RoundsAssumption
<1>1. CASE d < c
  <2>1. total_rounds * d + total_rounds <= total_rounds * c
    BY <1>0, <1>1
  <2> QED
    BY <1>0, <2>1
<1>2. CASE d = c
  BY <1>0, <1>2
<1>3. CASE d = c + 1
  <2>1. total_rounds * d = total_rounds * c + total_rounds
    BY <1>0, <1>3
  <2> QED
    BY <1>0, <1>3, <2>1
<1>4. CASE d > c + 1
  <2>1. total_rounds * c + 2 * total_rounds <= total_rounds * d
    BY <1>0, <1>4
  <2> QED
    BY <1>0, <2>1
<1> QED
  BY <1>1, <1>2, <1>3, <1>4
-----------------------------------------------------------------------------
LEMMA InitHolds == Init => DInv
<1>1. SUFFICES ASSUME Init PROVE DInv
  OBVIOUS
<1>2. Shape
  BY <1>1, RoundsAssumption, LoopAssumption DEF Init, Shape, InRound
<1>5. Position
  BY <1>1, RoundsAssumption DEF Init, Position, Begun
<1>3. Knowledge
  BY <1>1 DEF Init, Knowledge
<1>4. Meeting
  BY <1>1 DEF Init, Meeting, Entered
<1> QED
  BY <1>2, <1>3, <1>4, <1>5 DEF DInv

\* Where a thread is: the facts about one thread that its own step changes.
LEMMA Others ==
    ASSUME Shape, Knowledge, Meeting, Shape', NEW t \in Threads,
           \A u \in Threads \ {t} :
                pc'[u] = pc[u] /\ i'[u] = i[u] /\ calls'[u] = calls[u],
           \A u \in Threads : Entered'[u] >= Entered[u],
           pc'[t] # "out" =>
                \A u \in Threads : Ahead(t, u) < pow2[Met(t)'] => Entered'[u] > calls'[t],
           \A u \in Threads : calls'[t] <= Entered'[u]
    PROVE  Knowledge' /\ Meeting'
<1>1. \A u \in Threads : Entered[u] \in Nat /\ Entered'[u] \in Nat
  BY DEF Shape, Entered
<1>2. ASSUME NEW s \in Threads, s # t, pc'[s] # "out",
             NEW u \in Threads, Ahead(s, u) < pow2[Met(s)']
      PROVE  Entered'[u] > calls'[s]
  <2>1. Met(s)' = Met(s) /\ calls'[s] = calls[s] /\ pc[s] # "out"
    BY <1>2 DEF Met
  <2>2. Entered[u] > calls[s]
    BY <1>2, <2>1 DEF Knowledge
  <2> QED
    BY <1>1, <2>1, <2>2 DEF Shape
<1>3. Knowledge'
  BY <1>2 DEF Knowledge, Ahead
<1>4. ASSUME NEW s \in Threads, s # t, NEW u \in Threads
      PROVE  calls'[s] <= Entered'[u]
  <2>1. calls[s] <= Entered[u] /\ calls'[s] = calls[s]
    BY <1>4 DEF Meeting
  <2> QED
    BY <1>1, <2>1 DEF Shape
<1>5. Meeting'
  BY <1>4 DEF Meeting
<1> QED
  BY <1>3, <1>5

LEMMA PowFacts ==
    ASSUME NEW r \in 0..(total_rounds - 1)
    PROVE  /\ r \in 0..total_rounds /\ r + 1 \in 0..total_rounds
           /\ pow2[r] \in 0..(num_threads - 1)
           /\ pow2[r + 1] = 2 * pow2[r]
           /\ pow2[r] <= pow2[r + 1]
<1>1. total_rounds \in Nat /\ r \in 0..total_rounds /\ r + 1 \in 1..total_rounds
  BY RoundsAssumption
<1>2. pow2[r] \in Nat /\ pow2[r] < num_threads
  BY <1>1, RoundsAssumption
<1>3. pow2[r + 1] = 2 * pow2[(r + 1) - 1] /\ (r + 1) - 1 = r
  BY <1>1, RoundsAssumption
<1> QED
  BY <1>1, <1>2, <1>3, ThreadsAssumption

LEMMA AheadType ==
    ASSUME NEW t \in Threads, NEW u \in Threads
    PROVE  Ahead(t, u) \in 0..(num_threads - 1) /\ (Ahead(t, u) = 0 => t = u)
BY ThreadsAssumption DEF Ahead, Threads

\* No step of a thread takes back that it has entered a call.
LEMMA EnteredGrows ==
    ASSUME Shape, NEW t \in Threads, Step(t)
    PROVE  /\ \A u \in Threads \ {t} :
                pc'[u] = pc[u] /\ i'[u] = i[u] /\ calls'[u] = calls[u]
           /\ \A u \in Threads : Entered'[u] >= Entered[u]
<1>1. CASE Enter(t)
  BY <1>1 DEF Enter, Goto, Shape, Entered
<1>2. CASE StartRound(t) \/ Meet(t) \/ Send(t) \/ Receive(t)
  BY <1>2 DEF StartRound, Meet, Send, Receive, Goto, Shape, Entered
<1>3. CASE Reset(t)
  BY <1>3, RoundsAssumption DEF Reset, Goto, Shape, Entered
<1>4. CASE Leave(t)
  BY <1>4 DEF Leave, Goto, Shape, Entered
<1> QED
  BY <1>1, <1>2, <1>3, <1>4 DEF Step

LEMMA ShapeStep ==
    ASSUME Shape, NEW t \in Threads, Step(t)
    PROVE  Shape'
<1>0. total_rounds \in Nat /\ Calls \in Nat
  BY RoundsAssumption, LoopAssumption
<1>a. InRound(t) => i[t] \in 0..(total_rounds - 1)
  BY <1>0 DEF Shape
<1>1. CASE Enter(t)
  BY <1>0, <1>a, <1>1 DEF Enter, Goto, Shape, InRound
<1>2. CASE StartRound(t)
  BY <1>0, <1>a, <1>2 DEF StartRound, Goto, Shape, InRound
<1>3. CASE Meet(t)
  BY <1>0, <1>a, <1>3 DEF Meet, Goto, Shape, InRound
<1>4. CASE Send(t)
  <2>1. pow2[i[t]] \in 0..(num_threads - 1)
    BY <1>4, <1>a, PowFacts DEF Send, Goto, InRound
  <2>2. SendTo(t) = IF t + pow2[i[t]] < num_threads
                    THEN t + pow2[i[t]] ELSE t + pow2[i[t]] - num_threads
    BY <2>1, SendToIs, Zenon DEF SendTo
  <2>3. SendTo(t) \in Threads
    BY <2>1, <2>2, ThreadsAssumption DEF Threads
  <2> QED
    BY <1>4, <2>3 DEF Send, Goto, Shape, InRound
<1>5. CASE Receive(t)
  BY <1>5 DEF Receive, Goto, Shape, InRound
<1>6. CASE Reset(t)
  BY <1>0, <1>a, <1>6 DEF Reset, Goto, Shape, InRound
<1>7. CASE Leave(t)
  BY <1>0, <1>a, <1>7 DEF Leave, Goto, Shape, InRound
<1> QED
  BY <1>1, <1>2, <1>3, <1>4, <1>5, <1>6, <1>7 DEF Step

LEMMA PositionStep ==
    ASSUME Shape, Position, Shape', NEW t \in Threads, Step(t)
    PROVE  Position'
<1>0. total_rounds \in Nat
  BY RoundsAssumption
<1>1. ASSUME NEW u \in Threads, u # t
      PROVE  round_no'[u] = total_rounds * calls'[u] + Begun(u)'
  <2>1. round_no'[u] = round_no[u]
    BY <1>1 DEF Step, Enter, StartRound, Meet, Send, Receive, Reset, Leave, Shape
  <2>2. calls'[u] = calls[u] /\ Begun(u)' = Begun(u)
    BY <1>1, EnteredGrows DEF Begun, InRound
  <2> QED
    BY <2>1, <2>2 DEF Position
<1>2. round_no[t] = total_rounds * calls[t] + Begun(t)
  BY DEF Position
<1>3. CASE Enter(t)
  <2>1. Begun(t) = 0 /\ Begun(t)' = 0 /\ calls' = calls /\ round_no' = round_no
    BY <1>3 DEF Enter, Goto, Shape, Begun, InRound
  <2> QED
    BY <1>1, <1>2, <2>1 DEF Position
<1>4. CASE StartRound(t)
  <2>1. /\ Begun(t)' = Begun(t) + 1 /\ calls' = calls
        /\ round_no'[t] = round_no[t] + 1 /\ Begun(t) \in Nat
    BY <1>4, <1>0 DEF StartRound, Goto, Shape, Begun, InRound
  <2> DEFINE x == total_rounds * calls[t]
  <2>2. x \in Nat
    BY <1>0 DEF Shape
  <2>3. round_no[t] = x + Begun(t)
    BY <1>2
  <2> HIDE DEF x
  <2>4. round_no'[t] = x + Begun(t)'
    BY <2>1, <2>2, <2>3
  <2>5. round_no'[t] = total_rounds * calls'[t] + Begun(t)'
    BY <2>1, <2>4 DEF x
  <2> QED
    BY <1>1, <2>5 DEF Position
<1>5. CASE Meet(t) \/ Send(t) \/ Receive(t)
  <2>1. Begun(t)' = Begun(t) /\ calls' = calls /\ round_no' = round_no
    BY <1>5 DEF Meet, Send, Receive, Goto, Shape, Begun, InRound
  <2> QED
    BY <1>1, <1>2, <2>1 DEF Position
<1>6. CASE Reset(t)
  <2>1. Begun(t)' = Begun(t) /\ calls' = calls /\ round_no' = round_no
    BY <1>6, <1>0 DEF Reset, Goto, Shape, Begun, InRound
  <2> QED
    BY <1>1, <1>2, <2>1 DEF Position
<1>7. CASE Leave(t)
  <2>1. /\ Begun(t) = total_rounds /\ Begun(t)' = 0
        /\ calls'[t] = calls[t] + 1 /\ round_no' = round_no
    BY <1>7, <1>0 DEF Leave, Goto, Shape, Begun, InRound
  <2>2. total_rounds * (calls[t] + 1) + 0 = total_rounds * calls[t] + total_rounds
    BY <1>0 DEF Shape
  <2>3. round_no'[t] = total_rounds * calls'[t] + Begun(t)'
    BY <1>2, <2>1, <2>2
  <2> QED
    BY <1>1, <2>3 DEF Position
<1> QED
  BY <1>3, <1>4, <1>5, <1>6, <1>7 DEF Step

\* Meeting a partner that has met its partners of the earlier rounds.
LEMMA MeetLearns ==
    ASSUME DInv, NEW t \in Threads, Meet(t),
           NEW u \in Threads, Ahead(t, u) < pow2[i[t] + 1]
    PROVE  Entered[u] > calls[t]
<1> DEFINE p == pow2[i[t]]
           s == SendTo(t)
<1>0. total_rounds \in Nat
  BY RoundsAssumption
<1>1. Shape /\ Position /\ Knowledge /\ Meeting
  BY DEF DInv
<1>2. pc[t] = "meet" /\ i[t] \in 0..(total_rounds - 1) /\ calls[t] \in Nat
  BY <1>0, <1>1 DEF Meet, Goto, Shape, InRound
<1>3. p \in 0..(num_threads - 1) /\ pow2[i[t] + 1] = 2 * p /\ p <= pow2[i[t] + 1]
  BY <1>2, PowFacts
<1>4. Ahead(t, u) < 2 * p
  BY <1>3
<1>5. s \in Threads /\ (Ahead(t, u) < p \/ Ahead(s, u) < p)
  BY <1>3, <1>4, Doubling DEF SendTo
<1>6. CASE Ahead(t, u) < p
  <2>1. Met(t) = i[t]
    BY <1>2 DEF Met
  <2> QED
    BY <1>1, <1>2, <1>6, <2>1 DEF Knowledge
<1>7. CASE Ahead(s, u) < p
  <2>1. round_no[s] = round_no[t]
    BY DEF Meet
  <2>2. Begun(t) = i[t] + 1
    BY <1>2 DEF Begun, InRound
  <2>3. Begun(s) \in 0..total_rounds /\ calls[s] \in Nat
    BY <1>0, <1>1, <1>5 DEF Shape, Begun, InRound
  <2>4. /\ round_no[t] = total_rounds * calls[t] + Begun(t)
        /\ round_no[s] = total_rounds * calls[s] + Begun(s)
    BY <1>1, <1>5 DEF Position
  <2>5. Begun(t) \in 1..total_rounds
    BY <1>0, <1>2, <2>2
  <2>6. \/ calls[t] = calls[s] /\ Begun(t) = Begun(s)
        \/ calls[s] = calls[t] + 1 /\ Begun(s) = 0
    <3>1. total_rounds * calls[t] + Begun(t) = total_rounds * calls[s] + Begun(s)
      BY <2>1, <2>4
    <3> HIDE DEF s
    <3> QED
      BY <1>2, <2>3, <2>5, <3>1, SameCall
  <2>7. CASE calls[t] = calls[s] /\ Begun(s) = i[t] + 1
    <3>1. pc[s] # "out" /\ (Met(s) = i[t] \/ Met(s) = i[t] + 1)
      BY <1>1, <1>2, <1>5, <2>7 DEF Begun, Met, InRound, Shape
    <3>2. Ahead(s, u) \in Nat /\ pow2[i[t] + 1] \in Nat
      BY <1>3, <1>5, AheadType
    <3>3. Ahead(s, u) < pow2[Met(s)]
      BY <1>3, <1>7, <3>1, <3>2
    <3> QED
      BY <1>1, <1>5, <2>7, <3>1, <3>3 DEF Knowledge
  <2>8. CASE calls[s] = calls[t] + 1
    <3>1. calls[s] <= Entered[u] /\ Entered[u] \in Nat
      BY <1>1, <1>5 DEF Meeting, Shape, Entered
    <3> QED
      BY <1>2, <2>8, <3>1
  <2> QED
    BY <2>2, <2>6, <2>7, <2>8
<1> QED
  BY <1>5, <1>6, <1>7

\* After the last round a thread has heard of everybody.
LEMMA LeaveKnows ==
    ASSUME DInv, NEW t \in Threads, Leave(t), NEW u \in Threads
    PROVE  Entered[u] > calls[t]
<1>1. Shape /\ Knowledge
  BY DEF DInv
<1>2. pc[t] = "loop" /\ Met(t) = total_rounds
  BY <1>1, RoundsAssumption DEF Leave, Goto, Met
<1>3. Ahead(t, u) < pow2[Met(t)]
  BY <1>2, AheadType, RoundsAssumption, ThreadsAssumption
<1> QED
  BY <1>1, <1>2, <1>3 DEF Knowledge

LEMMA KnowledgeStep ==
    ASSUME DInv, Shape', NEW t \in Threads, Step(t)
    PROVE  Knowledge' /\ Meeting'
<1>1. Shape /\ Knowledge /\ Meeting
  BY DEF DInv
<1>2. /\ \A u \in Threads \ {t} :
            pc'[u] = pc[u] /\ i'[u] = i[u] /\ calls'[u] = calls[u]
      /\ \A u \in Threads : Entered'[u] >= Entered[u]
  BY <1>1, EnteredGrows
<1>3. \A u \in Threads : Entered[u] \in Nat /\ Entered'[u] \in Nat /\ calls[u] \in Nat
  BY <1>1 DEF Shape, Entered
<1>4. CASE Enter(t)
  <2>1. calls' = calls /\ Met(t)' = 0 /\ Entered'[t] = calls[t] + 1
    BY <1>1, <1>4 DEF Enter, Goto, Shape, Met, Entered
  <2>2. ASSUME NEW u \in Threads, Ahead(t, u) < pow2[Met(t)']
        PROVE  Entered'[u] > calls'[t]
    <3>1. Ahead(t, u) = 0
      BY <2>1, <2>2, AheadType, RoundsAssumption, ThreadsAssumption
    <3> QED
      BY <1>3, <2>1, <3>1, AheadType
  <2>3. \A u \in Threads : calls'[t] <= Entered'[u]
    BY <1>1, <1>2, <1>3, <2>1 DEF Meeting
  <2> QED
    BY <1>1, <1>2, <2>2, <2>3, Others
<1>5. CASE StartRound(t) \/ Send(t) \/ Receive(t) \/ Reset(t)
  <2>1. calls' = calls /\ Met(t)' = Met(t) /\ pc[t] # "out"
    <3>1. CASE StartRound(t) \/ Send(t) \/ Receive(t)
      BY <1>1, <3>1 DEF StartRound, Send, Receive, Goto, Shape, Met
    <3>2. CASE Reset(t)
      <4>1. i[t] \in Int
        BY <1>1, RoundsAssumption DEF Shape
      <4> QED
        BY <1>1, <3>2, <4>1 DEF Reset, Goto, Shape, Met
    <3> QED
      BY <1>5, <3>1, <3>2
  <2>2. ASSUME NEW u \in Threads, Ahead(t, u) < pow2[Met(t)']
        PROVE  Entered'[u] > calls'[t]
    <3>1. Entered[u] > calls[t]
      BY <1>1, <2>1, <2>2 DEF Knowledge
    <3> QED
      BY <1>2, <1>3, <2>1, <3>1
  <2>3. \A u \in Threads : calls'[t] <= Entered'[u]
    BY <1>1, <1>2, <1>3, <2>1 DEF Meeting
  <2> QED
    BY <1>1, <1>2, <2>2, <2>3, Others
<1>6. CASE Meet(t)
  <2>1. calls' = calls /\ Met(t)' = i[t] + 1
    BY <1>1, <1>6 DEF Meet, Goto, Shape, Met
  <2>2. ASSUME NEW u \in Threads, Ahead(t, u) < pow2[Met(t)']
        PROVE  Entered'[u] > calls'[t]
    <3>1. Entered[u] > calls[t]
      BY <1>6, <2>1, <2>2, MeetLearns
    <3> QED
      BY <1>2, <1>3, <2>1, <3>1
  <2>3. \A u \in Threads : calls'[t] <= Entered'[u]
    BY <1>1, <1>2, <1>3, <2>1 DEF Meeting
  <2> QED
    BY <1>1, <1>2, <2>2, <2>3, Others
<1>7. CASE Leave(t)
  <2>1. calls'[t] = calls[t] + 1 /\ pc'[t] = "out"
    BY <1>1, <1>7 DEF Leave, Goto, Shape
  <2>2. ASSUME NEW u \in Threads PROVE calls'[t] <= Entered'[u]
    <3>1. Entered[u] > calls[t]
      BY <1>7, LeaveKnows
    <3> QED
      BY <1>2, <1>3, <2>1, <3>1
  <2> QED
    BY <1>1, <1>2, <2>1, <2>2, Others
<1> QED
  BY <1>4, <1>5, <1>6, <1>7 DEF Step

LEMMA StutterHolds == DInv /\ UNCHANGED vars => DInv'
BY DEF DInv, Shape, Position, Knowledge, Meeting, Begun, Met, InRound, Entered,
       Ahead, vars
-----------------------------------------------------------------------------
\* The strengthened invariant: after r rounds of a call a thread knows that
\* the next pow2[r] - 1 threads of the ring have entered that call.
THEOREM Invariant == Spec => []DInv
<1>1. DInv /\ [Next]_vars => DInv'
  <2>1. SUFFICES ASSUME DInv, [Next]_vars PROVE DInv'
    OBVIOUS
  <2>2. CASE UNCHANGED vars \/ Terminated
    BY <2>1, <2>2, StutterHolds DEF Terminated
  <2>3. ASSUME NEW t \in Threads, Step(t) PROVE DInv'
    <3>1. Shape /\ Position
      BY <2>1 DEF DInv
    <3>2. Shape'
      BY <2>3, <3>1, ShapeStep
    <3>3. Position'
      BY <2>3, <3>1, <3>2, PositionStep
    <3>4. Knowledge' /\ Meeting'
      BY <2>1, <2>3, <3>2, KnowledgeStep
    <3> QED
      BY <3>2, <3>3, <3>4 DEF DInv
  <2> QED
    BY <2>1, <2>2, <2>3 DEF Next
<1> QED
  BY <1>1, InitHolds, PTL DEF Spec

\* Every variable keeps its type; round_no, which is never reset, does not
\* exceed the rounds of all the calls.
THEOREM TypeCorrect == Spec => []TypeOK
<1>1. DInv => TypeOK
  <2>1. SUFFICES ASSUME DInv, NEW t \in Threads
                 PROVE  round_no[t] \in 0..(Calls * total_rounds)
    BY DEF DInv, Shape, TypeOK
  <2>2. /\ total_rounds \in Nat /\ Calls \in Nat /\ calls[t] \in 0..Calls
        /\ Begun(t) \in 0..total_rounds
        /\ round_no[t] \in Nat
        /\ round_no[t] = total_rounds * calls[t] + Begun(t)
        /\ Begun(t) # 0 => calls[t] < Calls
    BY <2>1, RoundsAssumption, LoopAssumption
       DEF DInv, Shape, Position, Begun, InRound
  <2>3. CASE calls[t] < Calls
    <3>1. total_rounds * calls[t] + total_rounds <= Calls * total_rounds
      BY <2>2, <2>3
    <3> QED
      BY <2>2, <3>1
  <2>4. CASE calls[t] = Calls
    <3>1. total_rounds * calls[t] = Calls * total_rounds /\ Begun(t) = 0
      BY <2>2, <2>4
    <3> QED
      BY <2>2, <3>1
  <2> QED
    BY <2>2, <2>3, <2>4
<1> QED
  BY <1>1, Invariant, PTL

\* A step of a thread is a step of the abstract barrier or changes nothing
\* that it shows.
LEMMA PromiseStep ==
    ASSUME DInv, [Next]_vars
    PROVE  [Promise!Next]_(Promise!bvars)
<1>1. Shape
  BY DEF DInv
<1>2. CASE UNCHANGED vars \/ Terminated
  BY <1>2 DEF Terminated, vars, Promise!bvars, Entered
<1>3. ASSUME NEW t \in Threads, Enter(t)
      PROVE  Promise!Enter(t)
  <2>1. calls' = calls /\ pc[t] = "out" /\ calls[t] < Calls
    BY <1>3 DEF Enter, Goto
  <2>2. Entered' = [Entered EXCEPT ![t] = @ + 1]
    <3>1. Entered'[t] = Entered[t] + 1
      BY <1>1, <1>3, <2>1 DEF Entered, Enter, Goto, Shape
    <3>2. \A u \in Threads \ {t} : Entered'[u] = Entered[u]
      BY <1>1, <1>3, <2>1 DEF Entered, Enter, Goto, Shape
    <3> QED
      BY <3>1, <3>2, Zenon DEF Entered
  <2> QED
    BY <1>1, <2>1, <2>2 DEF Promise!Enter, Entered, Shape
<1>4. ASSUME NEW t \in Threads, Leave(t)
      PROVE  Promise!Return(t)
  <2>1. Entered[t] = calls[t] + 1 /\ calls[t] < Entered[t]
    BY <1>1, <1>4 DEF Entered, Leave, Goto, Shape
  <2>2. \A u \in Threads : Entered[u] >= Entered[t]
    <3>1. \A u \in Threads : Entered[u] > calls[t]
      BY <1>4, LeaveKnows
    <3> QED
      BY <1>1, <2>1, <3>1 DEF Entered, Shape
  <2>3. Entered' = Entered
    BY <1>1, <1>4 DEF Entered, Leave, Goto, Shape
  <2> QED
    BY <1>4, <2>1, <2>2, <2>3 DEF Promise!Return, Leave
<1>5. ASSUME NEW t \in Threads,
             StartRound(t) \/ Meet(t) \/ Send(t) \/ Receive(t) \/ Reset(t)
      PROVE  UNCHANGED Promise!bvars
  <2>1. calls' = calls
    BY <1>5 DEF StartRound, Meet, Send, Receive, Reset
  <2>2. \A u \in Threads : (pc'[u] = "out") <=> (pc[u] = "out")
    BY <1>1, <1>5 DEF StartRound, Meet, Send, Receive, Reset, Goto, Shape
  <2> QED
    BY <2>1, <2>2 DEF Promise!bvars, Entered
<1> QED
  BY <1>2, <1>3, <1>4, <1>5 DEF Next, Step, Promise!Next

\* dissemination.c is a barrier for every number of threads, a power of two
\* or not: log2 rounds are enough for everybody to hear of everybody.
THEOREM Refinement == Spec => Refines
<1>1. Init => Promise!Init
  BY DEF Init, Promise!Init, Entered
<1> QED
  BY <1>1, PromiseStep, Invariant, PTL DEF Spec, Refines, Promise!Spec
-----------------------------------------------------------------------------
(* The signals *)

\* The rounds of all calls that a thread has met its partner in, has sent its
\* signal in, and has received a signal in.
MetRounds(t) == round_no[t] - (IF pc[t] = "meet" THEN 1 ELSE 0)
SentRounds(t) == round_no[t] - (IF pc[t] \in {"meet", "send"} THEN 1 ELSE 0)
TakenRounds(t) ==
    round_no[t] - (IF pc[t] \in {"meet", "send", "receive"} THEN 1 ELSE 0)

\* The number of round k of call c, and the partners of that round.
Indices == 0..(total_rounds - 1)
RoundOf(c, k) == total_rounds * c + k + 1
To(t, k) == (t + pow2[k]) % num_threads
From(t, k) == (num_threads + t - pow2[k]) % num_threads

\* Between rounds the cell is empty; in a round it has the signal of that
\* round, if the partner has sent it, and nothing else.
Cells ==
    \A t \in Threads :
        /\ ~InRound(t) => msg_received[t] = -1
        /\ InRound(t) =>
            \/ /\ msg_received[t] = From(t, i[t])
               /\ SentRounds(From(t, i[t])) >= round_no[t]
            \/ /\ msg_received[t] = -1
               /\ SentRounds(From(t, i[t])) < round_no[t]
               /\ pc[t] # "reset"

\* Who is past the rendezvous of a round had its partner there.
Rendezvous ==
    \A t \in Threads, c \in Nat, k \in Indices :
        RoundOf(c, k) <= MetRounds(t) => RoundOf(c, k) <= round_no[To(t, k)]

\* Who has received in a round has got the signal of its partner.
Answered ==
    \A t \in Threads, c \in Nat, k \in Indices :
        RoundOf(c, k) <= TakenRounds(t) => RoundOf(c, k) <= SentRounds(From(t, k))

SignalInv == Cells /\ Rendezvous /\ Answered

\* Each partner of a round is the other's partner.
LEMMA Partners ==
    ASSUME NEW t \in Threads, NEW k \in Indices
    PROVE  /\ To(t, k) \in Threads /\ From(t, k) \in Threads
           /\ From(To(t, k), k) = t /\ To(From(t, k), k) = t
<1> DEFINE n == num_threads
           p == pow2[k]
<1>1. /\ n \in Nat /\ n > 0 /\ p \in 0..(n - 1)
      /\ \A u \in Threads : u \in Nat /\ u < n
  BY PowFacts, ThreadsAssumption DEF Indices, Threads
<1> HIDE DEF p
<1>2. ASSUME NEW u \in Threads
      PROVE  (n + u - p) % n = IF u < p THEN n + u - p ELSE u - p
  <2>1. /\ u \in Nat /\ n - p \in Nat /\ u + (n - p) < 2 * n
        /\ n + u - p = u + (n - p)
    BY <1>1
  <2>2. (u + (n - p)) % n = IF u + (n - p) < n THEN u + (n - p) ELSE u + (n - p) - n
    BY <1>1, <2>1, Wrap
  <2> QED
    BY <1>1, <2>1, <2>2
<1>3. ASSUME NEW u \in Threads
      PROVE  (u + p) % n = IF u + p < n THEN u + p ELSE u + p - n
  BY <1>1, <1>3, SendToIs, Zenon
<1> DEFINE f == (n + t - p) % n
           s == (t + p) % n
<1>4. f \in Threads /\ s \in Threads
  BY <1>1, <1>2, <1>3 DEF Threads
<1>5. (n + s - p) % n = t
  <2>1. (n + s - p) % n = IF s < p THEN n + s - p ELSE s - p
    BY <1>2, <1>4
  <2>2. s = IF t + p < n THEN t + p ELSE t + p - n
    BY <1>3
  <2> HIDE DEF s
  <2> QED
    BY <1>1, <2>1, <2>2
<1>6. (f + p) % n = t
  <2>1. (f + p) % n = IF f + p < n THEN f + p ELSE f + p - n
    BY <1>3, <1>4
  <2>2. f = IF t < p THEN n + t - p ELSE t - p
    BY <1>2
  <2> HIDE DEF f
  <2> QED
    BY <1>1, <2>1, <2>2
<1> QED
  BY <1>4, <1>5, <1>6 DEF To, From, p

\* A number is that of one round of one call.
LEMMA OneRound ==
    ASSUME NEW c \in Nat, NEW d \in Nat, NEW k \in Indices, NEW l \in Indices
    PROVE  /\ RoundOf(c, k) \in Nat
           /\ RoundOf(c, k) = RoundOf(d, l) => k = l
<1>1. total_rounds \in Nat /\ total_rounds * c \in Nat /\ total_rounds * d \in Nat
  BY RoundsAssumption
<1>2. k \in Nat /\ l \in Nat /\ k + 1 \in 1..total_rounds /\ l + 1 \in 1..total_rounds
      /\ l + 1 \in 0..total_rounds
  BY <1>1 DEF Indices
<1>3. RoundOf(c, k) \in Nat
  BY <1>1, <1>2 DEF RoundOf
<1>4. ASSUME RoundOf(c, k) = RoundOf(d, l)
      PROVE  k = l
  <2>1. total_rounds * c + (k + 1) = total_rounds * d + (l + 1)
    BY <1>1, <1>2, <1>4 DEF RoundOf
  <2>2. \/ c = d /\ k + 1 = l + 1
        \/ d = c + 1 /\ l + 1 = 0
    BY <1>2, <2>1, SameCall
  <2> QED
    BY <1>2, <2>2
<1> QED
  BY <1>3, <1>4

\* The round a thread is in.
LEMMA ThisRound ==
    ASSUME Shape, Position, NEW t \in Threads, InRound(t)
    PROVE  /\ i[t] \in Indices /\ calls[t] \in Nat
           /\ round_no[t] = RoundOf(calls[t], i[t])
           /\ SendTo(t) = To(t, i[t]) /\ RecvFrom(t) = From(t, i[t])
<1>1. total_rounds \in Nat /\ i[t] \in Nat /\ calls[t] \in Nat
  BY RoundsAssumption DEF Shape
<1>2. i[t] \in Indices
  BY <1>1 DEF Shape, Indices
<1>3. round_no[t] = total_rounds * calls[t] + (i[t] + 1)
  BY DEF Position, Begun, InRound
<1>4. total_rounds * calls[t] \in Nat
  BY <1>1
<1> QED
  BY <1>1, <1>2, <1>3, <1>4 DEF RoundOf, SendTo, RecvFrom, To, From

LEMMA CountTypes ==
    ASSUME Shape, NEW t \in Threads
    PROVE  /\ round_no[t] \in Nat /\ MetRounds(t) \in Int
           /\ SentRounds(t) \in Int /\ TakenRounds(t) \in Int
           /\ TakenRounds(t) <= round_no[t]
           /\ round_no[t] - 1 <= TakenRounds(t)
           /\ SentRounds(t) <= MetRounds(t)
BY DEF Shape, MetRounds, SentRounds, TakenRounds

\* What a step does to the counts of its thread and of the others.
LEMMA CountStep ==
    ASSUME Shape, NEW t \in Threads, Step(t)
    PROVE  /\ \A u \in Threads \ {t} :
                /\ round_no'[u] = round_no[u] /\ MetRounds(u)' = MetRounds(u)
                /\ SentRounds(u)' = SentRounds(u) /\ TakenRounds(u)' = TakenRounds(u)
                /\ pc'[u] = pc[u] /\ i'[u] = i[u]
           /\ round_no'[t] = round_no[t] + (IF StartRound(t) THEN 1 ELSE 0)
           /\ MetRounds(t)' = IF Meet(t) THEN round_no[t] ELSE MetRounds(t)
           /\ SentRounds(t)' = IF Send(t) THEN round_no[t] ELSE SentRounds(t)
           /\ TakenRounds(t)' = IF Receive(t) THEN round_no[t] ELSE TakenRounds(t)
<1>1. CASE Enter(t) \/ Leave(t)
  BY <1>1 DEF Enter, Leave, StartRound, Meet, Send, Receive, Goto, Shape,
       MetRounds, SentRounds, TakenRounds
<1>2. CASE StartRound(t)
  BY <1>2 DEF StartRound, Meet, Send, Receive, Goto, Shape,
       MetRounds, SentRounds, TakenRounds
<1>3. CASE Meet(t)
  BY <1>3 DEF StartRound, Meet, Send, Receive, Goto, Shape,
       MetRounds, SentRounds, TakenRounds
<1>4. CASE Send(t)
  BY <1>4 DEF StartRound, Meet, Send, Receive, Goto, Shape,
       MetRounds, SentRounds, TakenRounds
<1>5. CASE Receive(t)
  BY <1>5 DEF StartRound, Meet, Send, Receive, Goto, Shape,
       MetRounds, SentRounds, TakenRounds
<1>6. CASE Reset(t)
  BY <1>6 DEF Reset, StartRound, Meet, Send, Receive, Goto, Shape,
       MetRounds, SentRounds, TakenRounds
<1> QED
  BY <1>1, <1>2, <1>3, <1>4, <1>5, <1>6 DEF Step

LEMMA CountsGrow ==
    ASSUME Shape, Shape', NEW t \in Threads, Step(t), NEW u \in Threads
    PROVE  round_no[u] <= round_no'[u] /\ SentRounds(u) <= SentRounds(u)'
<1>1. /\ round_no[u] \in Nat /\ SentRounds(u) \in Int
      /\ SentRounds(u) <= round_no[u]
  BY DEF Shape, SentRounds
<1> QED
  BY <1>1, CountStep

\* A thread about to send finds its partner waiting in the same round, with an
\* empty cell.
LEMMA SendFindsRoom ==
    ASSUME Shape, Position, SignalInv, NEW t \in Threads, pc[t] = "send"
    PROVE  /\ SendTo(t) \in Threads
           /\ InRound(SendTo(t)) /\ i[SendTo(t)] = i[t]
           /\ round_no[SendTo(t)] = round_no[t]
           /\ pc[SendTo(t)] # "reset"
           /\ msg_received[SendTo(t)] = -1
<1> DEFINE u == SendTo(t)
<1>1. /\ i[t] \in Indices /\ calls[t] \in Nat
      /\ round_no[t] = RoundOf(calls[t], i[t]) /\ u = To(t, i[t])
  BY ThisRound DEF InRound
<1>2. u \in Threads /\ From(u, i[t]) = t
  BY <1>1, Partners
<1> HIDE DEF u
<1>3. MetRounds(t) = round_no[t] /\ SentRounds(t) = round_no[t] - 1
  BY DEF MetRounds, SentRounds, Shape
<1>4. /\ round_no[t] \in Nat /\ round_no[u] \in Nat /\ TakenRounds(u) \in Int
      /\ round_no[u] - 1 <= TakenRounds(u) /\ TakenRounds(u) <= round_no[u]
  BY <1>2, CountTypes
<1>5. round_no[t] <= round_no[u]
  BY <1>1, <1>2, <1>3, <1>4 DEF SignalInv, Rendezvous
<1>6. ~(round_no[t] <= TakenRounds(u))
  BY <1>1, <1>2, <1>3, <1>4 DEF SignalInv, Answered
<1>7. round_no[u] = round_no[t] /\ TakenRounds(u) = round_no[u] - 1
  BY <1>4, <1>5, <1>6
<1>8. pc[u] \in {"meet", "send", "receive"} /\ InRound(u)
  BY <1>2, <1>4, <1>7 DEF TakenRounds, InRound
<1>9. i[u] = i[t]
  <2>1. i[u] \in Indices /\ calls[u] \in Nat /\ round_no[u] = RoundOf(calls[u], i[u])
    BY <1>2, <1>8, ThisRound
  <2>2. RoundOf(calls[u], i[u]) = RoundOf(calls[t], i[t])
    BY <1>1, <1>7, <2>1
  <2> QED
    BY <1>1, <2>1, <2>2, OneRound, Zenon
<1>10. msg_received[u] = -1
  BY <1>2, <1>3, <1>4, <1>7, <1>8, <1>9 DEF SignalInv, Cells
<1> QED
  BY <1>2, <1>7, <1>8, <1>9, <1>10 DEF u

LEMMA RendezvousStep ==
    ASSUME DInv, SignalInv, Shape', NEW t \in Threads, Step(t)
    PROVE  Rendezvous'
<1>1. SUFFICES ASSUME NEW s \in Threads, NEW c \in Nat, NEW k \in Indices,
                      RoundOf(c, k) <= MetRounds(s)'
               PROVE  RoundOf(c, k) <= round_no'[To(s, k)]
  BY DEF Rendezvous, RoundOf, To
<1>2. Shape /\ Position /\ Rendezvous
  BY DEF DInv, SignalInv
<1>3. /\ To(s, k) \in Threads
      /\ round_no[To(s, k)] \in Nat /\ round_no'[To(s, k)] \in Nat
      /\ round_no[To(s, k)] <= round_no'[To(s, k)]
  BY <1>2, Partners, CountsGrow DEF Shape
<1>4. RoundOf(c, k) \in Nat
  BY OneRound
<1>5. CASE RoundOf(c, k) <= MetRounds(s)
  <2>1. RoundOf(c, k) <= round_no[To(s, k)]
    BY <1>2, <1>5 DEF Rendezvous
  <2> QED
    BY <1>3, <1>4, <2>1
<1>6. CASE ~(RoundOf(c, k) <= MetRounds(s))
  <2>1. s = t /\ Meet(t) /\ MetRounds(t)' = round_no[t]
    BY <1>1, <1>2, <1>6, CountStep
  <2>2. InRound(t) /\ MetRounds(t) = round_no[t] - 1 /\ round_no[t] \in Nat
    BY <1>2, <2>1 DEF Meet, Goto, InRound, MetRounds, Shape
  <2>3. RoundOf(c, k) = round_no[t]
    BY <1>1, <1>4, <1>6, <2>1, <2>2
  <2>4. /\ i[t] \in Indices /\ calls[t] \in Nat
        /\ round_no[t] = RoundOf(calls[t], i[t]) /\ SendTo(t) = To(t, i[t])
    BY <1>2, <2>2, ThisRound
  <2>5. k = i[t]
    <3>1. RoundOf(c, k) = RoundOf(calls[t], i[t])
      BY <2>3, <2>4
    <3> QED
      BY <2>4, <3>1, OneRound, Zenon
  <2>6. round_no[To(s, k)] = round_no[t]
    BY <2>1, <2>4, <2>5 DEF Meet
  <2> QED
    BY <1>3, <2>2, <2>3, <2>6
<1> QED
  BY <1>5, <1>6

LEMMA AnsweredStep ==
    ASSUME DInv, SignalInv, Shape', NEW t \in Threads, Step(t)
    PROVE  Answered'
<1>1. SUFFICES ASSUME NEW s \in Threads, NEW c \in Nat, NEW k \in Indices,
                      RoundOf(c, k) <= TakenRounds(s)'
               PROVE  RoundOf(c, k) <= SentRounds(From(s, k))'
  BY DEF Answered, RoundOf, From, SentRounds
<1>2. Shape /\ Position /\ Answered /\ Cells
  BY DEF DInv, SignalInv
<1> DEFINE v == From(s, k)
<1>3. v \in Threads
  BY Partners
<1> HIDE DEF v
<1>4. /\ SentRounds(v) \in Int /\ SentRounds(v)' \in Int
      /\ SentRounds(v) <= SentRounds(v)'
  BY <1>2, <1>3, CountsGrow DEF Shape, SentRounds
<1>5. RoundOf(c, k) \in Nat
  BY OneRound
<1>6. CASE RoundOf(c, k) <= TakenRounds(s)
  <2>1. RoundOf(c, k) <= SentRounds(v)
    BY <1>2, <1>6 DEF Answered, v
  <2>2. RoundOf(c, k) <= SentRounds(v)'
    BY <1>4, <1>5, <2>1
  <2> QED
    BY <2>2 DEF v
<1>7. CASE ~(RoundOf(c, k) <= TakenRounds(s))
  <2>1. s = t /\ Receive(t) /\ TakenRounds(t)' = round_no[t]
    BY <1>1, <1>2, <1>7, CountStep
  <2>2. /\ InRound(t) /\ TakenRounds(t) = round_no[t] - 1 /\ round_no[t] \in Nat
        /\ msg_received[t] = RecvFrom(t)
    BY <1>2, <2>1 DEF Receive, Goto, InRound, TakenRounds, Shape
  <2>3. RoundOf(c, k) = round_no[t]
    BY <1>1, <1>5, <1>7, <2>1, <2>2
  <2>4. /\ i[t] \in Indices /\ calls[t] \in Nat
        /\ round_no[t] = RoundOf(calls[t], i[t]) /\ RecvFrom(t) = From(t, i[t])
    BY <1>2, <2>2, ThisRound
  <2>5. k = i[t]
    <3>1. RoundOf(c, k) = RoundOf(calls[t], i[t])
      BY <2>3, <2>4
    <3> QED
      BY <2>4, <3>1, OneRound, Zenon
  <2>6. v = From(t, i[t]) /\ msg_received[t] = v /\ v # -1
    BY <1>3, <2>1, <2>2, <2>4, <2>5, ThreadsAssumption DEF v, Threads
  <2>7. SentRounds(v) >= round_no[t]
    BY <1>2, <2>2, <2>6 DEF Cells
  <2>8. RoundOf(c, k) <= SentRounds(v)'
    BY <1>4, <2>2, <2>3, <2>7
  <2> QED
    BY <2>8 DEF v
<1> QED
  BY <1>6, <1>7

LEMMA CellsStep ==
    ASSUME DInv, SignalInv, DInv', NEW t \in Threads, Step(t)
    PROVE  Cells'
<1>1. /\ Shape /\ Position /\ Cells /\ Rendezvous /\ Shape' /\ Position'
      /\ msg_received \in [Threads -> Threads \cup {-1}]
  BY DEF DInv, SignalInv, Shape
<1> DEFINE C(s) ==
        /\ ~InRound(s) => msg_received[s] = -1
        /\ InRound(s) =>
            \/ /\ msg_received[s] = From(s, i[s])
               /\ SentRounds(From(s, i[s])) >= round_no[s]
            \/ /\ msg_received[s] = -1
               /\ SentRounds(From(s, i[s])) < round_no[s]
               /\ pc[s] # "reset"
<1>2. \A s \in Threads : C(s)
  BY <1>1 DEF Cells
<1>3. SUFFICES ASSUME NEW s \in Threads PROVE C(s)'
  BY DEF Cells, InRound, From, SentRounds
<1>4. -1 \notin Threads
  BY ThreadsAssumption DEF Threads
\* Sending, as the receiver and as the others see it.
<1>5. CASE Send(t)
  <2> DEFINE u == SendTo(t)
  <2>1. /\ pc[t] = "send" /\ InRound(t) /\ pc'[t] = "receive"
        /\ i' = i /\ round_no' = round_no
        /\ SentRounds(t) = round_no[t] - 1 /\ SentRounds(t)' = round_no[t]
        /\ \A w \in Threads \ {t} : SentRounds(w)' = SentRounds(w)
        /\ InRound(s)' <=> InRound(s)
        /\ pc'[s] = "reset" <=> pc[s] = "reset"
    BY <1>1, <1>5 DEF Send, Goto, Shape, InRound, SentRounds
  <2>2. /\ u \in Threads /\ InRound(u) /\ i[u] = i[t] /\ round_no[u] = round_no[t]
        /\ pc[u] # "reset" /\ msg_received[u] = -1
    BY <1>1, <2>1, SendFindsRoom
  <2>3. From(u, i[u]) = t
    BY <1>1, <2>1, <2>2, ThisRound, Partners
  <2>4. msg_received' = [msg_received EXCEPT ![u] = t]
    BY <1>5 DEF Send
  <2> HIDE DEF u
  <2>5. CASE s = u
    <3>1. From(s, i[s])' = t
      BY <2>1, <2>3, <2>5 DEF From
    <3>2. msg_received'[s] = t /\ SentRounds(t)' >= round_no'[s] /\ InRound(s)'
      BY <1>1, <2>1, <2>2, <2>4, <2>5 DEF Shape
    <3> QED
      BY <3>1, <3>2 DEF SentRounds
  <2>6. CASE s # u
    <3>1. msg_received'[s] = msg_received[s] /\ From(s, i[s])' = From(s, i[s])
      BY <1>1, <2>1, <2>2, <2>4, <2>6 DEF From
    <3>2. CASE ~InRound(s)
      BY <1>2, <2>1, <3>1, <3>2
    <3>3. CASE InRound(s)
      <4> DEFINE f == From(s, i[s])
      <4>1. f \in Threads /\ round_no[s] \in Nat /\ round_no[t] \in Nat
        BY <1>1, <3>3, ThisRound, Partners DEF Shape
      <4>2. f = t => round_no[s] # round_no[t]
        <5>1. SUFFICES ASSUME f = t, round_no[s] = round_no[t] PROVE FALSE
          OBVIOUS
        <5>2. /\ i[s] \in Indices /\ calls[s] \in Nat
              /\ round_no[s] = RoundOf(calls[s], i[s])
              /\ i[t] \in Indices /\ calls[t] \in Nat
              /\ round_no[t] = RoundOf(calls[t], i[t]) /\ u = To(t, i[t])
          BY <1>1, <2>1, <3>3, ThisRound DEF u
        <5>3. RoundOf(calls[s], i[s]) = RoundOf(calls[t], i[t])
          BY <5>1, <5>2
        <5>4. i[s] = i[t]
          BY <5>2, <5>3, OneRound, Zenon
        <5>5. To(t, i[t]) = s
          BY <5>1, <5>2, <5>4, Partners
        <5> QED
          BY <2>6, <5>2, <5>5
      <4> HIDE DEF f
      <4>3. /\ SentRounds(f)' >= round_no'[s] <=> SentRounds(f) >= round_no[s]
            /\ SentRounds(f)' < round_no'[s] <=> SentRounds(f) < round_no[s]
        <5>1. f' = f
          BY <3>1 DEF f
        <5>2. CASE f = t
          <6>1. SentRounds(f)' = round_no[t] /\ SentRounds(f) = round_no[t] - 1
            BY <2>1, <5>1, <5>2 DEF SentRounds
          <6> QED
            BY <2>1, <4>1, <4>2, <5>2, <6>1
        <5>3. CASE f # t
          <6>1. SentRounds(f)' = SentRounds(f)
            BY <2>1, <4>1, <5>1, <5>3 DEF SentRounds
          <6> QED
            BY <2>1, <6>1
        <5> QED
          BY <5>2, <5>3
      <4>4. /\ SentRounds(From(s, i[s]))' >= round_no'[s]
                    <=> SentRounds(From(s, i[s])) >= round_no[s]
            /\ SentRounds(From(s, i[s]))' < round_no'[s]
                    <=> SentRounds(From(s, i[s])) < round_no[s]
        BY <3>1, <4>3 DEF f, SentRounds
      <4> QED
        BY <1>2, <2>1, <3>1, <3>3, <4>4
    <3> QED
      BY <3>2, <3>3
  <2> QED
    BY <2>5, <2>6
\* Nobody else sends: only t can lose what it has.
<1>6. CASE ~Send(t)
  <2>1. \A w \in Threads : SentRounds(w)' = SentRounds(w)
    BY <1>1, <1>6, CountStep
  <2>2. CASE s # t
    <3>1. /\ pc'[s] = pc[s] /\ i'[s] = i[s] /\ round_no'[s] = round_no[s]
          /\ msg_received'[s] = msg_received[s]
      BY <1>1, <1>6, <2>2 DEF Step, Enter, StartRound, Meet, Receive, Reset,
           Leave, Goto, Shape
    <3>2. (InRound(s)' <=> InRound(s)) /\ From(s, i[s])' = From(s, i[s])
      BY <3>1 DEF InRound, From
    <3>3. CASE ~InRound(s)
      BY <1>2, <3>1, <3>2, <3>3
    <3>4. CASE InRound(s)
      <4>1. From(s, i[s]) \in Threads
        BY <1>1, <3>4, ThisRound, Partners
      <4>2. SentRounds(From(s, i[s]))' = SentRounds(From(s, i[s]))
        BY <2>1, <3>2, <4>1 DEF SentRounds
      <4> QED
        BY <1>2, <3>1, <3>2, <3>4, <4>2
    <3> QED
      BY <3>3, <3>4
  <2>3. CASE s = t
    <3>1. CASE Enter(t) \/ Leave(t)
      <4>1. /\ ~InRound(t) /\ ~InRound(t)' /\ msg_received' = msg_received
        BY <1>1, <3>1 DEF Enter, Leave, Goto, Shape, InRound
      <4> QED
        BY <1>2, <2>3, <4>1
    <3>2. CASE Meet(t) \/ Receive(t)
      <4>1. /\ InRound(t) /\ InRound(t)' /\ msg_received' = msg_received
            /\ i' = i /\ round_no' = round_no
            /\ pc'[t] = "reset" => msg_received[t] = RecvFrom(t)
        BY <1>1, <3>2 DEF Meet, Receive, Goto, Shape, InRound
      <4>2. /\ From(t, i[t]) \in Threads /\ RecvFrom(t) = From(t, i[t])
            /\ From(t, i[t])' = From(t, i[t])
        BY <1>1, <4>1, ThisRound, Partners DEF From
      <4>3. SentRounds(From(t, i[t]))' = SentRounds(From(t, i[t]))
        BY <2>1, <4>2 DEF SentRounds
      <4> QED
        BY <1>2, <1>4, <2>3, <4>1, <4>2, <4>3
    <3>3. CASE Reset(t)
      BY <1>1, <2>3, <3>3 DEF Reset, Goto, Shape, InRound
    <3>4. CASE StartRound(t)
      <4>1. /\ ~InRound(t) /\ InRound(t)' /\ msg_received' = msg_received
            /\ i' = i /\ round_no'[t] = round_no[t] + 1 /\ pc'[t] = "meet"
            /\ calls' = calls
        BY <1>1, <3>4 DEF StartRound, Goto, Shape, InRound
      <4>2. msg_received'[t] = -1
        BY <1>2, <4>1
      <4>3. /\ i[t] \in Indices /\ calls[t] \in Nat
            /\ round_no'[t] = RoundOf(calls[t], i[t])
        <5>1. /\ total_rounds \in Nat /\ i[t] \in 0..total_rounds /\ calls[t] \in Nat
              /\ i[t] < total_rounds
          BY <1>1, <3>4, RoundsAssumption DEF Shape, StartRound
        <5>2. round_no[t] = total_rounds * calls[t] + i[t] /\ total_rounds * calls[t] \in Nat
          BY <1>1, <4>1, <5>1, <3>4 DEF Position, Begun, InRound, StartRound, Goto
        <5> QED
          BY <4>1, <5>1, <5>2 DEF Indices, RoundOf
      <4> DEFINE f == From(t, i[t])
      <4>4. f \in Threads /\ To(f, i[t]) = t /\ f' = f
        BY <4>1, <4>3, Partners DEF From
      <4> HIDE DEF f
      <4>5. /\ round_no[t] \in Nat /\ SentRounds(f) \in Int /\ MetRounds(f) \in Int
            /\ SentRounds(f) <= MetRounds(f)
        BY <1>1, <4>4, CountTypes
      <4>6. RoundOf(calls[t], i[t]) <= MetRounds(f) =>
                RoundOf(calls[t], i[t]) <= round_no[t]
        BY <1>1, <4>3, <4>4 DEF Rendezvous
      <4>7. SentRounds(f) < round_no'[t]
        BY <4>1, <4>3, <4>5, <4>6
      <4>8. SentRounds(From(t, i[t]))' < round_no'[t]
        BY <2>1, <4>4, <4>7 DEF f, SentRounds
      <4> QED
        BY <2>3, <4>1, <4>2, <4>8
    <3> QED
      BY <1>6, <3>1, <3>2, <3>3, <3>4 DEF Step
  <2> QED
    BY <2>2, <2>3
<1> QED
  BY <1>5, <1>6
-----------------------------------------------------------------------------
\* Every cell holds the signal of its thread's round or nothing; a thread in a
\* round is waited for by its partner.
THEOREM SignalsKept == Spec => [](DInv /\ SignalInv)
<1>1. Init => SignalInv
  <2>1. SUFFICES ASSUME Init PROVE SignalInv
    OBVIOUS
  <2>2. Cells
    BY <2>1 DEF Init, Cells, InRound
  <2>3. ASSUME NEW t \in Threads, NEW c \in Nat, NEW k \in Indices
        PROVE  RoundOf(c, k) > MetRounds(t) /\ RoundOf(c, k) > TakenRounds(t)
    <3>1. total_rounds \in Nat /\ total_rounds * c \in Nat /\ k \in Nat
      BY RoundsAssumption DEF Indices
    <3>2. RoundOf(c, k) > 0 /\ RoundOf(c, k) \in Nat
      BY <3>1 DEF RoundOf
    <3>3. MetRounds(t) = 0 /\ TakenRounds(t) = 0
      BY <2>1 DEF Init, MetRounds, TakenRounds
    <3> QED
      BY <3>2, <3>3
  <2>4. ASSUME NEW t \in Threads
        PROVE  MetRounds(t) = 0 /\ TakenRounds(t) = 0
    BY <2>1 DEF Init, MetRounds, TakenRounds
  <2>5. Rendezvous /\ Answered
    <3>1. \A c \in Nat, k \in Indices : RoundOf(c, k) \in Nat
      BY OneRound
    <3> QED
      BY <2>3, <2>4, <3>1 DEF Rendezvous, Answered
  <2> QED
    BY <2>2, <2>5 DEF SignalInv
<1>2. DInv /\ DInv' /\ SignalInv /\ [Next]_vars => SignalInv'
  <2>1. SUFFICES ASSUME DInv, DInv', SignalInv, [Next]_vars PROVE SignalInv'
    OBVIOUS
  <2>2. CASE UNCHANGED vars \/ Terminated
    <3>1. UNCHANGED vars
      BY <2>2 DEF Terminated
    <3> QED
      BY <2>1, <3>1 DEF vars, SignalInv, Cells, Rendezvous, Answered, InRound,
           From, To, RoundOf, MetRounds, SentRounds, TakenRounds
  <2>3. ASSUME NEW t \in Threads, Step(t) PROVE SignalInv'
    BY <2>1, <2>3, RendezvousStep, AnsweredStep, CellsStep DEF SignalInv, DInv
  <2> QED
    BY <2>1, <2>2, <2>3 DEF Next
<1> QED
  BY <1>1, <1>2, Invariant, PTL DEF Spec

\* One cell per thread is enough for the signals of all rounds and calls: a
\* signal is put into an empty cell only, and only its receiver takes it away.
THEOREM NoSignalLost == Spec => SignalsAreSeen
<1>1. ASSUME DInv, SignalInv, [Next]_vars
      PROVE  [\A t \in Threads :
                msg_received'[t] # msg_received[t] =>
                    \/ msg_received[t] = -1
                    \/ pc[t] = "reset" /\ pc'[t] = "loop"]_vars
  <2>1. SUFFICES ASSUME NEW t \in Threads, msg_received'[t] # msg_received[t]
                 PROVE  \/ msg_received[t] = -1
                        \/ pc[t] = "reset" /\ pc'[t] = "loop"
    OBVIOUS
  <2>2. Shape /\ Position
    BY <1>1 DEF DInv
  <2>3. PICK s \in Threads : Step(s)
    BY <1>1, <2>1 DEF Next, Terminated, vars
  <2>4. Send(s) \/ Reset(s)
    BY <2>1, <2>3 DEF Step, Enter, StartRound, Meet, Receive, Leave
  <2>5. CASE Send(s)
    <3>1. msg_received[SendTo(s)] = -1
      BY <1>1, <2>2, <2>5, SendFindsRoom DEF Send, Goto
    <3>2. t = SendTo(s)
      BY <2>1, <2>2, <2>5 DEF Send, Shape
    <3> QED
      BY <3>1, <3>2
  <2>6. CASE Reset(s)
    BY <2>1, <2>2, <2>6 DEF Reset, Goto, Shape
  <2> QED
    BY <2>4, <2>5, <2>6
<1> QED
  BY <1>1, SignalsKept, PTL DEF Spec, SignalsAreSeen
-----------------------------------------------------------------------------
(* The waits *)

\* A partner that a thread waits to meet is in that round or has yet to come.
PartnerComes ==
    \A t \in Threads : pc[t] = "meet" => round_no[SendTo(t)] <= round_no[t]

\* The next step of a thread is not a wait, or what it waits for is there.
CanGo(t) ==
    \/ pc[t] = "out" /\ calls[t] < Calls
    \/ pc[t] \in {"loop", "send", "reset"}
    \/ pc[t] = "meet" /\ round_no[SendTo(t)] = round_no[t]
    \/ pc[t] = "receive" /\ msg_received[t] = RecvFrom(t)

Done(t) == pc[t] = "out" /\ calls[t] = Calls

NotStuck == (\A t \in Threads : Done(t)) \/ \E t \in Threads : CanGo(t)

Less == {p \in Nat \X Nat : p[1] < p[2]}

\* Every nonempty set of naturals has a least element.
LEMMA LeastNatural ==
    ASSUME NEW T \in SUBSET Nat, T # {}
    PROVE  \E m \in T : \A k \in T : m <= k
<1>1. OpToRel(<, Nat) = Less
  BY Zenon DEF OpToRel, Less
<1>2. IsWellFoundedOn(Less, Nat)
  BY Zenon, NatLessThanWellFounded, <1>1
<1>3. PICK m \in T : \A k \in T : <<k, m>> \notin Less
  BY <1>2, WFMin
<1>4. ASSUME NEW k \in T PROVE m <= k
  BY <1>3, m \in Nat, k \in Nat, <<k, m>> \notin Less DEF Less
<1> QED
  BY <1>4

LEMMA NoneAhead ==
    ASSUME Shape, Position, SignalInv
    PROVE  PartnerComes
<1>1. SUFFICES ASSUME NEW t \in Threads, pc[t] = "meet"
               PROVE  round_no[SendTo(t)] <= round_no[t]
  BY DEF PartnerComes
<1> DEFINE u == SendTo(t)
<1>2. /\ i[t] \in Indices /\ calls[t] \in Nat
      /\ round_no[t] = RoundOf(calls[t], i[t]) /\ u = To(t, i[t])
  BY <1>1, ThisRound DEF InRound
<1>3. u \in Threads /\ From(u, i[t]) = t
  BY <1>2, Partners
<1> HIDE DEF u
<1>4. /\ round_no[t] \in Nat /\ round_no[u] \in Nat /\ TakenRounds(u) \in Int
      /\ round_no[u] - 1 <= TakenRounds(u)
  BY <1>3, CountTypes
<1>5. SentRounds(t) = round_no[t] - 1
  BY <1>1 DEF SentRounds
<1>6. ~(round_no[t] <= TakenRounds(u))
  BY <1>2, <1>3, <1>4, <1>5 DEF SignalInv, Answered
<1> QED
  BY <1>4, <1>6 DEF u

\* Who is done has the round number that nobody exceeds.
LEMMA DoneIsLast ==
    ASSUME Shape, Position, NEW t \in Threads, NEW u \in Threads, Done(u)
    PROVE  round_no[t] <= round_no[u]
<1>1. /\ total_rounds \in Nat /\ Calls \in Nat /\ calls[t] \in 0..Calls
      /\ Begun(t) \in 0..total_rounds
      /\ Begun(t) # 0 => calls[t] < Calls
      /\ round_no[t] = total_rounds * calls[t] + Begun(t)
  <2>1. total_rounds \in Nat /\ Calls \in Nat /\ calls[t] \in 0..Calls
    BY RoundsAssumption, LoopAssumption DEF Shape
  <2>2. Begun(t) \in 0..total_rounds /\ (Begun(t) # 0 => calls[t] < Calls)
    BY <2>1 DEF Shape, Begun, InRound
  <2>3. round_no[t] = total_rounds * calls[t] + Begun(t)
    BY DEF Position
  <2> QED
    BY <2>1, <2>2, <2>3
<1>2. round_no[u] = total_rounds * Calls
  <2>1. Begun(u) = 0 /\ calls[u] = Calls
    BY DEF Done, Begun
  <2>2. round_no[u] = total_rounds * calls[u] + Begun(u) /\ total_rounds * Calls \in Nat
    BY <1>1 DEF Position
  <2> QED
    BY <2>1, <2>2
<1>3. CASE calls[t] < Calls
  <2>1. total_rounds * calls[t] + total_rounds <= total_rounds * Calls
    BY <1>1, <1>3
  <2>2. total_rounds * calls[t] \in Nat /\ total_rounds * Calls \in Nat
    BY <1>1
  <2> QED
    BY <1>1, <1>2, <2>1, <2>2
<1>4. CASE calls[t] = Calls
  <2>1. total_rounds * calls[t] \in Nat /\ Begun(t) = 0
    BY <1>1, <1>4
  <2> QED
    BY <1>1, <1>2, <1>4, <2>1
<1>5. calls[t] < Calls \/ calls[t] = Calls
  <2>1. Calls \in Nat /\ calls[t] \in 0..Calls
    BY <1>1
  <2> QED
    BY <2>1
<1> QED
  BY <1>3, <1>4, <1>5

\* Of the threads that are not done, one in the earliest round can go on, or
\* the one whose signal it waits for can.
LEMMA EarliestGoes ==
    ASSUME Shape, Position, SignalInv,
           NEW t \in Threads, ~Done(t),
           \A u \in Threads : ~Done(u) => round_no[t] <= round_no[u]
    PROVE  \E u \in Threads : CanGo(u)
<1>1. \A u \in Threads : round_no[t] <= round_no[u]
  BY DoneIsLast
<1>2. ASSUME NEW s \in Threads, pc[s] = "meet", round_no[s] = round_no[t]
      PROVE  CanGo(s)
  <2>1. SendTo(s) \in Threads
    BY <1>2, ThisRound, Partners DEF InRound
  <2>2. round_no[SendTo(s)] <= round_no[s]
    BY <1>2, NoneAhead DEF PartnerComes
  <2>3. round_no[SendTo(s)] = round_no[s]
    BY <1>1, <1>2, <2>1, <2>2 DEF Shape
  <2> QED
    BY <1>2, <2>3 DEF CanGo
<1>3. CASE pc[t] = "meet"
  BY <1>2, <1>3
<1>4. CASE pc[t] = "receive"
  <2> DEFINE v == From(t, i[t])
  <2>1. v \in Threads /\ RecvFrom(t) = v /\ InRound(t)
    BY <1>4, ThisRound, Partners DEF InRound
  <2>2. \/ msg_received[t] = v
        \/ SentRounds(v) < round_no[t]
    BY <2>1 DEF SignalInv, Cells
  <2> HIDE DEF v
  <2>3. CASE msg_received[t] = v
    BY <1>4, <2>1, <2>3 DEF CanGo
  <2>4. CASE SentRounds(v) < round_no[t]
    <3>1. round_no[t] <= round_no[v] /\ round_no[t] \in Nat /\ round_no[v] \in Nat
      BY <1>1, <2>1 DEF Shape
    <3>2. pc[v] \in {"meet", "send"} /\ round_no[v] = round_no[t]
      BY <2>4, <3>1 DEF SentRounds
    <3> QED
      BY <1>2, <2>1, <3>2 DEF CanGo
  <2> QED
    BY <2>2, <2>3, <2>4
<1>5. CASE pc[t] \notin {"meet", "receive"}
  BY <1>5, LoopAssumption DEF Shape, CanGo, Done
<1> QED
  BY <1>3, <1>4, <1>5

\* The rendezvous of a round is never missed, and the waits never form a
\* circle: until the calls have ended some thread can go on, for any number of
\* threads.
THEOREM DeadlockFree == Spec => [](PartnerComes /\ NotStuck)
<1>1. ASSUME DInv, SignalInv PROVE PartnerComes /\ NotStuck
  <2>1. Shape /\ Position
    BY <1>1 DEF DInv
  <2>2. SUFFICES ASSUME NEW t \in Threads, ~Done(t)
                 PROVE  \E u \in Threads : CanGo(u)
    BY <1>1, <2>1, NoneAhead DEF NotStuck
  <2> DEFINE Rounds == {round_no[u] : u \in {v \in Threads : ~Done(v)}}
  <2>3. Rounds \in SUBSET Nat /\ Rounds # {}
    BY <2>1, <2>2 DEF Shape
  <2>5. PICK r \in Rounds : \A x \in Rounds : r <= x
    BY <2>3, LeastNatural
  <2>6. PICK u \in Threads : ~Done(u) /\ round_no[u] = r
    BY <2>5
  <2>7. \A v \in Threads : ~Done(v) => round_no[u] <= round_no[v]
    BY <2>5, <2>6
  <2> QED
    BY <1>1, <2>1, <2>6, <2>7, EarliestGoes
<1> QED
  BY <1>1, SignalsKept, PTL
=============================================================================
