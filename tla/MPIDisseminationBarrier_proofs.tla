------------------- MODULE MPIDisseminationBarrier_proofs -------------------
(***************************************************************************)
(* The dissemination barrier over MPI is a barrier, two messages at most   *)
(* are on their way from one process to another, none is left in the end,  *)
(* and the waits never all block, for any number of processes and calls.   *)
(***************************************************************************)
EXTENDS MPIDisseminationBarrier, WellFoundedInduction, TLAPS

Rounds == 0..(num_rounds - 1)

\* The neighbours of a process in a round.
To(r, j) == (r + pow2[j]) % numProcesses
From(r, j) == (numProcesses - pow2[j] + r) % numProcesses

\* How far around the ring u is behind r.
Behind(r, u) == IF u <= r THEN r - u ELSE r - u + numProcesses

\* Calls in which r has sent, or received, the message of round j.
Sent(r, j) ==
    calls[r] + (IF pc[r] # "out" /\ (i[r] > j \/ (pc[r] = "receive" /\ i[r] = j))
                THEN 1 ELSE 0)
Received(r, j) == calls[r] + (IF pc[r] # "out" /\ i[r] > j THEN 1 ELSE 0)

\* The type of the state, with what the program counter says of the round.
Shape ==
    /\ net \in [Ranks \X Ranks -> Nat]
    /\ pc \in [Ranks -> {"out", "send", "receive"}]
    /\ i \in [Ranks -> 0..num_rounds]
    /\ calls \in [Ranks -> 0..Calls]
    /\ \A r \in Ranks : pc[r] # "out" => calls[r] < Calls
    /\ \A r \in Ranks : pc[r] = "receive" => i[r] < num_rounds

\* A channel belongs to one round: what it carries has been sent in that round
\* and not yet received.  The other channels are empty.
Channels ==
    /\ \A s \in Ranks, j \in Rounds :
            Sent(s, j) = Received(To(s, j), j) + net[<<s, To(s, j)>>]
    /\ \A s, d \in Ranks : (\A j \in Rounds : d # To(s, j)) => net[<<s, d>>] = 0

\* After r rounds a process knows that the pow2[r] - 1 processes behind it have
\* entered the call that it is in itself.
Knowledge ==
    \A r \in Ranks : pc[r] # "out" =>
        \A u \in Ranks : Behind(r, u) < pow2[i[r]] => Entered[u] > calls[r]

Meeting == \A r, u \in Ranks : calls[r] <= Entered[u]

\* The inductive invariant.
MInv == Shape /\ Channels /\ Knowledge /\ Meeting
-----------------------------------------------------------------------------
(* The ring *)

Less == {p \in Nat \X Nat : p[1] < p[2]}

\* Every nonempty set of naturals has a least element.
LEMMA LeastNatural ==
    ASSUME NEW T \in SUBSET Nat, T # {}
    PROVE  \E m \in T : \A k \in T : m <= k
<1>1. OpToRel(<, Nat) = Less
  BY Zenon DEF OpToRel, Less
<1>2. IsWellFoundedOn(Less, Nat)
  BY Zenon, NatLessThanWellFounded, <1>1
<1>3. PICK m \in T : \A k \in T : <<k, m>> \notin Less
  BY <1>2, WFMin
<1>4. ASSUME NEW k \in T PROVE m <= k
  BY <1>3, m \in Nat, k \in Nat, <<k, m>> \notin Less DEF Less
<1> QED
  BY <1>4

\* The powers grow: the first that did not would be the double of one that does.
LEMMA PowGrows ==
    ASSUME NEW k \in 0..num_rounds
    PROVE  pow2[k] >= 1 /\ \A j \in 0..(k - 1) : pow2[j] < pow2[k]
<1> DEFINE Good(m) == pow2[m] >= 1 /\ \A j \in 0..(m - 1) : pow2[j] < pow2[m]
           Wrong == {m \in 0..num_rounds : ~Good(m)}
<1>1. num_rounds \in Nat /\ \A m \in 0..num_rounds : pow2[m] \in Nat
  BY RoundsAssumption
<1>2. SUFFICES ASSUME Wrong # {} PROVE FALSE
  OBVIOUS
<1>3. PICK m \in Wrong : \A l \in Wrong : m <= l
  <2>1. Wrong \in SUBSET Nat
    BY <1>1
  <2> QED
    BY <1>2, <2>1, LeastNatural
<1>4. m # 0
  BY <1>3, RoundsAssumption
<1>5. m \in 1..num_rounds /\ m - 1 \in 0..num_rounds
  BY <1>1, <1>3, <1>4
<1>6. Good(m - 1)
  BY <1>3, <1>5
<1>7. pow2[m] = 2 * pow2[m - 1] /\ pow2[m] \in Nat /\ pow2[m - 1] \in Nat
  BY <1>1, <1>5, RoundsAssumption
<1>8. ASSUME NEW j \in 0..(m - 1) PROVE pow2[j] < pow2[m]
  <2>1. pow2[j] \in Nat
    BY <1>1, <1>5
  <2>2. j = m - 1 \/ j \in 0..((m - 1) - 1)
    BY <1>5
  <2> QED
    BY <1>6, <1>7, <2>1, <2>2
<1>9. Good(m)
  BY <1>6, <1>7, <1>8
<1> QED
  BY <1>3, <1>9

LEMMA PowFacts ==
    ASSUME NEW j \in Rounds
    PROVE  /\ j \in 0..num_rounds /\ j + 1 \in 0..num_rounds
           /\ pow2[j] \in 1..(numProcesses - 1)
           /\ pow2[j + 1] = 2 * pow2[j]
<1>1. num_rounds \in Nat /\ j \in 0..num_rounds /\ j + 1 \in 1..num_rounds
  BY RoundsAssumption DEF Rounds
<1>2. pow2[j] \in Nat /\ pow2[j] < numProcesses
  BY <1>1, RoundsAssumption DEF Rounds
<1>3. pow2[j + 1] = 2 * pow2[(j + 1) - 1] /\ (j + 1) - 1 = j
  BY <1>1, RoundsAssumption
<1>4. pow2[j] >= 1
  BY <1>1, PowGrows
<1> QED
  BY <1>1, <1>2, <1>3, <1>4, ProcessesAssumption

\* A remainder on the ring needs one subtraction at most.
LEMMA Wrap ==
    ASSUME NEW t \in Nat, NEW p \in Nat, NEW n \in Nat, n > 0, t + p < 2 * n
    PROVE  (t + p) % n = IF t + p < n THEN t + p ELSE t + p - n
<1>1. CASE t + p < n
  BY <1>1
<1>2. CASE t + p >= n
  BY <1>2
<1> QED
  BY <1>1, <1>2

LEMMA Neighbours ==
    ASSUME NEW r \in Ranks, NEW j \in Rounds
    PROVE  /\ To(r, j) = IF r + pow2[j] < numProcesses THEN r + pow2[j]
                         ELSE r + pow2[j] - numProcesses
           /\ From(r, j) = IF r < pow2[j] THEN numProcesses - pow2[j] + r
                           ELSE r - pow2[j]
<1>1. /\ numProcesses \in Nat /\ numProcesses > 0 /\ r \in Nat /\ r < numProcesses
      /\ pow2[j] \in 1..(numProcesses - 1)
  BY ProcessesAssumption, PowFacts DEF Ranks
<1>2. To(r, j) = IF r + pow2[j] < numProcesses THEN r + pow2[j]
                 ELSE r + pow2[j] - numProcesses
  <2>1. r + pow2[j] < 2 * numProcesses /\ pow2[j] \in Nat
    BY <1>1
  <2> QED
    BY <1>1, <2>1, Wrap, Zenon DEF To
<1>3. From(r, j) = IF r < pow2[j] THEN numProcesses - pow2[j] + r
                   ELSE r - pow2[j]
  <2> DEFINE back == numProcesses - pow2[j]
  <2>1. back \in Nat /\ back + r < 2 * numProcesses /\ From(r, j) = (back + r) % numProcesses
    BY <1>1 DEF From
  <2> HIDE DEF back
  <2>2. From(r, j) = IF back + r < numProcesses THEN back + r ELSE back + r - numProcesses
    BY <1>1, <2>1, Wrap, Zenon
  <2> QED
    BY <1>1, <2>2 DEF back
<1> QED
  BY <1>2, <1>3

\* Each round has a partner of its own to send to, and one to receive from.
LEMMA Partners ==
    ASSUME NEW r \in Ranks, NEW j \in Rounds
    PROVE  /\ To(r, j) \in Ranks /\ From(r, j) \in Ranks
           /\ To(From(r, j), j) = r
           /\ \A s \in Ranks : To(s, j) = To(r, j) => s = r
           /\ \A k \in Rounds : To(r, k) = To(r, j) => k = j
<1>1. /\ numProcesses \in Nat /\ numProcesses > 0 /\ r \in Nat /\ r < numProcesses
      /\ pow2[j] \in 1..(numProcesses - 1)
  BY ProcessesAssumption, PowFacts DEF Ranks
<1>2. To(r, j) \in Ranks /\ From(r, j) \in Ranks
  BY <1>1, Neighbours DEF Ranks
<1>3. To(From(r, j), j) = r
  <2> DEFINE f == From(r, j)
  <2>1. f = IF r < pow2[j] THEN numProcesses - pow2[j] + r ELSE r - pow2[j]
    BY Neighbours
  <2>2. f \in Ranks
    BY <1>2
  <2> HIDE DEF f
  <2>3. To(f, j) = IF f + pow2[j] < numProcesses THEN f + pow2[j]
                   ELSE f + pow2[j] - numProcesses
    BY <2>2, Neighbours
  <2>4. To(f, j) = r
    BY <1>1, <2>1, <2>3
  <2> QED
    BY <2>4 DEF f
<1>4. ASSUME NEW s \in Ranks, To(s, j) = To(r, j) PROVE s = r
  <2>1. s \in Nat /\ s < numProcesses
    BY <1>1 DEF Ranks
  <2> QED
    BY <1>1, <1>4, <2>1, Neighbours
<1>5. ASSUME NEW k \in Rounds, To(r, k) = To(r, j) PROVE k = j
  <2>1. pow2[k] \in 1..(numProcesses - 1)
    BY PowFacts
  <2>2. pow2[k] = pow2[j]
    BY <1>1, <1>5, <2>1, Neighbours
  <2>3. j \in Nat /\ k \in Nat /\ j \in 0..num_rounds /\ k \in 0..num_rounds
    BY PowFacts DEF Rounds
  <2>4. CASE j < k
    BY <1>1, <2>2, <2>3, <2>4, PowGrows
  <2>5. CASE k < j
    BY <1>1, <2>1, <2>2, <2>3, <2>5, PowGrows
  <2> QED
    BY <2>3, <2>4, <2>5
<1> QED
  BY <1>2, <1>3, <1>4, <1>5

LEMMA BehindType ==
    ASSUME NEW r \in Ranks, NEW u \in Ranks
    PROVE  Behind(r, u) \in 0..(numProcesses - 1) /\ (Behind(r, u) = 0 => r = u)
BY ProcessesAssumption DEF Behind, Ranks

\* What r knows and what its partner knows make twice as much.
LEMMA Doubling ==
    ASSUME NEW r \in Ranks, NEW u \in Ranks, NEW j \in Rounds,
           Behind(r, u) < 2 * pow2[j]
    PROVE  Behind(r, u) < pow2[j] \/ Behind(From(r, j), u) < pow2[j]
<1>1. pow2[j] \in 1..(numProcesses - 1) /\ From(r, j) \in Ranks
  BY PowFacts, Partners
<1>2. From(r, j) = IF r < pow2[j] THEN numProcesses - pow2[j] + r ELSE r - pow2[j]
  BY Neighbours
<1> DEFINE s == From(r, j)
<1> HIDE DEF s
<1>3. Behind(r, u) < pow2[j] \/ Behind(s, u) < pow2[j]
  BY <1>1, <1>2, ProcessesAssumption DEF s, Behind, Ranks
<1> QED
  BY <1>3 DEF s
-----------------------------------------------------------------------------
(* One step of one process *)

LEMMA InitHolds == Init => MInv
<1>1. SUFFICES ASSUME Init PROVE MInv
  OBVIOUS
<1>2. Shape
  BY <1>1, RoundsAssumption, LoopAssumption DEF Init, Shape
<1>3. Channels
  BY <1>1, Partners DEF Init, Channels, Sent, Received
<1>4. Knowledge /\ Meeting
  BY <1>1 DEF Init, Knowledge, Meeting, Entered
<1> QED
  BY <1>2, <1>3, <1>4 DEF MInv

\* The channel that a step uses.
LEMMA Channel ==
    ASSUME Shape, NEW r \in Ranks
    PROVE  /\ Send(r) => /\ pc[r] = "send" /\ i[r] \in Rounds
                         /\ Rank2Send(r) = To(r, i[r])
           /\ Receive(r) => /\ pc[r] = "receive" /\ i[r] \in Rounds
                            /\ Rank2Receive(r) = From(r, i[r])
BY RoundsAssumption
   DEF Shape, Send, Receive, Goto, Rounds, Rank2Send, Rank2Receive, To, From

LEMMA NetStep ==
    ASSUME Shape, NEW r \in Ranks, Step(r)
    PROVE  /\ net' \in [Ranks \X Ranks -> Nat]
           /\ \A s, d \in Ranks : net'[<<s, d>>] - net[<<s, d>>] =
                IF Send(r) /\ s = r /\ d = To(r, i[r]) THEN 1
                ELSE IF Receive(r) /\ s = From(r, i[r]) /\ d = r THEN -1 ELSE 0
<1>1. CASE Send(r)
  <2>1. ~Receive(r)
    BY <1>1 DEF Send, Receive, Goto
  <2>2. net' = [net EXCEPT ![<<r, To(r, i[r])>>] = @ + 1]
    BY <1>1, Channel DEF Send
  <2>3. To(r, i[r]) \in Ranks
    BY <1>1, Channel, Partners
  <2> QED
    BY <1>1, <2>1, <2>2, <2>3 DEF Shape
<1>2. CASE Receive(r)
  <2>1. ~Send(r)
    BY <1>2 DEF Send, Receive, Goto
  <2>2. /\ net' = [net EXCEPT ![<<From(r, i[r]), r>>] = @ - 1]
        /\ net[<<From(r, i[r]), r>>] > 0
    BY <1>2, Channel DEF Receive
  <2>3. From(r, i[r]) \in Ranks
    BY <1>2, Channel, Partners
  <2> QED
    BY <1>2, <2>1, <2>2, <2>3 DEF Shape
<1>3. CASE Enter(r) \/ Leave(r)
  <2>1. net' = net /\ ~Send(r) /\ ~Receive(r)
    BY <1>3, RoundsAssumption DEF Enter, Leave, Send, Receive, Goto, Shape
  <2> QED
    BY <2>1 DEF Shape
<1> QED
  BY <1>1, <1>2, <1>3 DEF Step

LEMMA ShapeStep ==
    ASSUME Shape, NEW r \in Ranks, Step(r)
    PROVE  Shape'
<1>0. num_rounds \in Nat /\ Calls \in Nat
  BY RoundsAssumption, LoopAssumption
<1>1. net' \in [Ranks \X Ranks -> Nat]
  BY NetStep
<1>2. CASE Enter(r)
  BY <1>0, <1>1, <1>2 DEF Enter, Goto, Shape
<1>3. CASE Send(r)
  BY <1>0, <1>1, <1>3 DEF Send, Goto, Shape
<1>4. CASE Receive(r)
  BY <1>0, <1>1, <1>4 DEF Receive, Goto, Shape
<1>5. CASE Leave(r)
  BY <1>0, <1>1, <1>5 DEF Leave, Goto, Shape
<1> QED
  BY <1>2, <1>3, <1>4, <1>5 DEF Step

\* No step takes back that a process has entered a call.
LEMMA EnteredGrows ==
    ASSUME Shape, NEW r \in Ranks, Step(r)
    PROVE  /\ \A u \in Ranks \ {r} :
                pc'[u] = pc[u] /\ i'[u] = i[u] /\ calls'[u] = calls[u]
           /\ \A u \in Ranks : Entered'[u] >= Entered[u]
<1>1. CASE Enter(r)
  BY <1>1 DEF Enter, Goto, Shape, Entered
<1>2. CASE Send(r) \/ Receive(r)
  BY <1>2 DEF Send, Receive, Goto, Shape, Entered
<1>3. CASE Leave(r)
  BY <1>3 DEF Leave, Goto, Shape, Entered
<1> QED
  BY <1>1, <1>2, <1>3 DEF Step

LEMMA Counts ==
    ASSUME Shape, NEW r \in Ranks, NEW j \in Rounds
    PROVE  Sent(r, j) \in Nat /\ Received(r, j) \in Nat
BY DEF Shape, Sent, Received

\* What a step does to the counts.
LEMMA CountsStep ==
    ASSUME Shape, NEW r \in Ranks, Step(r), NEW s \in Ranks, NEW j \in Rounds
    PROVE  /\ Sent(s, j)' =
                Sent(s, j) + (IF Send(r) /\ s = r /\ j = i[r] THEN 1 ELSE 0)
           /\ Received(s, j)' =
                Received(s, j) + (IF Receive(r) /\ s = r /\ j = i[r] THEN 1 ELSE 0)
<1>0. num_rounds \in Nat /\ j \in Nat /\ j < num_rounds /\ i[r] \in Nat
  BY RoundsAssumption DEF Rounds, Shape
<1>1. CASE s # r
  <2>1. Sent(s, j)' = Sent(s, j) /\ Received(s, j)' = Received(s, j)
    BY <1>1, EnteredGrows DEF Sent, Received
  <2> QED
    BY <1>1, <2>1, Counts
<1>2. CASE s = r
  <2>1. CASE Enter(r)
    BY <1>0, <1>2, <2>1 DEF Enter, Send, Receive, Goto, Shape, Sent, Received
  <2>2. CASE Send(r)
    BY <1>0, <1>2, <2>2 DEF Send, Receive, Goto, Shape, Sent, Received
  <2>3. CASE Receive(r)
    BY <1>0, <1>2, <2>3 DEF Send, Receive, Goto, Shape, Sent, Received
  <2>4. CASE Leave(r)
    BY <1>0, <1>2, <2>4 DEF Leave, Send, Receive, Goto, Shape, Sent, Received
  <2> QED
    BY <2>1, <2>2, <2>3, <2>4 DEF Step
<1> QED
  BY <1>1, <1>2

LEMMA ChannelsStep ==
    ASSUME Shape, Channels, NEW r \in Ranks, Step(r)
    PROVE  Channels'
<1>1. Send(r) => i[r] \in Rounds
  BY Channel
<1>2. Receive(r) => i[r] \in Rounds
  BY Channel
<1>3. ASSUME NEW s \in Ranks, NEW j \in Rounds
      PROVE  Sent(s, j)' = Received(To(s, j), j)' + net'[<<s, To(s, j)>>]
  <2> DEFINE d == To(s, j)
  <2>1. d \in Ranks /\ Sent(s, j) = Received(d, j) + net[<<s, d>>]
    BY Partners DEF Channels
  <2>2. /\ Sent(s, j) \in Nat /\ Received(d, j) \in Nat
        /\ net[<<s, d>>] \in Nat /\ net'[<<s, d>>] \in Nat
    BY <2>1, Counts, NetStep DEF Shape
  <2>3. Send(r) /\ s = r => (d = To(r, i[r]) <=> j = i[r])
    BY <1>1, Partners
  <2>4. Receive(r) =>
            (s = From(r, i[r]) /\ d = r <=> d = r /\ j = i[r])
    <3>1. ASSUME Receive(r), d = r, j = i[r] PROVE s = From(r, i[r])
      BY <1>2, <3>1, Partners
    <3>2. ASSUME Receive(r), d = r, s = From(r, i[r]) PROVE j = i[r]
      BY <1>2, <3>2, Partners
    <3> QED
      BY <3>1, <3>2
  <2>5. Sent(s, j)' = Sent(s, j) + (IF Send(r) /\ s = r /\ j = i[r] THEN 1 ELSE 0)
    BY CountsStep
  <2>6. Received(d, j)' =
            Received(d, j) + (IF Receive(r) /\ d = r /\ j = i[r] THEN 1 ELSE 0)
    BY <2>1, CountsStep
  <2>7. net'[<<s, d>>] - net[<<s, d>>] =
            IF Send(r) /\ s = r /\ d = To(r, i[r]) THEN 1
            ELSE IF Receive(r) /\ s = From(r, i[r]) /\ d = r THEN -1 ELSE 0
    BY <2>1, NetStep
  <2>8. ~(Send(r) /\ Receive(r))
    BY DEF Send, Receive, Goto
  <2> HIDE DEF d
  <2>9. Sent(s, j)' = Received(d, j)' + net'[<<s, d>>]
    BY <2>1, <2>2, <2>3, <2>4, <2>5, <2>6, <2>7, <2>8
  <2> QED
    BY <2>9 DEF d
<1>4. ASSUME NEW s \in Ranks, NEW d \in Ranks, \A j \in Rounds : d # To(s, j)
      PROVE  net'[<<s, d>>] = 0
  <2>1. net[<<s, d>>] = 0 /\ net'[<<s, d>>] \in Nat
    BY <1>4, NetStep DEF Channels
  <2>2. ~(Send(r) /\ s = r /\ d = To(r, i[r]))
    BY <1>1, <1>4
  <2>3. ~(Receive(r) /\ s = From(r, i[r]) /\ d = r)
    BY <1>2, <1>4, Partners
  <2>4. net'[<<s, d>>] - net[<<s, d>>] = 0
    BY <2>2, <2>3, NetStep
  <2> QED
    BY <2>1, <2>4
<1> QED
  BY <1>3, <1>4 DEF Channels, To, Rounds
-----------------------------------------------------------------------------
(* Who knows of whom *)

\* The facts about one process that its own step changes.
LEMMA Others ==
    ASSUME Shape, Knowledge, Meeting, Shape', NEW r \in Ranks, Step(r),
           pc'[r] # "out" =>
                \A u \in Ranks : Behind(r, u) < pow2[i'[r]] => Entered'[u] > calls'[r],
           \A u \in Ranks : calls'[r] <= Entered'[u]
    PROVE  Knowledge' /\ Meeting'
<1>1. \A u \in Ranks : Entered[u] \in Nat /\ Entered'[u] \in Nat
  BY DEF Shape, Entered
<1>2. ASSUME NEW s \in Ranks, s # r, pc'[s] # "out",
             NEW u \in Ranks, Behind(s, u) < pow2[i'[s]]
      PROVE  Entered'[u] > calls'[s]
  <2>1. i'[s] = i[s] /\ calls'[s] = calls[s] /\ pc[s] # "out"
    BY <1>2, EnteredGrows
  <2>2. Entered[u] > calls[s] /\ Entered'[u] >= Entered[u]
    BY <1>2, <2>1, EnteredGrows DEF Knowledge
  <2> QED
    BY <1>1, <2>1, <2>2 DEF Shape
<1>3. Knowledge'
  BY <1>2 DEF Knowledge, Behind
<1>4. ASSUME NEW s \in Ranks, s # r, NEW u \in Ranks
      PROVE  calls'[s] <= Entered'[u]
  <2>1. calls[s] <= Entered[u] /\ calls'[s] = calls[s] /\ Entered'[u] >= Entered[u]
    BY <1>4, EnteredGrows DEF Meeting
  <2> QED
    BY <1>1, <2>1 DEF Shape
<1>5. Meeting'
  BY <1>4 DEF Meeting
<1> QED
  BY <1>3, <1>5

\* A message says that its sender has finished the earlier rounds, in the
\* receiver's call or in a later one.
LEMMA ReceiveLearns ==
    ASSUME MInv, NEW r \in Ranks, Receive(r),
           NEW u \in Ranks, Behind(r, u) < pow2[i[r] + 1]
    PROVE  Entered[u] > calls[r]
<1> DEFINE j == i[r]
           s == From(r, j)
<1>1. Shape /\ Channels /\ Knowledge /\ Meeting
  BY DEF MInv
<1>2. pc[r] = "receive" /\ j \in Rounds /\ calls[r] \in Nat /\ j \in Nat
  BY <1>1, Channel DEF Shape, Rounds
<1>3. s \in Ranks /\ To(s, j) = r
  BY <1>2, Partners
<1>4. /\ pow2[j + 1] = 2 * pow2[j] /\ pow2[j] \in Nat
      /\ num_rounds \in Nat /\ \A m \in 0..num_rounds : pow2[m] \in Nat
  BY <1>2, PowFacts, RoundsAssumption DEF Rounds
<1>5. Behind(r, u) < pow2[j] \/ Behind(s, u) < pow2[j]
  BY <1>2, <1>4, Doubling
<1>6. CASE Behind(r, u) < pow2[j]
  BY <1>1, <1>2, <1>6 DEF Knowledge
<1>7. CASE Behind(s, u) < pow2[j]
  <2>1. net[<<s, r>>] > 0 /\ net[<<s, r>>] \in Nat
    BY <1>1, <1>3, Channel DEF Receive, Shape
  <2>2. Sent(s, j) = Received(r, j) + net[<<s, r>>] /\ Sent(s, j) \in Nat
    BY <1>1, <1>2, <1>3, Counts DEF Channels
  <2>3. Received(r, j) = calls[r]
    BY <1>2 DEF Received
  <2> HIDE DEF s, j
  <2>4. Sent(s, j) > calls[r]
    BY <1>2, <2>1, <2>2, <2>3
  <2>5. calls[s] \in Nat /\ i[s] \in 0..num_rounds
    BY <1>1, <1>3 DEF Shape
  <2>6. CASE calls[s] > calls[r]
    <3>1. calls[s] <= Entered[u] /\ Entered[u] \in Nat
      BY <1>1, <1>3 DEF Meeting, Shape, Entered
    <3> QED
      BY <1>2, <2>5, <2>6, <3>1
  <2>7. CASE calls[s] <= calls[r]
    <3>1. pc[s] # "out" /\ i[s] >= j /\ calls[s] = calls[r]
      <4>1. i[s] \in Int /\ calls[s] \in Int /\ calls[r] \in Int /\ j \in Int
        BY <1>2, <1>4, <2>5
      <4>2. \/ Sent(s, j) = calls[s]
            \/ Sent(s, j) = calls[s] + 1 /\ pc[s] # "out" /\ (i[s] > j \/ i[s] = j)
        BY <4>1 DEF Sent
      <4> QED
        BY <2>4, <2>7, <4>1, <4>2
    <3>2. pow2[j] <= pow2[i[s]] /\ pow2[i[s]] \in Nat
      <4>1. j < i[s] => j \in 0..(i[s] - 1)
        BY <1>2, <2>5
      <4>2. pow2[i[s]] \in Nat /\ (j < i[s] => pow2[j] < pow2[i[s]])
        BY <1>4, <2>5, <4>1, PowGrows
      <4> QED
        BY <1>2, <1>4, <2>5, <3>1, <4>2
    <3>3. Behind(s, u) \in Nat
      BY <1>3, BehindType
    <3>4. Behind(s, u) < pow2[i[s]]
      BY <1>4, <1>7, <3>2, <3>3
    <3> QED
      BY <1>1, <1>3, <3>1, <3>4 DEF Knowledge
  <2> QED
    BY <1>2, <2>5, <2>6, <2>7
<1> QED
  BY <1>5, <1>6, <1>7

\* After the last round a process has heard of everybody.
LEMMA LeaveKnows ==
    ASSUME MInv, NEW r \in Ranks, Leave(r), NEW u \in Ranks
    PROVE  Entered[u] > calls[r]
<1>1. pc[r] = "send" /\ i[r] = num_rounds
  BY DEF Leave, Goto
<1>2. Behind(r, u) < pow2[i[r]]
  BY <1>1, BehindType, RoundsAssumption, ProcessesAssumption
<1> QED
  BY <1>1, <1>2 DEF MInv, Knowledge

LEMMA KnowledgeStep ==
    ASSUME MInv, Shape', NEW r \in Ranks, Step(r)
    PROVE  Knowledge' /\ Meeting'
<1>1. Shape /\ Knowledge /\ Meeting
  BY DEF MInv
<1>2. \A u \in Ranks : /\ Entered[u] \in Nat /\ Entered'[u] \in Nat
                       /\ calls[u] \in Nat /\ Entered'[u] >= Entered[u]
  BY <1>1, EnteredGrows DEF Shape, Entered
<1>3. CASE Enter(r)
  <2>1. calls' = calls /\ i'[r] = 0 /\ Entered'[r] = calls[r] + 1
    BY <1>1, <1>3 DEF Enter, Goto, Shape, Entered
  <2>2. ASSUME NEW u \in Ranks, Behind(r, u) < pow2[i'[r]]
        PROVE  Entered'[u] > calls'[r]
    <3>1. Behind(r, u) = 0
      BY <2>1, <2>2, BehindType, RoundsAssumption, ProcessesAssumption
    <3> QED
      BY <1>2, <2>1, <3>1, BehindType
  <2>3. \A u \in Ranks : calls'[r] <= Entered'[u]
    BY <1>1, <1>2, <2>1 DEF Meeting
  <2> QED
    BY <1>1, <2>2, <2>3, Others
<1>4. CASE Send(r)
  <2>1. calls' = calls /\ i' = i /\ pc[r] # "out"
    BY <1>4 DEF Send, Goto
  <2>2. ASSUME NEW u \in Ranks, Behind(r, u) < pow2[i'[r]]
        PROVE  Entered'[u] > calls'[r]
    <3>1. Entered[u] > calls[r]
      BY <1>1, <2>1, <2>2 DEF Knowledge
    <3> QED
      BY <1>2, <2>1, <3>1
  <2>3. \A u \in Ranks : calls'[r] <= Entered'[u]
    BY <1>1, <1>2, <2>1 DEF Meeting
  <2> QED
    BY <1>1, <2>2, <2>3, Others
<1>5. CASE Receive(r)
  <2>1. calls' = calls /\ i'[r] = i[r] + 1
    BY <1>1, <1>5 DEF Receive, Shape
  <2>2. ASSUME NEW u \in Ranks, Behind(r, u) < pow2[i'[r]]
        PROVE  Entered'[u] > calls'[r]
    <3>1. Entered[u] > calls[r]
      BY <1>5, <2>1, <2>2, ReceiveLearns
    <3> QED
      BY <1>2, <2>1, <3>1
  <2>3. \A u \in Ranks : calls'[r] <= Entered'[u]
    BY <1>1, <1>2, <2>1 DEF Meeting
  <2> QED
    BY <1>1, <2>2, <2>3, Others
<1>6. CASE Leave(r)
  <2>1. calls'[r] = calls[r] + 1 /\ pc'[r] = "out"
    BY <1>1, <1>6 DEF Leave, Goto, Shape
  <2>2. ASSUME NEW u \in Ranks PROVE calls'[r] <= Entered'[u]
    <3>1. Entered[u] > calls[r]
      BY <1>6, LeaveKnows
    <3> QED
      BY <1>2, <2>1, <3>1
  <2> QED
    BY <1>1, <2>1, <2>2, Others
<1> QED
  BY <1>3, <1>4, <1>5, <1>6 DEF Step

LEMMA StutterHolds == MInv /\ UNCHANGED vars => MInv'
BY DEF MInv, Shape, Channels, Knowledge, Meeting, Sent, Received, Entered,
       To, Behind, vars
-----------------------------------------------------------------------------
(* The theorems *)

\* The channels carry exactly what has been sent and not yet received, round by
\* round, and after r rounds of a call a process knows that the pow2[r] - 1
\* processes behind it have entered that call.
THEOREM Invariant == Spec => []MInv
<1>1. MInv /\ [Next]_vars => MInv'
  <2>1. SUFFICES ASSUME MInv, [Next]_vars PROVE MInv'
    OBVIOUS
  <2>2. CASE UNCHANGED vars \/ Terminated
    BY <2>1, <2>2, StutterHolds DEF Terminated
  <2>3. ASSUME NEW r \in Ranks, Step(r) PROVE MInv'
    <3>1. Shape /\ Channels
      BY <2>1 DEF MInv
    <3>2. Shape'
      BY <2>3, <3>1, ShapeStep
    <3>3. Channels'
      BY <2>3, <3>1, ChannelsStep
    <3>4. Knowledge' /\ Meeting'
      BY <2>1, <2>3, <3>2, KnowledgeStep
    <3> QED
      BY <3>2, <3>3, <3>4 DEF MInv
  <2> QED
    BY <2>1, <2>2, <2>3 DEF Next
<1> QED
  BY <1>1, InitHolds, PTL DEF Spec

\* Every variable keeps its type; in particular MPI never keeps more than two
\* messages from one process to another: a sender is one call ahead at most.
THEOREM TypeCorrect == Spec => []TypeOK
<1>1. ASSUME MInv, NEW s \in Ranks, NEW d \in Ranks PROVE net[<<s, d>>] \in 0..2
  <2>1. net[<<s, d>>] \in Nat
    BY <1>1 DEF MInv, Shape
  <2>2. CASE \A j \in Rounds : d # To(s, j)
    BY <1>1, <2>2 DEF MInv, Channels
  <2>3. ASSUME NEW j \in Rounds, d = To(s, j) PROVE net[<<s, d>>] \in 0..2
    <3>1. Sent(s, j) = Received(d, j) + net[<<s, d>>]
      BY <1>1, <2>3 DEF MInv, Channels
    <3>2. Sent(s, j) <= calls[s] + 1 /\ calls[d] <= Received(d, j)
      BY <1>1 DEF MInv, Shape, Sent, Received
    <3>3. calls[s] <= Entered[d] /\ Entered[d] <= calls[d] + 1
      BY <1>1 DEF MInv, Meeting, Shape, Entered
    <3>4. /\ Sent(s, j) \in Nat /\ Received(d, j) \in Nat
          /\ calls[s] \in Nat /\ calls[d] \in Nat /\ Entered[d] \in Nat
      BY <1>1, Counts DEF MInv, Shape, Entered
    <3> QED
      BY <2>1, <3>1, <3>2, <3>3, <3>4
  <2> QED
    BY <2>2, <2>3
<1>2. MInv => TypeOK
  BY <1>1 DEF MInv, Shape, TypeOK
<1> QED
  BY <1>2, Invariant, PTL

\* When every process is through its calls, every message has been received.
THEOREM AllReceived == Spec => []NothingLeftOver
<1>1. ASSUME MInv, \A r \in Ranks : pc[r] = "out" /\ calls[r] = Calls,
             NEW s \in Ranks, NEW d \in Ranks
      PROVE  net[<<s, d>>] = 0
  <2>1. net[<<s, d>>] \in Nat /\ Calls \in Nat
    BY <1>1, LoopAssumption DEF MInv, Shape
  <2>2. CASE \A j \in Rounds : d # To(s, j)
    BY <1>1, <2>2 DEF MInv, Channels
  <2>3. ASSUME NEW j \in Rounds, d = To(s, j) PROVE net[<<s, d>>] = 0
    <3>1. Sent(s, j) = Received(d, j) + net[<<s, d>>]
      BY <1>1, <2>3 DEF MInv, Channels
    <3>2. Sent(s, j) = Calls /\ Received(d, j) = Calls
      BY <1>1, <2>1 DEF Sent, Received
    <3> QED
      BY <2>1, <3>1, <3>2
  <2> QED
    BY <2>2, <2>3
<1>2. MInv => NothingLeftOver
  BY <1>1 DEF NothingLeftOver
<1> QED
  BY <1>2, Invariant, PTL

\* A step of a process is a step of the abstract barrier or changes nothing
\* that it shows.
LEMMA PromiseStep ==
    ASSUME MInv, [Next]_vars
    PROVE  [Promise!Next]_(Promise!bvars)
<1>1. Shape
  BY DEF MInv
<1>2. CASE UNCHANGED vars \/ Terminated
  BY <1>2 DEF Terminated, vars, Promise!bvars, Entered
<1>3. ASSUME NEW r \in Ranks, Enter(r)
      PROVE  Promise!Enter(r)
  <2>1. calls' = calls /\ pc[r] = "out" /\ calls[r] < Calls
    BY <1>3 DEF Enter, Goto
  <2>2. Entered' = [Entered EXCEPT ![r] = @ + 1]
    <3>1. Entered'[r] = Entered[r] + 1
      BY <1>1, <1>3, <2>1 DEF Entered, Enter, Goto, Shape
    <3>2. \A u \in Ranks \ {r} : Entered'[u] = Entered[u]
      BY <1>1, <1>3, <2>1 DEF Entered, Enter, Goto, Shape
    <3> QED
      BY <3>1, <3>2, Zenon DEF Entered
  <2> QED
    BY <1>1, <2>1, <2>2 DEF Promise!Enter, Entered, Shape
<1>4. ASSUME NEW r \in Ranks, Leave(r)
      PROVE  Promise!Return(r)
  <2>1. Entered[r] = calls[r] + 1 /\ calls[r] < Entered[r]
    BY <1>1, <1>4 DEF Entered, Leave, Goto, Shape
  <2>2. \A u \in Ranks : Entered[u] >= Entered[r]
    <3>1. \A u \in Ranks : Entered[u] > calls[r]
      BY <1>4, LeaveKnows
    <3> QED
      BY <1>1, <2>1, <3>1 DEF Entered, Shape
  <2>3. Entered' = Entered
    BY <1>1, <1>4 DEF Entered, Leave, Goto, Shape
  <2> QED
    BY <1>4, <2>1, <2>2, <2>3 DEF Promise!Return, Leave
<1>5. ASSUME NEW r \in Ranks, Send(r) \/ Receive(r)
      PROVE  UNCHANGED Promise!bvars
  <2>1. calls' = calls
    BY <1>5 DEF Send, Receive
  <2>2. \A u \in Ranks : (pc'[u] = "out") <=> (pc[u] = "out")
    BY <1>1, <1>5 DEF Send, Receive, Goto, Shape
  <2> QED
    BY <2>1, <2>2 DEF Promise!bvars, Entered
<1> QED
  BY <1>2, <1>3, <1>4, <1>5 DEF Next, Step, Promise!Next

\* The barrier of MPI/Dissemination is one for every number of processes: a
\* message without a round or a call on it is never taken for another.
THEOREM Refinement == Spec => Refines
<1>1. Init => Promise!Init
  BY DEF Init, Promise!Init, Entered
<1> QED
  BY <1>1, PromiseStep, Invariant, PTL DEF Spec, Refines, Promise!Spec
-----------------------------------------------------------------------------
(* The waits *)

\* The next step of a process is not a wait, or what it waits for is there.  A
\* send may wait while an earlier message of the channel is unreceived.
CanGo(r) ==
    \/ pc[r] = "out" /\ calls[r] < Calls
    \/ pc[r] = "send" /\ i[r] = num_rounds
    \/ pc[r] = "send" /\ i[r] < num_rounds /\ net[<<r, Rank2Send(r)>>] = 0
    \/ pc[r] = "receive" /\ net[<<Rank2Receive(r), r>>] > 0

Done(r) == pc[r] = "out" /\ calls[r] = Calls

NotStuck == (\A r \in Ranks : Done(r)) \/ \E r \in Ranks : CanGo(r)

\* Who is in a round of the earliest call, and in the earliest round of it, does
\* not wait to send.
LEMMA EarliestSends ==
    ASSUME Shape, Channels, NEW r \in Ranks, pc[r] = "send",
           \A u \in Ranks : ~Done(u) => calls[r] <= calls[u]
    PROVE  CanGo(r)
<1>1. /\ i[r] \in 0..num_rounds /\ num_rounds \in Nat /\ Calls \in Nat
      /\ calls[r] \in 0..Calls /\ calls[r] < Calls
  BY RoundsAssumption, LoopAssumption DEF Shape
<1>2. CASE i[r] = num_rounds
  BY <1>2 DEF CanGo
<1>3. CASE i[r] < num_rounds
  <2> DEFINE s == To(r, i[r])
  <2>1. i[r] \in Rounds /\ Rank2Send(r) = s
    BY <1>1, <1>3 DEF Rounds, Rank2Send, To
  <2>2. s \in Ranks
    BY <2>1, Partners
  <2> HIDE DEF s
  <2>3. Sent(r, i[r]) = Received(s, i[r]) + net[<<r, s>>]
    BY <2>1 DEF Channels, s
  <2>4. Sent(r, i[r]) = calls[r]
    BY <1>1 DEF Sent
  <2>5. /\ Received(s, i[r]) \in Nat /\ calls[s] \in 0..Calls
        /\ Received(s, i[r]) >= calls[s] /\ net[<<r, s>>] \in Nat
    BY <1>1, <2>1, <2>2, Counts DEF Received, Shape
  <2>6. calls[r] <= calls[s]
    BY <1>1, <2>2 DEF Done
  <2>7. net[<<r, s>>] = 0
    BY <1>1, <2>3, <2>4, <2>5, <2>6
  <2> QED
    BY <1>3, <2>1, <2>7 DEF CanGo
<1> QED
  BY <1>1, <1>2, <1>3

\* Nor to receive, or the one whose message it waits for can go on.
LEMMA EarliestReceives ==
    ASSUME Shape, Channels, NEW r \in Ranks, pc[r] = "receive",
           \A u \in Ranks : ~Done(u) => calls[r] <= calls[u],
           \A u \in Ranks : pc[u] # "out" /\ calls[u] = calls[r] => i[r] <= i[u]
    PROVE  \E u \in Ranks : CanGo(u)
<1> DEFINE s == From(r, i[r])
<1>1. /\ i[r] \in Rounds /\ Calls \in Nat /\ calls[r] \in 0..Calls /\ calls[r] < Calls
      /\ i[r] \in Nat
  BY RoundsAssumption, LoopAssumption DEF Shape, Rounds
<1>2. s \in Ranks /\ To(s, i[r]) = r /\ Rank2Receive(r) = s
  BY <1>1, Partners DEF Rank2Receive, From
<1> HIDE DEF s
<1>3. Sent(s, i[r]) = Received(r, i[r]) + net[<<s, r>>] /\ net[<<s, r>>] \in Nat
  BY <1>1, <1>2 DEF Channels, Shape
<1>4. Received(r, i[r]) = calls[r]
  BY <1>1 DEF Received
<1>5. CASE net[<<s, r>>] > 0
  BY <1>2, <1>5 DEF CanGo
<1>6. CASE net[<<s, r>>] = 0
  <2>1. Sent(s, i[r]) = calls[r]
    BY <1>1, <1>3, <1>4, <1>6
  <2>2. calls[s] \in 0..Calls /\ i[s] \in Nat /\ pc[s] \in {"out", "send", "receive"}
    BY <1>2, RoundsAssumption DEF Shape
  <2>3. calls[s] <= Sent(s, i[r])
    BY <1>1, <2>2 DEF Sent
  <2>4. calls[s] = calls[r]
    BY <1>1, <1>2, <2>1, <2>2, <2>3 DEF Done
  <2>5. CASE pc[s] = "out"
    BY <1>1, <1>2, <2>4, <2>5 DEF CanGo
  <2>6. CASE pc[s] # "out"
    <3>1. i[r] <= i[s]
      BY <1>2, <2>4, <2>6
    <3>2. pc[s] = "send"
      BY <1>1, <2>1, <2>2, <2>4, <2>6, <3>1 DEF Sent
    <3> QED
      BY <1>2, <2>4, <3>2, EarliestSends
  <2> QED
    BY <2>5, <2>6
<1> QED
  BY <1>3, <1>5, <1>6

\* Until all calls have ended some process can go on, for any number of
\* processes, although MPI_Send may wait for the message before.
THEOREM DeadlockFree == Spec => []NotStuck
<1>1. ASSUME MInv PROVE NotStuck
  <2>1. Shape /\ Channels
    BY <1>1 DEF MInv
  <2>2. SUFFICES ASSUME NEW t \in Ranks, ~Done(t)
                 PROVE  \E u \in Ranks : CanGo(u)
    BY DEF NotStuck
  <2> DEFINE C == {calls[u] : u \in {v \in Ranks : ~Done(v)}}
  <2>3. C \in SUBSET Nat /\ C # {}
    BY <2>1, <2>2, LoopAssumption DEF Shape
  <2>4. PICK e \in C : \A x \in C : e <= x
    BY <2>3, LeastNatural
  <2>5. PICK q \in Ranks : ~Done(q) /\ calls[q] = e
    BY <2>4
  <2>6. \A u \in Ranks : ~Done(u) => e <= calls[u]
    BY <2>4
  <2> HIDE DEF C
  <2>7. CASE pc[q] = "out"
    <3>1. calls[q] \in 0..Calls /\ Calls \in Nat /\ calls[q] # Calls
      BY <2>1, <2>5, <2>7, LoopAssumption DEF Shape, Done
    <3>2. calls[q] < Calls
      BY <3>1
    <3> QED
      BY <2>7, <3>2 DEF CanGo
  <2>8. CASE pc[q] # "out"
    <3> DEFINE I == {i[u] : u \in {v \in Ranks : pc[v] # "out" /\ calls[v] = e}}
    <3>1. I \in SUBSET Nat /\ I # {}
      <4>1. \A u \in Ranks : i[u] \in Nat
        BY <2>1, RoundsAssumption DEF Shape
      <4> QED
        BY <2>5, <2>8, <4>1
    <3>2. PICK j \in I : \A x \in I : j <= x
      BY <3>1, LeastNatural
    <3>3. PICK r \in Ranks : pc[r] # "out" /\ calls[r] = e /\ i[r] = j
      BY <3>2
    <3>4. \A u \in Ranks : pc[u] # "out" /\ calls[u] = e => j <= i[u]
      BY <3>2
    <3>5. CASE pc[r] = "send"
      BY <2>1, <2>6, <3>3, <3>5, EarliestSends
    <3>6. CASE pc[r] = "receive"
      BY <2>1, <2>6, <3>3, <3>4, <3>6, EarliestReceives
    <3> QED
      BY <2>1, <3>3, <3>5, <3>6 DEF Shape
  <2> QED
    BY <2>7, <2>8
<1> QED
  BY <1>1, Invariant, PTL
=============================================================================
