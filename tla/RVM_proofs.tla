----------------------------- MODULE RVM_proofs -----------------------------
(***************************************************************************)
(* Theorems about librvm, for any segments, sizes, values and bounds: what *)
(* its process does (part 1); what its log, files, undo lists and memory   *)
(* hold (part 2) and that it is a RecoverableMemory (part 3), both when no *)
(* crash cuts a call whose records are between redo.txt and memory         *)
(* (CrashWindows = {}).                                                    *)
(***************************************************************************)
EXTENDS RVMRefinement, WellFoundedInduction, TLAPS

-----------------------------------------------------------------------------
(* Log entries and files *)

Less == {p \in Nat \X Nat : p[1] < p[2]}

\* Every nonempty set of naturals has a least element.
LEMMA LeastNatural ==
    ASSUME NEW T \in SUBSET Nat, T # {}
    PROVE  \E m \in T : \A k \in T : m <= k
<1>1. OpToRel(<, Nat) = Less
    BY Zenon DEF OpToRel, Less
<1>2. IsWellFoundedOn(Less, Nat)
    BY Zenon, NatLessThanWellFounded, <1>1
<1>3. PICK m \in T : \A k \in T : <<k, m>> \notin Less
    BY <1>2, WFMin
<1>4. ASSUME NEW k \in T PROVE m <= k
    BY <1>3, m \in Nat, k \in Nat, <<k, m>> \notin Less DEF Less
<1> QED
    BY <1>4

\* A range declared in a segment and copied from memory is a log entry.
LEMMA CopyIsEntry ==
    ASSUME NEW s \in Segs, NEW R \in Ranges, mem[s] \in [Blocks -> Data]
    PROVE  [seg |-> s, data |-> Copy(s, R)] \in Entries
<1>1. Copy(s, R) \in [R -> Data]
    BY DEF Copy, Ranges
<1>2. Copy(s, R) \in UNION {[Q -> Data] : Q \in Ranges}
    BY <1>1
<1> QED
    BY <1>2 DEF Entries

\* An entry maps the blocks of some range of its segment to data.
LEMMA EntryFields ==
    ASSUME NEW e \in Entries
    PROVE  /\ e.seg \in Segs
           /\ DOMAIN e.data \in Ranges
           /\ \A b \in DOMAIN e.data : b \in Blocks /\ e.data[b] \in Data
<1>1. e.seg \in Segs /\ e.data \in UNION {[R -> Data] : R \in Ranges}
    BY DEF Entries
<1>2. PICK R \in Ranges : e.data \in [R -> Data]
    BY <1>1
<1>3. DOMAIN e.data = R /\ R \subseteq Blocks
    BY <1>2 DEF Ranges
<1> QED
    BY <1>1, <1>2, <1>3

\* The redo record of an undo entry is a log entry.
LEMMA RecordIsEntry ==
    ASSUME NEW e \in Entries, mem \in [Segs -> [Blocks -> Data]]
    PROVE  Record(e) \in Entries
BY EntryFields, CopyIsEntry DEF Record

\* Writing an entry into a file leaves a file.
LEMMA WriteType ==
    ASSUME NEW f \in [Blocks -> Data \cup {Eof}], NEW e \in Entries
    PROVE  WriteAt(f, e.data) \in [Blocks -> Data \cup {Eof}]
BY EntryFields DEF WriteAt, Data

\* What a file is read in as, extended to, and recovered as.
LEMMA ReadTypes ==
    ASSUME NEW f \in [Blocks -> Data \cup {Eof}]
    PROVE  /\ ReadIn(f) \in [Blocks -> Data]
           /\ Extend(f) \in [Blocks -> Data \cup {Eof}]
           /\ NormAll(f) \in [Blocks -> Vals \cup {Blank}]
<1>1. ReadIn(f) \in [Blocks -> Data]
    BY DEF ReadIn, Data
<1>2. Extend(f) \in [Blocks -> Data \cup {Eof}]
    BY <1>1 DEF Extend
<1>3. NormAll(f) \in [Blocks -> Vals \cup {Blank}]
    BY DEF NormAll, Norm
<1> QED
    BY <1>1, <1>2, <1>3

\* Of the entries that cover a block there is a first one, and FirstCover
\* finds it.
LEMMA FirstCoverExists ==
    ASSUME NEW t \in Tids, NEW s, NEW b, undo[t] \in Logs,
           \E i \in DOMAIN undo[t] : Covers(undo[t][i], s, b)
    PROVE  /\ FirstCover(t, s, b) \in DOMAIN undo[t]
           /\ Covers(undo[t][FirstCover(t, s, b)], s, b)
           /\ \A j \in 1..(FirstCover(t, s, b) - 1) : ~Covers(undo[t][j], s, b)
<1> DEFINE C == {i \in DOMAIN undo[t] : Covers(undo[t][i], s, b)}
<1>1. C \in SUBSET Nat /\ C # {} /\ DOMAIN undo[t] = 1..Len(undo[t]) /\ Len(undo[t]) \in Nat
    BY DEF Logs
<1>2. PICK m \in C : \A k \in C : m <= k
    BY <1>1, LeastNatural
<1>3. \A j \in 1..(m - 1) : ~Covers(undo[t][j], s, b)
  <2> SUFFICES ASSUME NEW j \in 1..(m - 1), Covers(undo[t][j], s, b)
               PROVE  FALSE
    OBVIOUS
  <2>1. j \in DOMAIN undo[t] /\ j < m
    BY <1>1
  <2>2. j \in C
    BY <2>1
  <2> QED
    BY <1>1, <1>2, <2>1, <2>2
<1> QED
    BY <1>2, <1>3 DEF FirstCover
-----------------------------------------------------------------------------
(* Types *)

\* The state in which a process starts has the types.
LEMMA InitType == Init => TypeOK
BY SizeAssumption
   DEF Init, TypeOK, Logs, EmptyFile, Data, Tids

\* The steps of rvm_truncate_log and rvm_map preserve the types.
LEMMA MapType ==
    ASSUME TypeOK,
           \/ \E a \in Segs \cup {None} : TruncateStart(a)
           \/ TruncateApply \/ TruncateReturn \/ MapReturn
    PROVE  TypeOK'
<1>1. ASSUME NEW a \in Segs \cup {None}, TruncateStart(a) PROVE TypeOK'
    BY <1>1 DEF TruncateStart, TypeOK, Logs, segments, transactions
<1>2. CASE TruncateApply
  <2>1. Head(pending) \in Entries /\ Tail(pending) \in Logs
    BY <1>2 DEF TruncateApply, TypeOK, Logs
  <2>2. file' \in [Segs -> [Blocks -> Data \cup {Eof}]]
    BY <1>2, <2>1, WriteType, EntryFields DEF TruncateApply, TypeOK
  <2> QED
    BY <1>2, <2>1, <2>2 DEF TruncateApply, TypeOK, segments, transactions
<1>3. CASE TruncateReturn
    BY <1>3 DEF TruncateReturn, TypeOK, disk, segments, transactions
<1>4. CASE MapReturn
  <2>1. CASE table[arg] = "mapped"
    BY <1>4, <2>1 DEF MapReturn, TypeOK, disk, segments, transactions
  <2>2. CASE table[arg] # "mapped"
    <3>1. /\ ReadIn(file[arg]) \in [Blocks -> Data]
          /\ Extend(file[arg]) \in [Blocks -> Data \cup {Eof}]
      BY <1>4, ReadTypes DEF MapReturn, TypeOK
    <3>2. /\ mem' \in [Segs -> [Blocks -> Data]]
          /\ file' \in [Segs -> [Blocks -> Data \cup {Eof}]]
      BY <1>4, <2>2, <3>1 DEF MapReturn, TypeOK
    <3> QED
      BY <1>4, <2>2, <3>2 DEF MapReturn, TypeOK, transactions
  <2> QED
    BY <2>1, <2>2
<1> QED
    BY <1>1, <1>2, <1>3, <1>4

\* The steps of rvm_unmap and rvm_destroy preserve the types.
LEMMA DestroyType ==
    ASSUME TypeOK,
           \/ \E s \in Segs : Unmap(s) \/ DestroyStart(s)
           \/ DestroyScan \/ DestroyRewrite \/ DestroyRemove,
           pc \in {"scan", "remove"} => arg \in Segs
    PROVE  TypeOK'
<1>1. ASSUME NEW s \in Segs, Unmap(s) PROVE TypeOK'
    BY <1>1 DEF Unmap, TypeOK, disk, transactions, progress
<1>2. ASSUME NEW s \in Segs, DestroyStart(s) PROVE TypeOK'
    BY <1>2 DEF DestroyStart, TypeOK, Logs, Data, transactions
<1>3. CASE DestroyScan
    BY <1>3 DEF DestroyScan, TypeOK, Logs, disk, segments, transactions
<1>4. CASE DestroyRewrite
  <2>1. NormAll(file[arg]) \in [Blocks -> Vals \cup {Blank}]
    BY <1>4, ReadTypes DEF DestroyRewrite, TypeOK
  <2>2. committed' \in [Segs -> [Blocks -> Vals \cup {Blank}]]
    BY <1>4, <2>1 DEF DestroyRewrite, TypeOK
  <2> QED
    BY <1>4, <2>2 DEF DestroyRewrite, TypeOK, Logs, segments, transactions
<1>5. CASE DestroyRemove
    BY <1>5 DEF DestroyRemove, TypeOK, EmptyFile, segments, transactions
<1> QED
    BY <1>1, <1>2, <1>3, <1>4, <1>5

\* Beginning a transaction, declaring a range and storing preserve the types.
LEMMA ModifyType ==
    ASSUME TypeOK,
           \/ \E S \in SUBSET Segs \ {{}} : BeginTrans(S) \/ BeginRefused(S)
           \/ \E t \in Tids, u \in Uses : AboutToModify(t, u[1], u[2])
           \/ \E t \in Tids, s \in Segs, b \in Blocks, v \in Vals : Store(t, s, b, v)
    PROVE  TypeOK'
<1>1. ASSUME globalt_id < MaxTid PROVE globalt_id + 1 \in Tids
    BY <1>1, SizeAssumption DEF TypeOK, Tids
<1>2. ASSUME NEW S \in SUBSET Segs, BeginTrans(S) PROVE TypeOK'
    BY <1>1, <1>2 DEF BeginTrans, TypeOK, disk, progress
<1>3. ASSUME NEW S \in SUBSET Segs, BeginRefused(S) PROVE TypeOK'
    BY <1>1, <1>3 DEF BeginRefused, TypeOK, disk, segments, progress
<1>4. ASSUME NEW t \in Tids, NEW u \in Uses, AboutToModify(t, u[1], u[2])
      PROVE  TypeOK'
  <2>1. u[1] \in Segs /\ u[2] \in Ranges
    BY UsesAssumption
  <2>2. [seg |-> u[1], data |-> Copy(u[1], u[2])] \in Entries
    BY <2>1, CopyIsEntry DEF TypeOK
  <2>3. undo' \in [Tids -> Logs]
    BY <1>4, <2>2 DEF AboutToModify, TypeOK, Logs
  <2> QED
    BY <1>4, <2>3 DEF AboutToModify, TypeOK, disk, segments, progress
<1>5. ASSUME NEW t \in Tids, NEW s \in Segs, NEW b \in Blocks, NEW v \in Vals,
             Store(t, s, b, v)
      PROVE  TypeOK'
    BY <1>5 DEF Store, TypeOK, Data, disk, transactions, progress
<1> QED
    BY <1>2, <1>3, <1>4, <1>5

\* The records that a commit appends are log entries.
LEMMA UnwrittenType ==
    ASSUME TypeOK, NEW t \in Tids, flushed <= Len(undo[t])
    PROVE  Unwritten(t) \in Logs
<1>1. /\ Len(undo[t]) - flushed \in Nat
      /\ \A i \in 1..(Len(undo[t]) - flushed) : undo[t][flushed + i] \in Entries
    BY DEF TypeOK, Logs
<1>2. \A i \in 1..(Len(undo[t]) - flushed) : Record(undo[t][flushed + i]) \in Entries
    BY <1>1, RecordIsEntry DEF TypeOK
<1>3. Unwritten(t) \in [1..(Len(undo[t]) - flushed) -> Entries]
    BY <1>2 DEF Unwritten
<1> QED
    BY <1>1, <1>3 DEF Logs

\* The steps of commit, abort and crash preserve the types.
LEMMA EndType ==
    ASSUME TypeOK,
           \/ \E t \in Tids : CommitFlush(t) \/ CommitClose(t) \/ AbortTrans(t)
           \/ Crash,
           \A t \in Tids : pc = "idle" \/ arg = t => flushed <= Len(undo[t])
    PROVE  TypeOK'
<1>1. ASSUME NEW t \in Tids, CommitFlush(t) PROVE TypeOK'
  <2>1. undo[t][flushed + 1] \in Entries
    BY <1>1 DEF CommitFlush, TypeOK, Logs
  <2>2. redo' \in Logs
    BY <1>1, <2>1, RecordIsEntry DEF CommitFlush, TypeOK, Logs
  <2> QED
    BY <1>1, <2>2 DEF CommitFlush, TypeOK, segments, transactions
<1>2. ASSUME NEW t \in Tids, CommitClose(t) PROVE TypeOK'
  <2>1. redo' \in Logs
    BY <1>2, UnwrittenType DEF CommitClose, TypeOK, Logs
  <2>2. committed' \in [Segs -> [Blocks -> Vals \cup {Blank}]]
    BY <1>2 DEF CommitClose, TypeOK, Norm
  <2>3. undo' \in [Tids -> Logs] /\ \A u \in Tids \ running' : undo'[u] = <<>>
    BY <1>2 DEF CommitClose, TypeOK, Logs
  <2> QED
    BY <1>2, <2>1, <2>2, <2>3 DEF CommitClose, Freed, TypeOK
<1>3. ASSUME NEW t \in Tids, AbortTrans(t) PROVE TypeOK'
  <2>1. ASSUME NEW s \in Segs, NEW b \in Blocks,
               \E i \in DOMAIN undo[t] : Covers(undo[t][i], s, b)
        PROVE  undo[t][FirstCover(t, s, b)].data[b] \in Data
    <3>1. /\ undo[t] \in Logs
          /\ FirstCover(t, s, b) \in DOMAIN undo[t]
          /\ Covers(undo[t][FirstCover(t, s, b)], s, b)
      BY <2>1, FirstCoverExists DEF TypeOK
    <3>2. undo[t][FirstCover(t, s, b)] \in Entries
      BY <3>1 DEF Logs
    <3> QED
      BY <3>1, <3>2, EntryFields DEF Covers
  <2>2. mem' \in [Segs -> [Blocks -> Data]]
    BY <1>3, <2>1 DEF AbortTrans, TypeOK
  <2>3. undo' \in [Tids -> Logs] /\ \A u \in Tids \ running' : undo'[u] = <<>>
    BY <1>3 DEF AbortTrans, TypeOK, Logs
  <2> QED
    BY <1>3, <2>2, <2>3 DEF AbortTrans, TypeOK, disk, progress
<1>4. CASE Crash
    BY <1>4 DEF Crash, TypeOK, Logs, Data, disk
<1> QED
    BY <1>1, <1>2, <1>3, <1>4

-----------------------------------------------------------------------------
(* The progress of calls *)

\* What each stage of a call leaves in the variables that describe calls, and
\* where the log is meanwhile; a commit has written its first records.
Calls ==
    /\ pc = "idle" => arg = None
    /\ pc = "truncate" => arg \in Segs \cup {None}
    /\ pc \in {"scan", "remove"} => arg \in Segs /\ table[arg] = "none"
    /\ pc \notin {"truncate", "scan"} => pending = <<>>
    /\ pc # "scan" => kept = <<>>
    /\ pc \in {"truncate", "scan"} => redo = <<>>
    /\ pc # "commit" => flushed = 0
    /\ pc = "commit" =>
        /\ arg \in running
        /\ flushed < Len(undo[arg])
        /\ flushed <= Len(redo)
        /\ \A i \in 1..flushed :
              redo[Len(redo) - flushed + i] = Record(undo[arg][i])

TypedCalls == TypeOK /\ Calls

\* No step of Next leaves a call in a state that its code cannot be in.
LEMMA CallsStep == ASSUME TypedCalls, TypeOK', [Next]_vars PROVE Calls'
<1> USE DEF TypedCalls
<1>1. CASE UNCHANGED vars
    BY <1>1 DEF Calls, Record, Copy, vars, disk, segments, transactions, progress
<1>2. ASSUME NEW a \in Segs \cup {None}, TruncateStart(a) PROVE Calls'
    BY <1>2 DEF TruncateStart, Calls, segments, transactions
<1>3. CASE TruncateApply
    BY <1>3 DEF TruncateApply, Calls, segments, transactions
<1>4. CASE TruncateReturn
    BY <1>4 DEF TruncateReturn, Calls, disk, segments, transactions
<1>5. CASE MapReturn
    BY <1>5 DEF MapReturn, Calls, disk, segments, transactions
<1>6. ASSUME NEW s \in Segs, Unmap(s) PROVE Calls'
    BY <1>6 DEF Unmap, Calls, disk, transactions, progress
<1>7. ASSUME NEW s \in Segs, DestroyStart(s) PROVE Calls'
    BY <1>7 DEF DestroyStart, Calls, TypeOK, transactions
<1>8. CASE DestroyScan
    BY <1>8 DEF DestroyScan, Calls, disk, segments, transactions
<1>9. CASE DestroyRewrite
    BY <1>9 DEF DestroyRewrite, Calls, segments, transactions
<1>10. CASE DestroyRemove
    BY <1>10 DEF DestroyRemove, Calls, segments, transactions
<1>11. ASSUME NEW S \in SUBSET Segs, BeginTrans(S) \/ BeginRefused(S)
       PROVE  Calls'
    BY <1>11 DEF BeginTrans, BeginRefused, Calls, disk, segments, progress
<1>12. ASSUME NEW t \in Tids, NEW s, NEW R, AboutToModify(t, s, R) PROVE Calls'
    BY <1>12 DEF AboutToModify, Calls, disk, segments, progress
<1>13. ASSUME NEW t \in Tids, NEW s \in Segs, NEW b \in Blocks, NEW v \in Vals,
              Store(t, s, b, v)
       PROVE  Calls'
    BY <1>13 DEF Store, Calls, disk, transactions, progress
<1>14. ASSUME NEW t \in Tids, CommitFlush(t) PROVE Calls'
  <2>1. /\ redo' = Append(redo, Record(undo[t][flushed + 1]))
        /\ flushed' = flushed + 1
        /\ flushed' < Len(undo[t])
        /\ undo' = undo /\ mem' = mem /\ running' = running
        /\ t \in running /\ pc' = "commit" /\ arg' = t
        /\ kept' = kept /\ pending' = pending
    BY <1>14 DEF CommitFlush, segments, transactions
  <2>2. /\ flushed \in Nat /\ flushed <= Len(redo)
        /\ \A i \in 1..flushed :
              redo[Len(redo) - flushed + i] = Record(undo[t][i])
    BY <1>14 DEF CommitFlush, Calls, TypeOK, Logs
  <2>3. /\ Len(redo') = Len(redo) + 1
        /\ \A i \in 1..Len(redo) : redo'[i] = redo[i]
        /\ redo'[Len(redo) + 1] = Record(undo[t][flushed + 1])
    BY <2>1 DEF TypeOK, Logs
  <2>4. ASSUME NEW i \in 1..flushed'
        PROVE  redo'[Len(redo') - flushed' + i] = Record(undo[t][i])
    <3>1. CASE i = flushed + 1
      BY <2>1, <2>2, <2>3, <3>1 DEF TypeOK, Logs
    <3>2. CASE i \in 1..flushed
      <4>1. /\ Len(redo) - flushed + i \in 1..Len(redo)
            /\ Len(redo') - flushed' + i = Len(redo) - flushed + i
        BY <2>1, <2>2, <2>3, <3>2 DEF TypeOK, Logs
      <4> QED
        BY <2>2, <2>3, <3>2, <4>1
    <3> QED
      BY <2>1, <2>2, <3>1, <3>2
  <2>5. \A i : Record(undo[t][i])' = Record(undo[t][i])
    BY <2>1 DEF Record, Copy
  <2>6. pending = <<>> /\ kept = <<>>
    BY <1>14 DEF CommitFlush, Calls
  <2>7. flushed' <= Len(redo')
    BY <2>1, <2>2, <2>3 DEF TypeOK, Logs
  <2> QED
    BY <2>1, <2>4, <2>5, <2>6, <2>7 DEF Calls, Record, Copy
<1>15. ASSUME NEW t \in Tids, CommitClose(t) PROVE Calls'
    BY <1>15 DEF CommitClose, Calls
<1>16. ASSUME NEW t \in Tids, AbortTrans(t) PROVE Calls'
    BY <1>16 DEF AbortTrans, Calls, disk, progress
<1>17. CASE Crash
    BY <1>17 DEF Crash, Calls, disk
<1> QED
    BY <1>1, <1>2, <1>3, <1>4, <1>5, <1>6, <1>7, <1>8, <1>9, <1>10, <1>11,
       <1>12, <1>13, <1>14, <1>15, <1>16, <1>17, UsesAssumption DEF Next

\* Type correctness needs Calls for two steps only: rvm_destroy indexes files
\* by its argument, and a commit indexes the undo list by flushed.
LEMMA TypeStep == ASSUME TypedCalls, [Next]_vars PROVE TypeOK'
<1>1. CASE UNCHANGED vars
    BY <1>1 DEF TypedCalls, TypeOK, vars, disk, segments, transactions, progress
<1>2. \A t \in Tids : pc = "idle" \/ arg = t => flushed <= Len(undo[t])
    BY NoneAssumption DEF TypedCalls, TypeOK, Calls, Logs
<1>3. pc \in {"scan", "remove"} => arg \in Segs
    BY DEF TypedCalls, Calls
<1> QED
    BY <1>1, <1>2, <1>3, MapType, DestroyType, ModifyType, EndType
    DEF TypedCalls, Next

\* librvm is type correct: no call stores in its tables, its log or its files
\* anything but what their types say, whatever the crashes in between.
THEOREM TypeCorrect == Spec => [](TypeOK /\ Calls)
<1>1. Init => TypedCalls
    BY InitType DEF Init, TypedCalls, Calls
<1>2. TypedCalls /\ [Next]_vars => TypedCalls'
    BY TypeStep, CallsStep DEF TypedCalls
<1> QED
    BY <1>1, <1>2, PTL DEF Spec, TypedCalls
-----------------------------------------------------------------------------
(* Who may touch a segment *)

\* A running transaction owns every segment of its undo list, that segment is
\* still in the table, and the identifier has been given out.
Held ==
    /\ \A t \in running : t <= globalt_id
    /\ \A t \in running : \A i \in DOMAIN undo[t] :
          owner[undo[t][i].seg] = t /\ table[undo[t][i].seg] # "none"

LEMMA HeldStep == ASSUME TypedCalls, Held, [Next]_vars PROVE Held'
<1> USE DEF TypedCalls
<1>0. \A t \in Tids : \A i \in DOMAIN undo[t] : undo[t][i].seg \in Segs
    BY EntryFields DEF TypeOK, Logs
<1>1. CASE UNCHANGED <<transactions, segments>>
    BY <1>1 DEF Held, transactions, segments
<1>2. CASE MapReturn
  <2>1. UNCHANGED <<transactions, owner>>
    BY <1>2 DEF MapReturn, segments
  <2>2. \A s \in Segs : table[s] # "none" => table'[s] # "none"
    BY <1>2 DEF MapReturn, TypeOK, segments
  <2> QED
    BY <1>0, <2>1, <2>2 DEF Held, TypeOK, transactions
<1>3. ASSUME NEW s \in Segs, Unmap(s) PROVE Held'
    BY <1>3, <1>0 DEF Unmap, Held, TypeOK, transactions
<1>4. ASSUME NEW s \in Segs, DestroyStart(s) PROVE Held'
    BY <1>4, <1>0 DEF DestroyStart, Held, TypeOK, transactions
<1>5. ASSUME NEW S \in SUBSET Segs, BeginTrans(S) PROVE Held'
  <2>1. /\ undo' = undo /\ table' = table
        /\ globalt_id' = globalt_id + 1
        /\ running' = running \cup {globalt_id + 1}
        /\ owner' = [s \in Segs |-> IF s \in S THEN globalt_id + 1 ELSE owner[s]]
        /\ \A s \in S : owner[s] = 0
    BY <1>5 DEF BeginTrans, AllFree
  <2>2. globalt_id \in Nat /\ globalt_id + 1 \in Tids /\ running \subseteq Nat \ {0}
    BY <1>5, SizeAssumption DEF BeginTrans, TypeOK, Tids
  <2>3. globalt_id + 1 \notin running
    BY <2>2 DEF Held
  <2>4. undo[globalt_id + 1] = <<>>
    BY <2>2, <2>3 DEF TypeOK
  <2>5. ASSUME NEW t \in running', NEW i \in DOMAIN undo'[t]
        PROVE  owner'[undo[t][i].seg] = t /\ table[undo[t][i].seg] # "none"
    <3>1. t \in running
      BY <2>1, <2>4, <2>5
    <3>2. t \in Tids /\ undo[t][i].seg \in Segs /\ t # 0
      BY <1>0, <2>1, <2>2, <2>5, <3>1 DEF TypeOK
    <3>3. owner[undo[t][i].seg] = t /\ table[undo[t][i].seg] # "none"
      BY <2>1, <2>5, <3>1 DEF Held
    <3> QED
      BY <2>1, <3>2, <3>3
  <2>6. \A t \in running' : t <= globalt_id'
    BY <2>1, <2>2 DEF Held
  <2> QED
    BY <2>1, <2>5, <2>6 DEF Held
<1>6. ASSUME NEW S \in SUBSET Segs, BeginRefused(S) PROVE Held'
    BY <1>6, SizeAssumption DEF BeginRefused, Held, TypeOK, Tids, segments
<1>7. ASSUME NEW t \in Tids, NEW u \in Uses, AboutToModify(t, u[1], u[2])
      PROVE  Held'
    BY <1>7 DEF AboutToModify, Held, TypeOK, Logs, segments
<1>8. ASSUME NEW t \in Tids, NEW s \in Segs, NEW b \in Blocks, NEW v \in Vals,
             Store(t, s, b, v)
      PROVE  Held'
    BY <1>8 DEF Store, Held, transactions
<1>9. ASSUME NEW t \in Tids, CommitClose(t) PROVE Held'
    BY <1>9, <1>0 DEF CommitClose, Freed, Held, TypeOK
<1>10. ASSUME NEW t \in Tids, AbortTrans(t) PROVE Held'
    BY <1>10, <1>0 DEF AbortTrans, Held, TypeOK
<1>11. CASE Crash
    BY <1>11 DEF Crash, Held
<1>12. UNCHANGED vars => UNCHANGED <<transactions, segments>>
    BY DEF vars
<1>13. ASSUME \/ \E a \in Segs \cup {None} : TruncateStart(a)
              \/ TruncateApply \/ TruncateReturn
              \/ DestroyScan \/ DestroyRewrite \/ DestroyRemove
              \/ \E t \in Tids : CommitFlush(t)
       PROVE  UNCHANGED <<transactions, segments>>
    BY <1>13 DEF TruncateStart, TruncateApply, TruncateReturn, DestroyScan,
                 DestroyRewrite, DestroyRemove, CommitFlush
<1> QED
    BY <1>1, <1>2, <1>3, <1>4, <1>5, <1>6, <1>7, <1>8, <1>9, <1>10, <1>11,
       <1>12, <1>13 DEF Next

\* No two running transactions have undo entries of the same segment.
THEOREM Isolated == Spec => []Isolation
<1>1. Init => TypedCalls /\ Held
    BY InitType DEF Init, TypedCalls, Calls, Held
<1>2. TypedCalls /\ Held /\ [Next]_vars => (TypedCalls /\ Held)'
    BY TypeStep, CallsStep, HeldStep DEF TypedCalls
<1>3. TypedCalls /\ Held => Isolation
    BY DEF Held, Isolation
<1> QED
    BY <1>1, <1>2, <1>3, PTL DEF Spec
-----------------------------------------------------------------------------
(* The log names existing files only *)

\* LoggedFileExists, and what it needs: a segment in the table has its file,
\* and a segment being destroyed has left the log before it loses its file.
LoggedFiles ==
    /\ LoggedFileExists
    /\ \A s \in Segs : table[s] # "none" => s \in files
    /\ pc = "scan" => \A i \in DOMAIN kept : kept[i].seg # arg
    /\ pc = "remove" => \A i \in DOMAIN redo : redo[i].seg # arg

LEMMA LoggedFilesStep ==
    ASSUME TypedCalls, Held, LoggedFiles, [Next]_vars
    PROVE  LoggedFiles'
<1> USE DEF TypedCalls
<1>1. CASE UNCHANGED vars
    BY <1>1 DEF LoggedFiles, LoggedFileExists, vars, disk, segments, progress
<1>2. ASSUME NEW a \in Segs \cup {None}, TruncateStart(a) PROVE LoggedFiles'
    BY <1>2 DEF TruncateStart, LoggedFiles, LoggedFileExists, segments
<1>3. CASE TruncateApply
    BY <1>3 DEF TruncateApply, LoggedFiles, LoggedFileExists, TypeOK, Logs, segments
<1>4. CASE TruncateReturn
    BY <1>4 DEF TruncateReturn, LoggedFiles, LoggedFileExists, disk, segments
<1>5. CASE MapReturn
    BY <1>5 DEF MapReturn, LoggedFiles, LoggedFileExists, TypeOK, disk, segments
<1>6. ASSUME NEW s \in Segs, Unmap(s) PROVE LoggedFiles'
    BY <1>6 DEF Unmap, LoggedFiles, LoggedFileExists, TypeOK, disk, progress
<1>7. ASSUME NEW s \in Segs, DestroyStart(s) PROVE LoggedFiles'
    BY <1>7 DEF DestroyStart, LoggedFiles, LoggedFileExists, Calls, TypeOK
<1>8. CASE DestroyScan
    BY <1>8 DEF DestroyScan, LoggedFiles, LoggedFileExists, TypeOK, Logs,
                disk, segments
<1>9. CASE DestroyRewrite
    BY <1>9 DEF DestroyRewrite, LoggedFiles, LoggedFileExists, segments
<1>10. CASE DestroyRemove
    BY <1>10 DEF DestroyRemove, LoggedFiles, LoggedFileExists, Calls, segments
<1>11. ASSUME NEW S \in SUBSET Segs, BeginTrans(S) \/ BeginRefused(S)
       PROVE  LoggedFiles'
    BY <1>11 DEF BeginTrans, BeginRefused, LoggedFiles, LoggedFileExists,
                 disk, segments, progress
<1>12. ASSUME NEW t \in Tids, NEW s, NEW R, AboutToModify(t, s, R)
       PROVE  LoggedFiles'
    BY <1>12 DEF AboutToModify, LoggedFiles, LoggedFileExists, disk, segments, progress
<1>13. ASSUME NEW t \in Tids, NEW s \in Segs, NEW b \in Blocks, NEW v \in Vals,
              Store(t, s, b, v)
       PROVE  LoggedFiles'
    BY <1>13 DEF Store, LoggedFiles, LoggedFileExists, disk, progress
<1>14. ASSUME NEW t \in running, NEW i \in DOMAIN undo[t]
       PROVE  Record(undo[t][i]).seg \in files
  <2>1. undo[t][i] \in Entries
    BY <1>14 DEF TypeOK, Logs
  <2> QED
    BY <1>14, <2>1, EntryFields DEF Record, Held, LoggedFiles
<1>15. ASSUME NEW t \in Tids, CommitFlush(t) PROVE LoggedFiles'
  <2>1. flushed + 1 \in DOMAIN undo[t] /\ t \in running
    BY <1>15 DEF CommitFlush, TypeOK, Logs
  <2> QED
    BY <1>14, <1>15, <2>1
    DEF CommitFlush, LoggedFiles, LoggedFileExists, TypeOK, Logs, segments
<1>16. ASSUME NEW t \in Tids, CommitClose(t) PROVE LoggedFiles'
  <2>1. flushed \in Nat /\ flushed <= Len(undo[t]) /\ undo[t] \in Seq(Entries)
    BY <1>16, NoneAssumption DEF CommitClose, TypeOK, Calls, Logs
  <2>2. \A i \in DOMAIN Unwritten(t) : Unwritten(t)[i].seg \in files
    BY <1>14, <1>16, <2>1 DEF CommitClose, Unwritten
  <2>3. Unwritten(t) \in Logs
    BY <2>1, UnwrittenType
  <2>4. \A i \in DOMAIN redo' : redo'[i].seg \in files
    BY <1>16, <2>2, <2>3 DEF CommitClose, LoggedFiles, LoggedFileExists, TypeOK, Logs
  <2> QED
    BY <1>16, <2>4 DEF CommitClose, LoggedFiles, LoggedFileExists
<1>17. ASSUME NEW t \in Tids, AbortTrans(t) PROVE LoggedFiles'
    BY <1>17 DEF AbortTrans, LoggedFiles, LoggedFileExists, disk, progress
<1>18. CASE Crash
    BY <1>18 DEF Crash, LoggedFiles, LoggedFileExists, disk
<1> QED
    BY <1>1, <1>2, <1>3, <1>4, <1>5, <1>6, <1>7, <1>8, <1>9, <1>10, <1>11,
       <1>12, <1>13, <1>15, <1>16, <1>17, <1>18 DEF Next

\* Whatever calls the crashes cut, truncation finds the file of every record.
THEOREM TruncationFindsFiles == Spec => []LoggedFileExists
<1>1. Init => TypedCalls /\ Held /\ LoggedFiles
    BY InitType
    DEF Init, TypedCalls, Calls, Held, LoggedFiles, LoggedFileExists
<1>2. TypedCalls /\ Held /\ LoggedFiles /\ [Next]_vars
        => (TypedCalls /\ Held /\ LoggedFiles)'
    BY TypeStep, CallsStep, HeldStep, LoggedFilesStep DEF TypedCalls
<1>3. LoggedFiles => LoggedFileExists
    BY DEF LoggedFiles
<1> QED
    BY <1>1, <1>2, <1>3, PTL DEF Spec
-----------------------------------------------------------------------------
(* The ends of transactions *)

\* A transaction that ends frees its segments, but for an abort those that it
\* has no undo entry of.
THEOREM EndsRelease == Spec => SegmentsReleased
<1> DEFINE Stuck(s) == /\ pc = "idle" /\ disk' = disk
                       /\ undo[owner[s]] # <<>>
                       /\ \A i \in DOMAIN undo[owner[s]] :
                             undo[owner[s]][i].seg # s
           Ends(s) == owner[s] \in running \ running'
<1>1. ASSUME [Next]_vars, NEW s \in Segs, Ends(s)
      PROVE  owner'[s] = 0 \/ Stuck(s)
  <2>1. \/ \E t \in Tids : CommitClose(t) \/ AbortTrans(t)
        \/ Crash
    <3>1. CASE UNCHANGED running
      BY <1>1, <3>1
    <3>2. ASSUME NEW S \in SUBSET Segs, BeginTrans(S) PROVE FALSE
      BY <1>1, <3>2 DEF BeginTrans
    <3>3. ASSUME \/ UNCHANGED vars
                 \/ \E a \in Segs \cup {None} : TruncateStart(a)
                 \/ TruncateApply \/ TruncateReturn \/ MapReturn
                 \/ \E r \in Segs : Unmap(r) \/ DestroyStart(r)
                 \/ DestroyScan \/ DestroyRewrite \/ DestroyRemove
                 \/ \E S \in SUBSET Segs : BeginRefused(S)
                 \/ \E t \in Tids, u \in Uses : AboutToModify(t, u[1], u[2])
                 \/ \E t \in Tids, r \in Segs, b \in Blocks, v \in Vals :
                       Store(t, r, b, v)
                 \/ \E t \in Tids : CommitFlush(t)
          PROVE  UNCHANGED running
      BY <3>3 DEF vars, transactions, TruncateStart, TruncateApply,
                  TruncateReturn, MapReturn, Unmap, DestroyStart, DestroyScan,
                  DestroyRewrite, DestroyRemove, BeginRefused, AboutToModify,
                  Store, CommitFlush
    <3> QED
      BY <1>1, <3>1, <3>2, <3>3 DEF Next
  <2>2. ASSUME NEW t \in Tids, CommitClose(t) PROVE owner'[s] = 0
    <3>1. owner[s] = t
      BY <1>1, <2>2 DEF CommitClose
    <3> QED
      BY <2>2, <3>1 DEF CommitClose, Freed
  <2>3. ASSUME NEW t \in Tids, AbortTrans(t) PROVE owner'[s] = 0 \/ Stuck(s)
    <3>1. owner[s] = t
      BY <1>1, <2>3 DEF AbortTrans
    <3> QED
      BY <2>3, <3>1 DEF AbortTrans
  <2>4. CASE Crash
    BY <2>4 DEF Crash
  <2> QED
    BY <2>1, <2>2, <2>3, <2>4
<1>2. [Next]_vars =>
        [\A s \in Segs : LET t == owner[s] IN
            t \in running \ running' =>
                \/ owner'[s] = 0
                \/ /\ pc = "idle" /\ disk' = disk
                   /\ undo[t] # <<>>
                   /\ \A i \in DOMAIN undo[t] : undo[t][i].seg # s]_vars
    BY <1>1
<1> QED
    BY <1>2, PTL DEF Spec, SegmentsReleased
-----------------------------------------------------------------------------
(***************************************************************************)
(* Part 2: what the log, the files, the undo lists and memory hold         *)
(***************************************************************************)
(* Replaying a log over a file *)

\* Replaying log over the file f leaves v in block b of segment s.
Yields(log, f, s, b, v) ==
    /\ \A i \in DOMAIN log : LastCover(log, i, s, b) => Norm(log[i].data[b]) = v
    /\ (\A i \in DOMAIN log : ~Covers(log[i], s, b)) => Norm(f[b]) = v

\* Writing the first record to its file and dropping it changes nothing.
LEMMA YieldsApply ==
    ASSUME NEW log \in Logs, log # <<>>, NEW s \in Segs, NEW b \in Blocks, NEW v,
           NEW f, NEW g, Yields(log, f, s, b, v),
           Head(log).seg = s => g = WriteAt(f, Head(log).data),
           Head(log).seg # s => g = f,
           f \in [Blocks -> Data \cup {Eof}]
    PROVE  Yields(Tail(log), g, s, b, v)
<1> DEFINE rest == Tail(log)
<1>1. /\ rest \in Logs /\ Len(log) \in Nat /\ Len(rest) = Len(log) - 1
      /\ DOMAIN log = 1..Len(log) /\ DOMAIN rest = 1..Len(rest)
      /\ \A i \in DOMAIN rest : rest[i] = log[i + 1]
      /\ log[1] = Head(log) /\ 1 \in DOMAIN log
    BY DEF Logs
<1> HIDE DEF rest
<1>2. ASSUME NEW i \in DOMAIN rest, LastCover(rest, i, s, b)
      PROVE  Norm(rest[i].data[b]) = v
  <2>1. i + 1 \in DOMAIN log /\ Covers(log[i + 1], s, b)
    BY <1>1, <1>2 DEF LastCover
  <2>2. ASSUME NEW j \in DOMAIN log, j > i + 1 PROVE ~Covers(log[j], s, b)
    <3>1. j - 1 \in DOMAIN rest /\ j - 1 > i /\ rest[j - 1] = log[j]
      BY <1>1, <2>2
    <3> QED
      BY <1>2, <3>1 DEF LastCover
  <2>3. LastCover(log, i + 1, s, b)
    BY <2>1, <2>2 DEF LastCover
  <2> QED
    BY <1>1, <2>1, <2>3 DEF Yields
<1>3. ASSUME \A i \in DOMAIN rest : ~Covers(rest[i], s, b)
      PROVE  Norm(g[b]) = v
  <2>1. ASSUME NEW j \in DOMAIN log, j > 1 PROVE ~Covers(log[j], s, b)
    <3>1. j - 1 \in DOMAIN rest /\ rest[j - 1] = log[j]
      BY <1>1, <2>1
    <3> QED
      BY <1>3, <3>1
  <2>2. CASE Covers(log[1], s, b)
    <3>1. LastCover(log, 1, s, b)
      BY <2>1, <2>2 DEF LastCover
    <3>2. Norm(log[1].data[b]) = v
      BY <1>1, <3>1 DEF Yields
    <3>3. g[b] = log[1].data[b]
      BY <1>1, <2>2 DEF Covers, WriteAt
    <3> QED
      BY <3>2, <3>3
  <2>3. CASE ~Covers(log[1], s, b)
    <3>1. \A j \in DOMAIN log : ~Covers(log[j], s, b)
      BY <1>1, <2>1, <2>3
    <3>2. Norm(f[b]) = v
      BY <3>1 DEF Yields
    <3>3. Norm(g[b]) = Norm(f[b])
      BY <1>1, <2>3, DataAssumption DEF Covers, WriteAt, Norm
    <3> QED
      BY <3>2, <3>3
  <2> QED
    BY <2>2, <2>3
<1> QED
  BY <1>2, <1>3 DEF Yields, rest

\* Appending records that all hold w, where they cover the block, yields w;
\* if none covers it, what the log yielded stands.
LEMMA YieldsAppend ==
    ASSUME NEW log \in Logs, NEW new \in Logs, NEW s, NEW b, NEW f, NEW v, NEW w,
           Yields(log, f, s, b, v),
           \A i \in DOMAIN new : Covers(new[i], s, b) => Norm(new[i].data[b]) = w,
           (\A i \in DOMAIN new : ~Covers(new[i], s, b)) => w = v
    PROVE  Yields(log \o new, f, s, b, w)
<1> DEFINE all == log \o new
<1>1. /\ Len(log) \in Nat /\ Len(new) \in Nat /\ Len(all) = Len(log) + Len(new)
      /\ DOMAIN log = 1..Len(log) /\ DOMAIN new = 1..Len(new)
      /\ DOMAIN all = 1..Len(all)
      /\ \A i \in DOMAIN log : all[i] = log[i]
      /\ \A i \in DOMAIN new : all[Len(log) + i] = new[i]
    BY DEF Logs
<1> HIDE DEF all
<1>2. ASSUME NEW i \in DOMAIN new PROVE Len(log) + i \in DOMAIN all
    BY <1>1
<1>3. ASSUME NEW i \in DOMAIN log, LastCover(all, i, s, b)
      PROVE  LastCover(log, i, s, b) /\ \A k \in DOMAIN new : ~Covers(new[k], s, b)
    BY <1>1, <1>2, <1>3 DEF LastCover
<1>4. ASSUME NEW i \in DOMAIN all, LastCover(all, i, s, b)
      PROVE  Norm(all[i].data[b]) = w
  <2>1. CASE i \in DOMAIN log
    BY <1>1, <1>3, <1>4, <2>1 DEF Yields
  <2>2. CASE i \notin DOMAIN log
    <3>1. i - Len(log) \in DOMAIN new /\ all[i] = new[i - Len(log)]
      BY <1>1, <2>2
    <3> QED
      BY <1>4, <3>1 DEF LastCover
  <2> QED
    BY <2>1, <2>2
<1>5. ASSUME \A i \in DOMAIN all : ~Covers(all[i], s, b)
      PROVE  Norm(f[b]) = w
    BY <1>1, <1>2, <1>5 DEF Yields
<1> QED
    BY <1>4, <1>5 DEF Yields, all

\* Dropping a record of another segment from a log changes nothing.
LEMMA YieldsDrop ==
    ASSUME NEW old \in Logs, NEW log \in Logs, log # <<>>, NEW s, NEW b, NEW f, NEW v,
           Yields(old \o log, f, s, b, v), Head(log).seg # s
    PROVE  Yields(old \o Tail(log), f, s, b, v)
<1> DEFINE all == old \o log
           less == old \o Tail(log)
           n == Len(old)
<1>1. /\ n \in Nat /\ Len(log) \in Nat \ {0} /\ Len(all) = n + Len(log)
      /\ Len(less) = n + Len(log) - 1
      /\ DOMAIN all = 1..Len(all) /\ DOMAIN less = 1..Len(less)
      /\ \A i \in 1..n : all[i] = old[i] /\ less[i] = old[i]
      /\ \A i \in 1..Len(log) : all[n + i] = log[i]
      /\ \A i \in 1..(Len(log) - 1) : less[n + i] = log[i + 1]
      /\ log[1] = Head(log)
    BY DEF Logs
<1> HIDE DEF all, less, n
<1>2. /\ \A i \in 1..n : less[i] = all[i]
      /\ \A i \in (n + 1)..Len(less) : less[i] = all[i + 1]
      /\ ~Covers(all[n + 1], s, b)
  <2>1. ASSUME NEW i \in (n + 1)..Len(less) PROVE less[i] = all[i + 1]
    <3>1. i - n \in 1..(Len(log) - 1) /\ n + (i - n) = i
      BY <1>1
    <3>2. less[i] = log[i - n + 1]
      BY <1>1, <3>1
    <3>3. i - n + 1 \in 1..Len(log) /\ n + (i - n + 1) = i + 1
      BY <1>1, <3>1
    <3>4. all[i + 1] = log[i - n + 1]
      BY <1>1, <3>3
    <3> QED
      BY <3>2, <3>4
  <2>2. all[n + 1] = Head(log)
    BY <1>1
  <2> QED
    BY <1>1, <2>1, <2>2 DEF Covers
<1>3. ASSUME NEW i \in DOMAIN less, LastCover(less, i, s, b)
      PROVE  Norm(less[i].data[b]) = v
  <2>1. CASE i <= n
    <3>1. i \in DOMAIN all /\ all[i] = less[i] /\ i \in 1..n
      BY <1>1, <1>2, <2>1
    <3>2. ASSUME NEW j \in DOMAIN all, j > i PROVE ~Covers(all[j], s, b)
      <4>1. CASE j <= n
        BY <1>1, <1>2, <1>3, <3>2, <4>1 DEF LastCover
      <4>2. CASE j = n + 1
        BY <1>2, <4>2
      <4>3. CASE j > n + 1
        <5>1. j - 1 \in (n + 1)..Len(less) /\ j - 1 \in DOMAIN less /\ j - 1 > i
          BY <1>1, <2>1, <3>1, <4>3
        <5>2. less[j - 1] = all[j]
          BY <1>1, <1>2, <5>1
        <5> QED
          BY <1>3, <5>1, <5>2 DEF LastCover
      <4> QED
        BY <1>1, <4>1, <4>2, <4>3
    <3>3. LastCover(all, i, s, b)
      BY <1>3, <3>1, <3>2 DEF LastCover
    <3> QED
      BY <3>1, <3>3 DEF Yields, all
  <2>2. CASE i > n
    <3>1. i \in (n + 1)..Len(less) /\ i + 1 \in DOMAIN all /\ less[i] = all[i + 1]
      BY <1>1, <1>2, <2>2
    <3>2. ASSUME NEW j \in DOMAIN all, j > i + 1 PROVE ~Covers(all[j], s, b)
      <4>1. j - 1 \in (n + 1)..Len(less) /\ j - 1 \in DOMAIN less /\ j - 1 > i
        BY <1>1, <2>2, <3>1, <3>2
      <4>2. less[j - 1] = all[j]
        BY <1>1, <1>2, <4>1
      <4> QED
        BY <1>3, <4>1, <4>2 DEF LastCover
    <3>3. LastCover(all, i + 1, s, b)
      BY <1>3, <3>1, <3>2 DEF LastCover
    <3> QED
      BY <3>1, <3>3 DEF Yields, all
  <2> QED
    BY <1>1, <2>1, <2>2
<1>4. ASSUME \A i \in DOMAIN less : ~Covers(less[i], s, b)
      PROVE  Norm(f[b]) = v
  <2>1. ASSUME NEW j \in DOMAIN all PROVE ~Covers(all[j], s, b)
    <3>1. CASE j <= n
      BY <1>1, <1>2, <1>4, <3>1
    <3>2. CASE j > n + 1
      <4>1. j - 1 \in (n + 1)..Len(less) /\ j - 1 \in DOMAIN less
        BY <1>1, <3>2
      <4>2. less[j - 1] = all[j]
        BY <1>1, <1>2, <4>1
      <4> QED
        BY <1>4, <4>1, <4>2
    <3> QED
      BY <1>1, <1>2, <3>1, <3>2
  <2> QED
    BY <2>1 DEF Yields, all
<1> QED
    BY <1>3, <1>4 DEF Yields, less
-----------------------------------------------------------------------------
(* The invariant *)

\* The committed records that are not in the segment files, wherever the call
\* in progress keeps them.
Log ==
    IF pc = "truncate" THEN pending
    ELSE IF pc = "scan" THEN kept \o pending
    ELSE IF pc = "commit" THEN SubSeq(redo, 1, Len(redo) - flushed)
    ELSE redo

\* The log replayed over the files is the committed content of every segment
\* but the one that rvm_destroy is taking out of the log.
Recoverable ==
    \A s \in Segs, b \in Blocks :
        (pc = "scan" /\ s = arg) \/ Yields(Log, file[s], s, b, committed[s][b])

Bookkeeping == TypedCalls /\ Held /\ LoggedFiles
DataInv == Recoverable /\ UndoIsCommitted /\ CleanImage

LEMMA LogType == TypedCalls => Log \in Logs
BY DEF TypedCalls, TypeOK, Calls, Log, Logs

\* Undo entries and memory are read through these variables only.
LEMMA ImageUnchanged ==
    ASSUME UndoIsCommitted, CleanImage, UNCHANGED <<segments, transactions, committed>>
    PROVE  UndoIsCommitted' /\ CleanImage'
BY DEF UndoIsCommitted, CleanImage, segments, transactions, Covers

\* The two ways in which a step preserves Recoverable: the next log yields the
\* next contents, or nothing that counts has changed.
LEMMA RecoverableNext ==
    ASSUME \A s \in Segs, b \in Blocks :
              (pc' = "scan" /\ s = arg') \/ Yields(Log', file'[s], s, b, committed'[s][b])
    PROVE  Recoverable'
BY DEF Recoverable, Yields, LastCover, Covers, Norm

LEMMA RecoverableSame ==
    ASSUME Recoverable, Log' = Log, file' = file, committed' = committed,
           pc' # "scan" \/ arg' = arg, pc = "scan" => pc' = "scan"
    PROVE  Recoverable'
BY RecoverableNext DEF Recoverable

\* Truncation moves the log from redo.txt to memory, then record by record to
\* the files.
LEMMA TruncateData ==
    ASSUME Bookkeeping, DataInv,
           \/ \E a \in Segs \cup {None} : TruncateStart(a)
           \/ TruncateApply \/ TruncateReturn
    PROVE  DataInv'
<1> USE DEF Bookkeeping, TypedCalls
<1>1. UndoIsCommitted' /\ CleanImage'
    BY ImageUnchanged DEF DataInv, TruncateStart, TruncateApply, TruncateReturn
<1>2. ASSUME NEW a \in Segs \cup {None}, TruncateStart(a) PROVE Recoverable'
  <2>1. Log' = Log /\ file' = file /\ committed' = committed
    BY <1>2 DEF TruncateStart, Log
  <2>2. pc # "scan" /\ pc' # "scan"
    BY <1>2 DEF TruncateStart
  <2> QED
    BY <2>1, <2>2, RecoverableSame DEF DataInv
<1>3. ASSUME TruncateApply PROVE Recoverable'
  <2>1. /\ pc = "truncate" /\ pc' = pc /\ committed' = committed
        /\ pending \in Logs /\ pending # <<>> /\ pending' = Tail(pending)
        /\ file' = [file EXCEPT ![Head(pending).seg] = WriteAt(@, Head(pending).data)]
    BY <1>3 DEF TruncateApply, TypeOK
  <2>2. ASSUME NEW s \in Segs, NEW b \in Blocks
        PROVE  Yields(pending', file'[s], s, b, committed[s][b])
    <3>1. Yields(pending, file[s], s, b, committed[s][b])
      BY <2>1 DEF DataInv, Recoverable, Log
    <3>2. /\ file[s] \in [Blocks -> Data \cup {Eof}]
          /\ Head(pending).seg = s => file'[s] = WriteAt(file[s], Head(pending).data)
          /\ Head(pending).seg # s => file'[s] = file[s]
      BY <2>1 DEF TypeOK
    <3> QED
      BY <2>1, <3>1, <3>2, YieldsApply
  <2> QED
    BY <2>1, <2>2, RecoverableNext DEF Log
<1>4. ASSUME TruncateReturn PROVE Recoverable'
  <2>1. Log' = Log /\ file' = file /\ committed' = committed
    BY <1>4 DEF TruncateReturn, Calls, Log, disk
  <2>2. pc # "scan" /\ pc' # "scan"
    BY <1>4 DEF TruncateReturn
  <2> QED
    BY <2>1, <2>2, RecoverableSame DEF DataInv
<1> QED
    BY <1>1, <1>2, <1>3, <1>4 DEF DataInv

\* With nothing left in the log, what is mapped is the committed content.
LEMMA MapData == ASSUME Bookkeeping, DataInv, MapReturn PROVE DataInv'
<1> USE DEF Bookkeeping, TypedCalls
<1>1. /\ pc = "truncate" /\ pc' = "idle" /\ arg \in Segs
      /\ pending = <<>> /\ redo = <<>> /\ redo' = <<>>
      /\ committed' = committed /\ UNCHANGED transactions
    BY DEF MapReturn, Calls, disk
<1>2. \A s \in Segs, b \in Blocks : Norm(file[s][b]) = committed[s][b]
    BY <1>1 DEF DataInv, Recoverable, Log, Yields
<1>3. \A s \in Segs, b \in Blocks : Norm(file'[s][b]) = Norm(file[s][b])
  <2>1. \A b \in Blocks : Norm(Extend(file[arg])[b]) = Norm(file[arg][b])
    BY DataAssumption DEF Extend, ReadIn, Norm
  <2>2. file' = file \/ file' = [file EXCEPT ![arg] = Extend(@)]
    BY DEF MapReturn, disk
  <2> QED
    BY <1>1, <2>1, <2>2 DEF TypeOK
<1>4. Recoverable'
  <2>1. Log' = <<>>
    BY <1>1 DEF Log
  <2> QED
    BY <1>1, <1>2, <1>3, <2>1, RecoverableNext DEF Yields
<1>5. UndoIsCommitted'
    BY <1>1 DEF DataInv, UndoIsCommitted, Covers, transactions
<1>6. CASE table[arg] = "mapped"
    BY <1>1, <1>4, <1>6, ImageUnchanged DEF DataInv, MapReturn
<1>7. CASE table[arg] # "mapped"
  <2>1. /\ \A s \in Segs \ {arg} : mem'[s] = mem[s] /\ table'[s] = table[s]
        /\ \A b \in Blocks : Norm(mem'[arg][b]) = Norm(file[arg][b])
    BY <1>1, <1>7, DataAssumption DEF MapReturn, ReadIn, Norm, TypeOK
  <2>2. CleanImage'
    BY <1>1, <1>2, <2>1 DEF DataInv, CleanImage, Covers, Norm, transactions
  <2> QED
    BY <1>4, <1>5, <2>2 DEF DataInv
<1> QED
    BY <1>6, <1>7

\* rvm_destroy takes the records of its segment out of the log and leaves the
\* recoverable content of the others as it is.
LEMMA DestroyData ==
    ASSUME Bookkeeping, DataInv,
           \/ \E s \in Segs : Unmap(s) \/ DestroyStart(s)
           \/ DestroyScan \/ DestroyRewrite \/ DestroyRemove
    PROVE  DataInv'
<1> USE DEF Bookkeeping, TypedCalls
<1>0. \A t \in running : \A i \in DOMAIN undo[t] :
          undo[t][i].seg \in Segs /\ table[undo[t][i].seg] # "none"
    BY EntryFields DEF TypeOK, Logs, Held
<1>1. ASSUME NEW s \in Segs, Unmap(s) PROVE DataInv'
  <2>1. /\ UNCHANGED <<disk, mem, transactions, progress, committed>>
        /\ \A r \in Segs : table'[r] # "none" => table[r] # "none"
    BY <1>1 DEF Unmap, TypeOK
  <2>2. Recoverable'
    BY <2>1, RecoverableSame DEF DataInv, Log, disk, progress
  <2>3. UndoIsCommitted' /\ CleanImage'
    BY <2>1 DEF DataInv, UndoIsCommitted, CleanImage, Covers, transactions
  <2> QED
    BY <2>2, <2>3 DEF DataInv
<1>2. ASSUME NEW s \in Segs, DestroyStart(s) PROVE DataInv'
  <2>1. /\ UNCHANGED <<file, transactions, committed>>
        /\ pc = "idle" /\ pc' = "scan" /\ arg' = s
        /\ kept' = <<>> /\ pending' = redo /\ redo \in Seq(Entries)
        /\ \A r \in Segs : table'[r] # "none" => r # s /\ table[r] # "none"
        /\ \A r \in Segs \ {s} : mem'[r] = mem[r]
    BY <1>2 DEF DestroyStart, Calls, TypeOK, Logs
  <2>2. Log' = redo /\ Log = redo
    BY <2>1 DEF Log
  <2>3. Recoverable'
    BY <2>1, <2>2, RecoverableNext DEF DataInv, Recoverable
  <2>4. UndoIsCommitted' /\ CleanImage'
    BY <2>1 DEF DataInv, UndoIsCommitted, CleanImage, Covers, transactions
  <2> QED
    BY <2>3, <2>4 DEF DataInv
<1>3. ASSUME DestroyScan PROVE DataInv'
  <2>1. /\ pc = "scan" /\ pc' = "scan" /\ arg' = arg /\ file' = file
        /\ committed' = committed /\ pending \in Logs /\ pending # <<>>
        /\ kept \in Logs /\ pending' = Tail(pending)
        /\ kept' = IF Head(pending).seg = arg THEN kept ELSE Append(kept, Head(pending))
    BY <1>3 DEF DestroyScan, TypeOK, disk
  <2>2. ASSUME NEW s \in Segs, NEW b \in Blocks, s # arg
        PROVE  Yields(kept' \o pending', file[s], s, b, committed[s][b])
    <3>1. Yields(kept \o pending, file[s], s, b, committed[s][b])
      BY <2>1, <2>2 DEF DataInv, Recoverable, Log
    <3>2. CASE Head(pending).seg = arg
      BY <2>1, <2>2, <3>1, <3>2, YieldsDrop
    <3>3. CASE Head(pending).seg # arg
      <4>1. kept' \o pending' = kept \o pending
        BY <2>1, <3>3 DEF Logs
      <4> QED
        BY <3>1, <4>1
    <3> QED
      BY <3>2, <3>3
  <2>3. Recoverable'
    BY <2>1, <2>2, RecoverableNext DEF Log
  <2> QED
    BY <1>3, <2>3, ImageUnchanged DEF DataInv, DestroyScan
<1>4. ASSUME DestroyRewrite PROVE DataInv'
  <2>1. /\ pc = "scan" /\ pc' = "remove" /\ arg \in Segs /\ table[arg] = "none"
        /\ pending = <<>> /\ redo' = kept /\ file' = file
        /\ kept \in Seq(Entries)
        /\ \A i \in DOMAIN kept : kept[i].seg # arg
        /\ committed' = [committed EXCEPT ![arg] = NormAll(file[arg])]
        /\ UNCHANGED <<segments, transactions>>
    BY <1>4 DEF DestroyRewrite, Calls, LoggedFiles, TypeOK, Logs
  <2>2. Log' = kept /\ Log = kept
    BY <2>1 DEF Log
  <2>3. ASSUME NEW s \in Segs, NEW b \in Blocks
        PROVE  Yields(kept, file[s], s, b, committed'[s][b])
    <3>1. CASE s = arg
      BY <2>1, <3>1 DEF Yields, LastCover, Covers, NormAll, TypeOK
    <3>2. CASE s # arg
      BY <2>1, <2>2, <3>2 DEF DataInv, Recoverable, TypeOK
    <3> QED
      BY <3>1, <3>2
  <2>4. Recoverable'
    BY <2>1, <2>2, <2>3, RecoverableNext
  <2>5. UndoIsCommitted'
    BY <1>0, <2>1 DEF DataInv, UndoIsCommitted, Covers, TypeOK, transactions
  <2>6. CleanImage'
    BY <2>1 DEF DataInv, CleanImage, Covers, TypeOK, transactions, segments
  <2> QED
    BY <2>4, <2>5, <2>6 DEF DataInv
<1>5. ASSUME DestroyRemove PROVE DataInv'
  <2>1. /\ pc = "remove" /\ pc' = "idle" /\ arg \in Segs /\ table[arg] = "none"
        /\ redo' = redo /\ file' = [file EXCEPT ![arg] = EmptyFile]
        /\ \A i \in DOMAIN redo : redo[i].seg # arg
        /\ committed' = [committed EXCEPT ![arg] = [b \in Blocks |-> Blank]]
        /\ UNCHANGED <<segments, transactions>>
    BY <1>5 DEF DestroyRemove, Calls, LoggedFiles
  <2>2. Log' = redo /\ Log = redo
    BY <2>1 DEF Log
  <2>3. ASSUME NEW s \in Segs, NEW b \in Blocks
        PROVE  Yields(redo, file'[s], s, b, committed'[s][b])
    <3>1. CASE s = arg
      <4>1. file'[s][b] = Eof /\ committed'[s][b] = Blank
        BY <2>1, <3>1 DEF EmptyFile, TypeOK
      <4> QED
        BY <2>1, <3>1, <4>1, DataAssumption DEF Yields, LastCover, Covers, Norm
    <3>2. CASE s # arg
      BY <2>1, <2>2, <3>2 DEF DataInv, Recoverable, TypeOK
    <3> QED
      BY <3>1, <3>2
  <2>4. Recoverable'
    BY <2>1, <2>2, <2>3, RecoverableNext
  <2>5. UndoIsCommitted'
    BY <1>0, <2>1 DEF DataInv, UndoIsCommitted, Covers, TypeOK, transactions
  <2>6. CleanImage'
    BY <2>1 DEF DataInv, CleanImage, Covers, TypeOK, transactions, segments
  <2> QED
    BY <2>4, <2>5, <2>6 DEF DataInv
<1> QED
    BY <1>1, <1>2, <1>3, <1>4, <1>5

\* Beginning, declaring and storing touch no file; a new undo entry saves
\* what CleanImage says the block holds.
LEMMA ModifyData ==
    ASSUME Bookkeeping, DataInv,
           \/ \E S \in SUBSET Segs \ {{}} : BeginTrans(S) \/ BeginRefused(S)
           \/ \E t \in Tids, u \in Uses : AboutToModify(t, u[1], u[2])
           \/ \E t \in Tids, s \in Segs, b \in Blocks, v \in Vals : Store(t, s, b, v)
    PROVE  DataInv'
<1> USE DEF Bookkeeping, TypedCalls
<1>1. UNCHANGED <<disk, progress, committed, table>>
    BY DEF BeginTrans, BeginRefused, AboutToModify, Store, segments
<1>2. Recoverable'
    BY <1>1, RecoverableSame DEF DataInv, Log, disk, progress
<1>3. ASSUME NEW S \in SUBSET Segs, BeginTrans(S) PROVE DataInv'
  <2>1. /\ mem' = mem /\ undo' = undo /\ running' = running \cup {globalt_id + 1}
        /\ globalt_id + 1 \in Tids /\ globalt_id + 1 \notin running
    BY <1>3, SizeAssumption DEF BeginTrans, Held, TypeOK, Tids
  <2>2. undo[globalt_id + 1] = <<>>
    BY <2>1 DEF TypeOK
  <2>3. \A t \in running' : \A i \in DOMAIN undo[t] : t \in running
    BY <2>1, <2>2
  <2>4. UndoIsCommitted'
    BY <1>1, <2>1, <2>3 DEF DataInv, UndoIsCommitted, Covers
  <2>5. CleanImage'
    BY <1>1, <2>1 DEF DataInv, CleanImage, Covers
  <2> QED
    BY <1>2, <2>4, <2>5 DEF DataInv
<1>4. ASSUME NEW S \in SUBSET Segs, BeginRefused(S) PROVE DataInv'
    BY <1>1, <1>2, <1>4
    DEF BeginRefused, DataInv, UndoIsCommitted, CleanImage, Covers, segments
<1>5. ASSUME NEW t \in Tids, NEW u \in Uses, AboutToModify(t, u[1], u[2])
      PROVE  DataInv'
  <2> DEFINE e == [seg |-> u[1], data |-> Copy(u[1], u[2])]
             n == Len(undo[t])
  <2>1. /\ t \in running /\ running' = running /\ mem' = mem
        /\ owner[u[1]] = t /\ table[u[1]] = "mapped"
        /\ undo' = [undo EXCEPT ![t] = Append(@, e)]
        /\ undo[t] \in Seq(Entries) /\ n \in Nat
    BY <1>5 DEF AboutToModify, TypeOK, Logs, segments
  <2>2. /\ DOMAIN undo[t] = 1..n /\ DOMAIN undo'[t] = 1..(n + 1)
        /\ \A i \in 1..n : undo'[t][i] = undo[t][i]
        /\ undo'[t][n + 1] = e
        /\ \A r \in Tids \ {t} : undo'[r] = undo[r]
    BY <2>1 DEF TypeOK
  <2>3. ASSUME NEW s \in Segs, NEW b \in Blocks, Covers(e, s, b),
               \A j \in 1..n : ~Covers(undo[t][j], s, b)
        PROVE  Norm(e.data[b]) = committed[s][b]
    <3>1. s = u[1] /\ b \in u[2] /\ e.data[b] = mem[s][b]
      BY <2>3 DEF Covers, Copy
    <3>2. \A r \in running : \A i \in DOMAIN undo[r] : ~Covers(undo[r][i], s, b)
      BY <2>1, <2>2, <2>3, <3>1 DEF Held, Covers
    <3> QED
      BY <2>1, <3>1, <3>2 DEF DataInv, CleanImage
  <2>4. ASSUME NEW r \in running, NEW s \in Segs, NEW b \in Blocks,
               NEW i \in DOMAIN undo'[r], Covers(undo'[r][i], s, b),
               \A j \in 1..(i - 1) : ~Covers(undo'[r][j], s, b)
        PROVE  Norm(undo'[r][i].data[b]) = committed[s][b]
    <3>1. CASE r = t /\ i = n + 1
      <4>1. Covers(e, s, b) /\ undo'[r][i] = e
        BY <2>2, <2>4, <3>1
      <4>2. \A j \in 1..n : j \in 1..(i - 1) /\ undo'[r][j] = undo[t][j]
        BY <2>1, <2>2, <3>1
      <4>3. \A j \in 1..n : ~Covers(undo[t][j], s, b)
        BY <2>4, <4>2
      <4> HIDE DEF e
      <4> QED
        BY <2>3, <4>1, <4>3
    <3>2. CASE r = t /\ i # n + 1
      <4>1. i \in 1..n /\ \A j \in 1..(i - 1) : j \in 1..n
        BY <2>1, <2>2, <3>2
      <4>2. /\ i \in DOMAIN undo[r] /\ undo'[r][i] = undo[r][i]
            /\ \A j \in 1..(i - 1) : undo'[r][j] = undo[r][j]
        BY <2>2, <3>2, <4>1
      <4> QED
        BY <2>4, <4>2 DEF DataInv, UndoIsCommitted
    <3>3. CASE r # t
      <4>1. undo'[r] = undo[r]
        BY <2>2, <3>3 DEF TypeOK
      <4> QED
        BY <2>4, <4>1 DEF DataInv, UndoIsCommitted
    <3> QED
      BY <3>1, <3>2, <3>3
  <2>5. UndoIsCommitted'
    BY <1>1, <2>1, <2>4 DEF UndoIsCommitted, Covers, Norm
  <2>6. \A r \in running : \A i \in DOMAIN undo[r] :
            i \in DOMAIN undo'[r] /\ undo'[r][i] = undo[r][i]
    BY <2>1, <2>2 DEF TypeOK
  <2>7. CleanImage'
    BY <1>1, <2>1, <2>6 DEF DataInv, CleanImage, Covers, Norm
  <2> QED
    BY <1>2, <2>5, <2>7 DEF DataInv
<1>6. ASSUME NEW t \in Tids, NEW s \in Segs, NEW b \in Blocks, NEW v \in Vals,
             Store(t, s, b, v)
      PROVE  DataInv'
  <2>1. /\ t \in running /\ \E i \in DOMAIN undo[t] : Covers(undo[t][i], s, b)
        /\ mem' = [mem EXCEPT ![s][b] = v] /\ UNCHANGED transactions
    BY <1>6 DEF Store
  <2>2. UndoIsCommitted'
    BY <1>1, <2>1 DEF DataInv, UndoIsCommitted, Covers, transactions
  <2>3. CleanImage'
    BY <1>1, <2>1 DEF DataInv, CleanImage, Covers, TypeOK, transactions
  <2> QED
    BY <1>2, <2>2, <2>3 DEF DataInv
<1> QED
    BY <1>3, <1>4, <1>5, <1>6

\* The records that the commit of t writes in all.
Records(t) == [i \in 1..Len(undo[t]) |-> Record(undo[t][i])]

\* A record that is still on its way is not part of Log: a flush leaves Log as
\* it is, and the close adds the records of the transaction in one step.
LEMMA FlushLog ==
    ASSUME TypedCalls, NEW t \in Tids, CommitFlush(t)
    PROVE  Log' = Log
<1>1. /\ redo \in Seq(Entries) /\ flushed \in Nat /\ flushed <= Len(redo)
      /\ (pc = "idle" /\ flushed = 0) \/ pc = "commit"
    BY DEF CommitFlush, TypedCalls, Calls, TypeOK, Logs
<1>2. /\ redo' = Append(redo, Record(undo[t][flushed + 1]))
      /\ flushed' = flushed + 1 /\ pc' = "commit"
    BY DEF CommitFlush
<1>3. Log = SubSeq(redo, 1, Len(redo) - flushed)
    BY <1>1 DEF Log
<1>4. Log' = SubSeq(redo', 1, Len(redo) - flushed)
    BY <1>1, <1>2 DEF Log
<1> QED
    BY <1>1, <1>2, <1>3, <1>4

LEMMA CloseLog ==
    ASSUME TypedCalls, NEW t \in Tids, CommitClose(t)
    PROVE  Log \in Logs /\ Records(t) \in Logs /\ Log' = Log \o Records(t)
<1> USE DEF TypedCalls
<1>0. /\ t \in running /\ undo[t] \in Seq(Entries) /\ redo \in Seq(Entries)
      /\ (pc = "idle" /\ flushed = 0) \/ (pc = "commit" /\ arg = t)
      /\ flushed \in Nat /\ flushed <= Len(redo) /\ flushed <= Len(undo[t])
      /\ \A i \in 1..flushed : redo[Len(redo) - flushed + i] = Record(undo[t][i])
      /\ redo' = redo \o Unwritten(t) /\ pc' = "idle"
    BY DEF CommitClose, Calls, TypeOK, Logs
<1> DEFINE n == Len(redo) - flushed
           old == SubSeq(redo, 1, n)
           new == Records(t)
<1>1. n \in Nat /\ old \in Seq(Entries) /\ Len(old) = n
    BY <1>0
<1>2. Log = old
    BY <1>0 DEF Log
<1>3. /\ new \in Seq(Entries) /\ Len(new) = Len(undo[t])
      /\ \A i \in 1..Len(undo[t]) : new[i] = Record(undo[t][i])
    BY <1>0, RecordIsEntry DEF TypeOK, Records
<1>4. Unwritten(t) \in Seq(Entries) /\ Len(Unwritten(t)) = Len(undo[t]) - flushed
  <2>1. Unwritten(t) \in Seq(Entries)
    BY <1>0, UnwrittenType DEF Logs
  <2>2. DOMAIN Unwritten(t) = 1..(Len(undo[t]) - flushed)
    BY DEF Unwritten
  <2>3. Len(undo[t]) - flushed \in Nat
    BY <1>0
  <2> QED
    BY <2>1, <2>2, <2>3
<1>5. Log' = redo \o Unwritten(t)
    BY <1>0 DEF Log
<1>6. Len(redo \o Unwritten(t)) = Len(old \o new)
  <2>1. Len(redo \o Unwritten(t)) = Len(redo) + Len(Unwritten(t))
    <3>1. redo \in Seq(Entries) /\ Unwritten(t) \in Seq(Entries)
      BY <1>0, <1>4
    <3> QED
      BY <3>1
  <2>2. n + Len(undo[t]) = Len(redo) + (Len(undo[t]) - flushed)
    BY <1>0
  <2> HIDE DEF old, new, n
  <2>3. Len(old \o new) = Len(old) + Len(new)
    BY <1>1, <1>3
  <2> QED
    BY <1>1, <1>3, <1>4, <2>1, <2>2, <2>3
<1>7. ASSUME NEW i \in 1..Len(old \o new)
      PROVE  (redo \o Unwritten(t))[i] = (old \o new)[i]
  <2>1. CASE i <= n
    BY <1>0, <1>1, <1>3, <1>4, <2>1
  <2>2. CASE i > n /\ i <= Len(redo)
    <3>1. i - n \in 1..flushed /\ i - n \in 1..Len(undo[t])
      BY <1>0, <1>1, <2>2
    <3>2. (redo \o Unwritten(t))[i] = redo[n + (i - n)]
      BY <1>0, <1>1, <1>4, <2>2
    <3>3. (old \o new)[i] = new[i - n]
      BY <1>0, <1>1, <1>3, <2>2, <3>1
    <3> QED
      BY <1>0, <1>3, <3>1, <3>2, <3>3
  <2>3. CASE i > Len(redo)
    <3>1. i - Len(redo) \in 1..(Len(undo[t]) - flushed) /\ i - n \in 1..Len(undo[t])
      BY <1>0, <1>1, <1>3, <2>3
    <3>2. (redo \o Unwritten(t))[i] = Unwritten(t)[i - Len(redo)]
      BY <1>0, <1>4, <2>3, <3>1
    <3>3. (old \o new)[i] = new[i - n]
      BY <1>0, <1>1, <1>3, <2>3, <3>1
    <3>4. flushed + (i - Len(redo)) = i - n
      BY <1>0
    <3> QED
      BY <1>3, <3>1, <3>2, <3>3, <3>4 DEF Unwritten
  <2>4. i \in Nat /\ Len(redo) \in Nat
    BY <1>0, <1>1, <1>3
  <2>5. i <= n \/ (i > n /\ i <= Len(redo)) \/ i > Len(redo)
    BY <1>0, <2>4
  <2> HIDE DEF old, new
  <2> QED
    BY <2>1, <2>2, <2>3, <2>5, Zenon
<1>8. redo \o Unwritten(t) \in Seq(Entries) /\ old \o new \in Seq(Entries)
    BY <1>0, <1>1, <1>3, <1>4
<1> HIDE DEF old, new
<1>9. redo \o Unwritten(t) = old \o new
    BY <1>6, <1>7, <1>8
<1> QED
    BY <1>1, <1>2, <1>3, <1>5, <1>9 DEF new, Logs

\* So what the log yields for a block becomes what the commit has fixed for it.
LEMMA CloseYields ==
    ASSUME TypedCalls, NEW t \in Tids, CommitClose(t),
           NEW s \in Segs, NEW b \in Blocks, NEW f, Yields(Log, f, s, b, committed[s][b])
    PROVE  Yields(Log', f, s, b, committed'[s][b])
<1> DEFINE declared == \E i \in DOMAIN undo[t] : Covers(undo[t][i], s, b)
<1>1. Log \in Logs /\ Records(t) \in Logs /\ Log' = Log \o Records(t)
    BY CloseLog
<1>2. committed'[s][b] = IF declared THEN Norm(mem[s][b]) ELSE committed[s][b]
    BY DEF CommitClose
<1>3. /\ DOMAIN Records(t) = DOMAIN undo[t]
      /\ \A i \in DOMAIN Records(t) :
            /\ Covers(Records(t)[i], s, b) <=> Covers(undo[t][i], s, b)
            /\ Covers(Records(t)[i], s, b) => Records(t)[i].data[b] = mem[s][b]
    BY DEF Records, Covers, Record, Copy, TypedCalls, TypeOK, Logs
<1> QED
    BY <1>1, <1>2, <1>3, YieldsAppend

LEMMA CommitData ==
    ASSUME Bookkeeping, DataInv, NEW t \in Tids, CommitFlush(t) \/ CommitClose(t)
    PROVE  DataInv'
<1> USE DEF Bookkeeping, TypedCalls
<1>1. CASE CommitFlush(t)
  <2>1. /\ pc # "scan" /\ pc' # "scan" /\ UNCHANGED <<file, committed>>
    BY <1>1 DEF CommitFlush
  <2>2. Recoverable'
    BY <1>1, <2>1, FlushLog, RecoverableSame DEF DataInv
  <2> QED
    BY <1>1, <2>2, ImageUnchanged DEF DataInv, CommitFlush
<1>2. CASE CommitClose(t)
  <2> DEFINE declared(s, b) == \E i \in DOMAIN undo[t] : Covers(undo[t][i], s, b)
  <2>1. /\ pc' = "idle" /\ t \in running /\ UNCHANGED <<file, table, mem>>
        /\ running' = running \ {t} /\ undo' = [undo EXCEPT ![t] = <<>>]
        /\ committed' = [s \in Segs |-> [b \in Blocks |->
              IF declared(s, b) THEN Norm(mem[s][b]) ELSE committed[s][b]]]
    BY <1>2 DEF CommitClose
  <2>2. pc # "scan"
    BY <1>2 DEF CommitClose
  <2>3. Recoverable'
    <3>1. ASSUME NEW s \in Segs, NEW b \in Blocks
          PROVE  Yields(Log', file[s], s, b, committed'[s][b])
      <4>1. Yields(Log, file[s], s, b, committed[s][b])
        BY <2>2 DEF DataInv, Recoverable
      <4> QED
        BY <1>2, <4>1, CloseYields
    <3> QED
      BY <2>1, <3>1, RecoverableNext
  <2>4. ASSUME NEW s \in Segs, NEW b \in Blocks, NEW r \in running',
               NEW i \in DOMAIN undo'[r], Covers(undo'[r][i], s, b)
        PROVE  ~declared(s, b) /\ undo'[r] = undo[r]
    BY <2>1, <2>4 DEF Held, Covers, TypeOK
  <2>5. UndoIsCommitted'
    <3>1. ASSUME NEW s \in Segs, NEW b \in Blocks, NEW r \in running',
                 NEW i \in DOMAIN undo'[r], Covers(undo'[r][i], s, b),
                 \A j \in 1..(i - 1) : ~Covers(undo'[r][j], s, b)
          PROVE  Norm(undo'[r][i].data[b]) = committed'[s][b]
      <4>1. /\ r \in running /\ undo'[r] = undo[r]
            /\ committed'[s][b] = committed[s][b]
        BY <2>1, <2>4, <3>1
      <4> QED
        BY <3>1, <4>1 DEF DataInv, UndoIsCommitted
    <3> QED
      BY <3>1 DEF UndoIsCommitted, Covers, Norm
  <2>6. CleanImage'
    BY <2>1 DEF DataInv, CleanImage, Covers, Norm, TypeOK
  <2> QED
    BY <2>3, <2>5, <2>6 DEF DataInv
<1> QED
    BY <1>1, <1>2

\* An abort brings every declared block back to what its first entry saved.
LEMMA AbortData ==
    ASSUME Bookkeeping, DataInv, NEW t \in Tids, AbortTrans(t)
    PROVE  DataInv'
<1> USE DEF Bookkeeping, TypedCalls
<1> DEFINE declared(s, b) == \E i \in DOMAIN undo[t] : Covers(undo[t][i], s, b)
<1>1. /\ t \in running /\ UNCHANGED <<disk, table, progress, committed>>
      /\ running' = running \ {t} /\ undo' = [undo EXCEPT ![t] = <<>>]
      /\ \A r \in running' : undo'[r] = undo[r]
      /\ mem' = [s \in Segs |-> [b \in Blocks |->
            IF declared(s, b) THEN undo[t][FirstCover(t, s, b)].data[b]
                              ELSE mem[s][b]]]
    BY DEF AbortTrans, TypeOK
<1>2. Recoverable'
    BY <1>1, RecoverableSame DEF DataInv, Log, disk, progress
<1>3. UndoIsCommitted'
  <2>1. ASSUME NEW s \in Segs, NEW b \in Blocks, NEW r \in running',
               NEW i \in DOMAIN undo'[r], Covers(undo'[r][i], s, b),
               \A j \in 1..(i - 1) : ~Covers(undo'[r][j], s, b)
        PROVE  Norm(undo'[r][i].data[b]) = committed'[s][b]
    <3>1. r \in running /\ undo'[r] = undo[r] /\ committed' = committed
      BY <1>1, <2>1
    <3> QED
      BY <2>1, <3>1 DEF DataInv, UndoIsCommitted
  <2> QED
    BY <2>1 DEF UndoIsCommitted, Covers, Norm
<1>4. ASSUME NEW s \in Segs, NEW b \in Blocks, declared(s, b)
      PROVE  Norm(mem'[s][b]) = committed[s][b]
  <2>1. /\ FirstCover(t, s, b) \in DOMAIN undo[t]
        /\ Covers(undo[t][FirstCover(t, s, b)], s, b)
        /\ \A j \in 1..(FirstCover(t, s, b) - 1) : ~Covers(undo[t][j], s, b)
    BY <1>4, FirstCoverExists DEF TypeOK
  <2>2. mem'[s][b] = undo[t][FirstCover(t, s, b)].data[b]
    BY <1>1, <1>4
  <2> QED
    BY <1>1, <2>1, <2>2 DEF DataInv, UndoIsCommitted
<1>5. \A s \in Segs, b \in Blocks : ~declared(s, b) => mem'[s][b] = mem[s][b]
    BY <1>1
<1>6. CleanImage'
    BY <1>1, <1>4, <1>5 DEF DataInv, CleanImage, Covers, Norm
<1> QED
    BY <1>2, <1>3, <1>6 DEF DataInv

\* A crash where CrashAllowed permits it takes nothing from the log.
LEMMA CrashData ==
    ASSUME Bookkeeping, DataInv, Crash, CrashWindows = {}
    PROVE  DataInv'
<1> USE DEF Bookkeeping, TypedCalls
<1>1. /\ pc' = "idle" /\ running' = {} /\ UNCHANGED <<disk, committed>>
      /\ table' = [s \in Segs |-> "none"]
      /\ pc \in {"idle", "remove"} \/ (pc = "truncate" /\ pending = <<>>)
    BY DEF Crash, CrashAllowed
<1>2. Log' = Log /\ pc # "scan"
    BY <1>1 DEF Log, Calls, disk
<1>3. Recoverable'
    BY <1>1, <1>2, RecoverableSame DEF DataInv, disk
<1>4. UndoIsCommitted' /\ CleanImage'
    BY <1>1 DEF UndoIsCommitted, CleanImage
<1> QED
    BY <1>3, <1>4 DEF DataInv

LEMMA DataStep ==
    ASSUME Bookkeeping, DataInv, [Next]_vars, CrashWindows = {}
    PROVE  DataInv'
<1>1. CASE UNCHANGED vars
  <2>1. Recoverable'
    BY <1>1, RecoverableSame DEF DataInv, Log, vars, disk, progress
  <2> QED
    BY <1>1, <2>1, ImageUnchanged DEF DataInv, vars
<1> QED
    BY <1>1, TruncateData, MapData, DestroyData, ModifyData, CommitData,
       AbortData, CrashData
    DEF Next

\* A process that starts on an empty directory recovers blanks.
LEMMA InitData == Init => DataInv
<1>1. ASSUME Init PROVE Recoverable
  <2>1. Log = <<>>
    BY <1>1 DEF Init, Log
  <2> QED
    BY <1>1, <2>1, DataAssumption DEF Init, Recoverable, Yields, EmptyFile, Norm
<1>2. Init => UndoIsCommitted /\ CleanImage
    BY DEF Init, UndoIsCommitted, CleanImage
<1> QED
    BY <1>1, <1>2 DEF DataInv
-----------------------------------------------------------------------------
(* The theorems *)

\* librvm keeps its promises on data: a replay of the log over the segment
\* files is the committed content, the undo lists go back to it, and memory
\* outside the declared blocks is equal to it.
THEOREM DataIsCommitted ==
    ASSUME CrashWindows = {}
    PROVE  Spec => []Atomicity /\ []Durability /\ []UndoIsCommitted /\ []CleanImage
<1>1. Init => Bookkeeping /\ DataInv
    BY InitType, InitData
    DEF Init, Bookkeeping, TypedCalls, Calls, Held, LoggedFiles, LoggedFileExists
<1>2. Bookkeeping /\ DataInv /\ [Next]_vars
        => (Bookkeeping /\ DataInv)'
    BY TypeStep, CallsStep, HeldStep, LoggedFilesStep, DataStep
    DEF Bookkeeping, TypedCalls
<1>3. Bookkeeping /\ DataInv
        => Atomicity /\ Durability /\ UndoIsCommitted /\ CleanImage
    BY DEF DataInv, Recoverable, Yields, Log, Atomicity, Durability
<1> QED
    BY <1>1, <1>2, <1>3, PTL DEF Spec
-----------------------------------------------------------------------------
(* What is left when a crash cuts a truncation or a destroy *)

\* A replay of the log over the committed content gives it again.  Nothing is
\* said of the records of a truncation: redo.txt is empty until it has ended.
Replayable ==
    \A s \in Segs, b \in Blocks :
        \/ pc = "truncate"
        \/ pc = "scan" /\ s = arg
        \/ Yields(Log, committed[s], s, b, committed[s][b])

LEMMA ReplayableNext ==
    ASSUME \A s \in Segs, b \in Blocks :
              \/ pc' = "truncate"
              \/ pc' = "scan" /\ s = arg'
              \/ Yields(Log', committed'[s], s, b, committed'[s][b])
    PROVE  Replayable'
BY DEF Replayable, Yields, LastCover, Covers, Norm

\* An empty log changes nothing.
LEMMA ReplayableEmpty == ASSUME TypeOK', Log' = <<>> PROVE Replayable'
<1>1. \A s \in Segs, b \in Blocks : Norm(committed'[s][b]) = committed'[s][b]
    BY DEF TypeOK, Norm
<1> QED
    BY <1>1, ReplayableNext DEF Yields

\* What the log yields over the old content it yields over the new one, where
\* a record covers the block; where none does, both give themselves.
LEMMA YieldsCommitted ==
    ASSUME TypeOK', NEW log, NEW s \in Segs, NEW b \in Blocks, NEW f,
           Yields(log, f, s, b, committed'[s][b])
    PROVE  Yields(log, committed'[s], s, b, committed'[s][b])
<1>1. Norm(committed'[s][b]) = committed'[s][b]
    BY DEF TypeOK, Norm
<1> QED
    BY <1>1 DEF Yields

LEMMA ReplayableStep ==
    ASSUME Bookkeeping, TypeOK', Replayable, [Next]_vars, "commit" \notin CrashWindows
    PROVE  Replayable'
<1> USE DEF Bookkeeping, TypedCalls
<1>1. ASSUME pc # "truncate", Log' = Log, committed' = committed,
             pc' # "scan" \/ arg' = arg, pc = "scan" => pc' = "scan"
      PROVE  Replayable'
    BY <1>1, ReplayableNext DEF Replayable
<1>2. CASE UNCHANGED vars
    BY <1>2, ReplayableNext DEF Replayable, Log, vars, disk, progress
<1>3. CASE pc' = "truncate"
    BY <1>3, ReplayableNext
<1>4. CASE TruncateReturn \/ MapReturn
  <2>1. Log' = <<>>
    BY <1>4 DEF TruncateReturn, MapReturn, Calls, Log, disk
  <2> QED
    BY <2>1, ReplayableEmpty
<1>5. ASSUME NEW s \in Segs, Unmap(s) PROVE Replayable'
    BY <1>1, <1>5 DEF Unmap, Log, disk, progress
<1>6. ASSUME NEW s \in Segs, DestroyStart(s) PROVE Replayable'
  <2>1. /\ pc = "idle" /\ pc' = "scan" /\ arg' = s /\ committed' = committed
        /\ kept' = <<>> /\ pending' = redo /\ redo \in Seq(Entries)
    BY <1>6 DEF DestroyStart, Calls, TypeOK, Logs
  <2>2. Log' = redo /\ Log = redo
    BY <2>1 DEF Log
  <2> QED
    BY <2>1, <2>2, ReplayableNext DEF Replayable
<1>7. CASE DestroyScan
  <2>1. /\ pc = "scan" /\ pc' = "scan" /\ arg' = arg
        /\ committed' = committed /\ pending \in Logs /\ pending # <<>>
        /\ kept \in Logs /\ pending' = Tail(pending)
        /\ kept' = IF Head(pending).seg = arg THEN kept ELSE Append(kept, Head(pending))
    BY <1>7 DEF DestroyScan, TypeOK
  <2>2. ASSUME NEW s \in Segs, NEW b \in Blocks, s # arg
        PROVE  Yields(kept' \o pending', committed[s], s, b, committed[s][b])
    <3>1. Yields(kept \o pending, committed[s], s, b, committed[s][b])
      BY <2>1, <2>2 DEF Replayable, Log
    <3>2. CASE Head(pending).seg = arg
      BY <2>1, <2>2, <3>1, <3>2, YieldsDrop
    <3>3. CASE Head(pending).seg # arg
      <4>1. kept' \o pending' = kept \o pending
        BY <2>1, <3>3 DEF Logs
      <4> QED
        BY <3>1, <4>1
    <3> QED
      BY <3>2, <3>3
  <2> QED
    BY <2>1, <2>2, ReplayableNext DEF Log
<1>8. CASE DestroyRewrite \/ DestroyRemove
  <2>1. /\ arg \in Segs /\ Log' = Log
        /\ \A i \in DOMAIN Log' : Log'[i].seg # arg
        /\ pc # "truncate" /\ pc' \notin {"truncate", "scan"}
        /\ \A s \in Segs \ {arg} : committed'[s] = committed[s]
    <3>1. CASE DestroyRewrite
      BY <3>1 DEF DestroyRewrite, Calls, LoggedFiles, Log, TypeOK, Logs
    <3>2. CASE DestroyRemove
      BY <3>2 DEF DestroyRemove, Calls, LoggedFiles, Log, TypeOK
    <3> QED
      BY <1>8, <3>1, <3>2
  <2>2. ASSUME NEW s \in Segs, NEW b \in Blocks
        PROVE  Yields(Log', committed'[s], s, b, committed'[s][b])
    <3>1. CASE s = arg
      <4>1. Norm(committed'[s][b]) = committed'[s][b]
        BY DEF TypeOK, Norm
      <4> QED
        BY <2>1, <3>1, <4>1 DEF Yields, LastCover, Covers
    <3>2. CASE s # arg
      BY <2>1, <3>2 DEF Replayable
    <3> QED
      BY <3>1, <3>2
  <2> QED
    BY <2>2, ReplayableNext
<1>9. ASSUME \/ \E S \in SUBSET Segs \ {{}} : BeginTrans(S) \/ BeginRefused(S)
             \/ \E t \in Tids, u \in Uses : AboutToModify(t, u[1], u[2])
             \/ \E t \in Tids, s \in Segs, b \in Blocks, v \in Vals : Store(t, s, b, v)
             \/ \E t \in Tids : AbortTrans(t)
      PROVE  Replayable'
  <2>1. pc = "idle" /\ UNCHANGED <<disk, progress, committed>>
    BY <1>9 DEF BeginTrans, BeginRefused, AboutToModify, Store, AbortTrans
  <2> QED
    BY <1>1, <2>1 DEF Log, disk, progress
<1>10. ASSUME NEW t \in Tids, CommitFlush(t) PROVE Replayable'
    BY <1>1, <1>10, FlushLog DEF CommitFlush
<1>11. ASSUME NEW t \in Tids, CommitClose(t) PROVE Replayable'
  <2>1. pc \in {"idle", "commit"}
    BY <1>11 DEF CommitClose
  <2>2. ASSUME NEW s \in Segs, NEW b \in Blocks
        PROVE  Yields(Log', committed'[s], s, b, committed'[s][b])
    <3>1. Yields(Log, committed[s], s, b, committed[s][b])
      BY <2>1 DEF Replayable
    <3>2. Yields(Log', committed[s], s, b, committed'[s][b])
      BY <1>11, <3>1, CloseYields
    <3> QED
      BY <3>2, YieldsCommitted
  <2> QED
    BY <2>2, ReplayableNext
<1>12. CASE Crash
  <2>1. pc' = "idle" /\ UNCHANGED <<disk, committed>> /\ pc # "commit"
    BY <1>12 DEF Crash, CrashAllowed
  <2>2. CASE pc \in {"truncate", "scan"}
    BY <2>1, <2>2, ReplayableEmpty DEF Calls, Log, disk
  <2>3. CASE pc \notin {"truncate", "scan"}
    BY <1>1, <2>1, <2>3 DEF Log, disk
  <2> QED
    BY <2>2, <2>3
<1>13. ASSUME (\E a \in Segs \cup {None} : TruncateStart(a)) \/ TruncateApply
       PROVE  pc' = "truncate"
    BY <1>13 DEF TruncateStart, TruncateApply
<1> QED
    BY <1>2, <1>3, <1>4, <1>5, <1>6, <1>7, <1>8, <1>9, <1>10, <1>11, <1>12, <1>13
    DEF Next

\* A crash that cuts a truncation or a destroy loses what was committed, but
\* it never makes redo.txt hold anything else: after any number of such
\* crashes a replay yields only bytes that a completed commit wrote last.
THEOREM ReplaysAreCommitted ==
    ASSUME "commit" \notin CrashWindows
    PROVE  Spec => []Atomicity
<1>1. Init => Bookkeeping /\ Replayable
  <2>1. Init => Bookkeeping
    BY InitType
    DEF Init, Bookkeeping, TypedCalls, Calls, Held, LoggedFiles, LoggedFileExists
  <2>2. ASSUME Init PROVE Replayable
    <3>1. Log = <<>> /\ \A s \in Segs, b \in Blocks : committed[s][b] = Blank
      BY <2>2 DEF Init, Log
    <3> QED
      BY <3>1, DataAssumption DEF Replayable, Yields, Norm
  <2> QED
    BY <2>1, <2>2
<1>2. Bookkeeping /\ Replayable /\ [Next]_vars => (Bookkeeping /\ Replayable)'
    BY TypeStep, CallsStep, HeldStep, LoggedFilesStep, ReplayableStep
    DEF Bookkeeping, TypedCalls
<1>3. Bookkeeping /\ Replayable => Atomicity
    BY DEF Replayable, Yields, Log, Atomicity
<1> QED
    BY <1>1, <1>2, <1>3, PTL DEF Spec
-----------------------------------------------------------------------------
(***************************************************************************)
(* Part 3: the recoverable memory that the caller sees                     *)
(***************************************************************************)
(* The tid of a segment *)

\* A tid is that of a transaction begun by this process, also when an abort
\* has left it behind, and a segment that has one is in the table.
Owners ==
    \A s \in Segs : owner[s] \in 0..globalt_id /\ (owner[s] # 0 => table[s] # "none")

LEMMA OwnersStep == ASSUME TypedCalls, Owners, [Next]_vars PROVE Owners'
<1> USE DEF TypedCalls
<1>0. globalt_id \in Nat
    BY SizeAssumption DEF TypeOK, Tids
<1>1. CASE UNCHANGED <<globalt_id, table, owner>>
    BY <1>1 DEF Owners
<1>2. CASE MapReturn
  <2>1. UNCHANGED <<globalt_id, owner>>
    BY <1>2 DEF MapReturn, segments, transactions
  <2>2. \A s \in Segs : table[s] # "none" => table'[s] # "none"
    BY <1>2 DEF MapReturn, TypeOK, segments
  <2> QED
    BY <2>1, <2>2 DEF Owners
<1>3. ASSUME NEW s \in Segs, Unmap(s) PROVE Owners'
    BY <1>3 DEF Unmap, Owners, TypeOK, transactions
<1>4. ASSUME NEW s \in Segs, DestroyStart(s) PROVE Owners'
    BY <1>0, <1>4 DEF DestroyStart, Owners, TypeOK, transactions
<1>5. ASSUME NEW S \in SUBSET Segs, BeginTrans(S) PROVE Owners'
  <2>1. /\ globalt_id' = globalt_id + 1 /\ table' = table
        /\ \A s \in Segs : owner'[s] = IF s \in S THEN globalt_id + 1 ELSE owner[s]
        /\ \A s \in S : table[s] = "mapped"
    BY <1>5 DEF BeginTrans, AllFree
  <2>2. 0..globalt_id \subseteq 0..(globalt_id + 1) /\ globalt_id + 1 \in 0..(globalt_id + 1)
    BY <1>0
  <2> QED
    BY <2>1, <2>2 DEF Owners
<1>6. ASSUME NEW S \in SUBSET Segs, BeginRefused(S) PROVE Owners'
  <2>1. globalt_id' = globalt_id + 1 /\ UNCHANGED <<table, owner>>
    BY <1>6 DEF BeginRefused, segments
  <2>2. 0..globalt_id \subseteq 0..(globalt_id + 1)
    BY <1>0
  <2> QED
    BY <2>1, <2>2 DEF Owners
<1>7. ASSUME NEW t \in Tids, CommitClose(t) PROVE Owners'
    BY <1>0, <1>7 DEF CommitClose, Freed, Owners, TypeOK
<1>8. ASSUME NEW t \in Tids, AbortTrans(t) PROVE Owners'
    BY <1>0, <1>8 DEF AbortTrans, Owners, TypeOK
<1>9. CASE Crash
    BY <1>9 DEF Crash, Owners
<1>10. UNCHANGED vars => UNCHANGED <<globalt_id, table, owner>>
    BY DEF vars, segments, transactions
<1>11. ASSUME \/ \E a \in Segs \cup {None} : TruncateStart(a)
              \/ TruncateApply \/ TruncateReturn
              \/ DestroyScan \/ DestroyRewrite \/ DestroyRemove
              \/ \E t \in Tids, u \in Uses : AboutToModify(t, u[1], u[2])
              \/ \E t \in Tids, s \in Segs, b \in Blocks, v \in Vals : Store(t, s, b, v)
              \/ \E t \in Tids : CommitFlush(t)
       PROVE  UNCHANGED <<globalt_id, table, owner>>
    BY <1>11 DEF TruncateStart, TruncateApply, TruncateReturn, DestroyScan,
                 DestroyRewrite, DestroyRemove, AboutToModify, Store, CommitFlush,
                 segments, transactions
<1> QED
    BY <1>1, <1>2, <1>3, <1>4, <1>5, <1>6, <1>7, <1>8, <1>9, <1>10, <1>11 DEF Next
-----------------------------------------------------------------------------
(* Each step is a step of the promise, or a stutter *)

\* All that has been established about a state.
Known == Bookkeeping /\ DataInv /\ Owners

\* A segment in memory has an image, and it is a function.
LEMMA ImageIs ==
    ASSUME TypeOK, NEW s \in Segs
    PROVE  /\ table[s] = "none" => Image[s] = None
           /\ table[s] # "none" => Image[s] = NormAll(mem[s]) /\ Image[s] # None
BY NoneAssumption DEF TypeOK, Image, NormAll, Norm

\* Outside the declared blocks of running transactions, the image of a
\* segment is its committed content.
LEMMA CleanSegment ==
    ASSUME Known, NEW s \in Segs, table[s] # "none",
           \A t \in running : \A i \in DOMAIN undo[t] : undo[t][i].seg # s
    PROVE  NormAll(mem[s]) = committed[s]
<1>1. \A b \in Blocks : Norm(mem[s][b]) = committed[s][b]
    BY DEF Known, DataInv, CleanImage, Covers
<1> QED
    BY <1>1 DEF Known, Bookkeeping, TypedCalls, TypeOK, NormAll

LEMMA StutterStep ==
    ASSUME UNCHANGED <<segments, running, committed>>,
           Doomed' = Doomed
    PROVE  UNCHANGED <<committed, Image, LiveOwner, Doomed>>
BY DEF Image, LiveOwner, NormAll, Norm, segments

\* Truncation, refused calls, declarations and partial commits are invisible.
LEMMA InvisibleSteps ==
    ASSUME Known,
           \/ UNCHANGED vars
           \/ \E a \in Segs \cup {None} : TruncateStart(a)
           \/ TruncateApply \/ TruncateReturn
           \/ MapReturn /\ table[arg] = "mapped"
           \/ DestroyScan
           \/ \E S \in SUBSET Segs \ {{}} : BeginRefused(S)
           \/ \E t \in Tids, u \in Uses : AboutToModify(t, u[1], u[2])
           \/ \E t \in Tids : CommitFlush(t)
    PROVE  UNCHANGED <<committed, Image, LiveOwner, Doomed>>
<1>1. UNCHANGED <<segments, running, committed>>
    BY DEF TruncateStart, TruncateApply, TruncateReturn, MapReturn, DestroyScan,
           BeginRefused, AboutToModify, CommitFlush, vars, transactions
<1>2. Doomed' = Doomed
    BY DEF TruncateStart, TruncateApply, TruncateReturn, MapReturn, DestroyScan,
           BeginRefused, AboutToModify, CommitFlush, vars, progress, Doomed
<1> QED
    BY <1>1, <1>2, StutterStep

\* What rvm_map reads back is the committed content.
LEMMA MapStep ==
    ASSUME Known, MapReturn, table[arg] # "mapped"
    PROVE  Promise!Map(arg)
<1> USE DEF Known, Bookkeeping, TypedCalls
<1>1. /\ pc = "truncate" /\ pc' = "idle" /\ arg \in Segs /\ pending = <<>>
      /\ table' = [table EXCEPT ![arg] = "mapped"]
      /\ mem' = [mem EXCEPT ![arg] = ReadIn(file[arg])]
      /\ UNCHANGED <<owner, running, committed>>
    BY DEF MapReturn, transactions
<1>2. NormAll(ReadIn(file[arg])) = committed[arg]
  <2>1. \A b \in Blocks : Norm(file[arg][b]) = committed[arg][b]
    BY <1>1 DEF DataInv, Recoverable, Log, Yields
  <2>2. \A b \in Blocks : Norm(ReadIn(file[arg])[b]) = Norm(file[arg][b])
    BY DataAssumption DEF ReadIn, Norm
  <2>3. \A b \in Blocks : Norm(ReadIn(file[arg])[b]) = committed[arg][b]
    BY <2>1, <2>2
  <2> QED
    BY <1>1, <2>3 DEF NormAll, TypeOK
<1>3. Image' = [Image EXCEPT ![arg] = committed[arg]]
  <2>1. \A s \in Segs : Image'[s] = IF s = arg THEN committed[arg] ELSE Image[s]
    BY <1>1, <1>2 DEF Image, TypeOK, NormAll, Norm
  <2> QED
    BY <1>1, <2>1 DEF Image
<1>4. LiveOwner' = LiveOwner /\ Doomed' = Doomed
    BY <1>1 DEF LiveOwner, Doomed
<1> QED
    BY <1>1, <1>3, <1>4 DEF Promise!Map

\* rvm_unmap keeps the entry, so the image is still there.
LEMMA UnmapStep ==
    ASSUME Known, NEW s \in Segs, Unmap(s)
    PROVE  UNCHANGED <<committed, Image, LiveOwner, Doomed>>
<1>1. /\ UNCHANGED <<committed, mem, owner, running, pc, arg>>
      /\ \A r \in Segs : table'[r] = "none" <=> table[r] = "none"
    BY DEF Unmap, Known, Bookkeeping, TypedCalls, TypeOK, transactions, progress
<1> QED
    BY <1>1 DEF Image, LiveOwner, Doomed, NormAll, Norm

LEMMA DestroyStep ==
    ASSUME Known
    PROVE  /\ \A s \in Segs : DestroyStart(s) => Promise!DestroyBegin(s)
           /\ DestroyRewrite => Promise!DestroyPart(arg, NormAll(file[arg]))
           /\ DestroyRemove => Promise!DestroyEnd(arg)
<1> USE DEF Known, Bookkeeping, TypedCalls
<1>1. ASSUME NEW s \in Segs, DestroyStart(s) PROVE Promise!DestroyBegin(s)
  <2>1. /\ table[s] = "unmapped" /\ table' = [table EXCEPT ![s] = "none"]
        /\ \A r \in Segs \ {s} : mem'[r] = mem[r]
        /\ owner' = [owner EXCEPT ![s] = 0]
        /\ pc' = "scan" /\ arg' = s
        /\ UNCHANGED <<running, committed>>
    BY <1>1 DEF DestroyStart, TypeOK, transactions
  <2>2. Image[s] # None
    BY <2>1, ImageIs
  <2>3. Image' = [Image EXCEPT ![s] = None]
    <3>1. \A r \in Segs : Image'[r] = IF r = s THEN None ELSE Image[r]
      BY <2>1 DEF Image, TypeOK, NormAll, Norm
    <3> QED
      BY <3>1 DEF Image
  <2>4. LiveOwner' = [LiveOwner EXCEPT ![s] = 0]
    BY <2>1 DEF LiveOwner, TypeOK
  <2>5. Doomed' = {s}
    BY <2>1 DEF Doomed
  <2> QED
    BY <2>1, <2>2, <2>3, <2>4, <2>5 DEF Promise!DestroyBegin
<1>2. ASSUME DestroyRewrite \/ DestroyRemove
      PROVE  Image' = Image /\ LiveOwner' = LiveOwner
    BY <1>2 DEF DestroyRewrite, DestroyRemove, Image, LiveOwner, NormAll, Norm,
                segments, transactions
<1>3. ASSUME DestroyRewrite PROVE Promise!DestroyPart(arg, NormAll(file[arg]))
  <2>1. Doomed = {arg} /\ Doomed' = {arg}
    BY <1>3 DEF DestroyRewrite, Doomed
  <2> QED
    BY <1>2, <1>3, <2>1 DEF DestroyRewrite, Promise!DestroyPart
<1>4. ASSUME DestroyRemove PROVE Promise!DestroyEnd(arg)
  <2>1. Doomed = {arg} /\ Doomed' = {}
    BY <1>4 DEF DestroyRemove, Doomed
  <2> QED
    BY <1>2, <1>4, <2>1 DEF DestroyRemove, Promise!DestroyEnd
<1> QED
    BY <1>1, <1>3, <1>4

LEMMA BeginStep ==
    ASSUME Known, NEW S \in SUBSET Segs, BeginTrans(S)
    PROVE  Promise!Begin(globalt_id + 1, S) /\ globalt_id + 1 \in Tids
<1> USE DEF Known, Bookkeeping, TypedCalls
<1> DEFINE t == globalt_id + 1
<1>1. /\ \A s \in S : table[s] = "mapped" /\ owner[s] = 0
      /\ owner' = [s \in Segs |-> IF s \in S THEN t ELSE owner[s]]
      /\ running' = running \cup {t}
      /\ UNCHANGED <<table, mem, pc, arg, committed>>
    BY DEF BeginTrans, AllFree, progress
<1>2. t \in Tids /\ t # 0 /\ 0 \notin running
    BY SizeAssumption DEF BeginTrans, TypeOK, Tids
<1>3. /\ t \notin running
      /\ \A s \in Segs : owner[s] # t
    BY <1>2, SizeAssumption DEF BeginTrans, Held, Owners, TypeOK, Tids
<1> HIDE DEF t
<1>4. {s \in Segs : LiveOwner[s] = t} = {}
    BY <1>2, <1>3 DEF LiveOwner
<1>5. \A s \in S : Image[s] # None /\ LiveOwner[s] = 0
    BY <1>1, <1>2, ImageIs DEF LiveOwner
<1>6. LiveOwner' = [s \in Segs |-> IF s \in S THEN t ELSE LiveOwner[s]]
    BY <1>1, <1>3 DEF LiveOwner
<1>7. Image' = Image /\ Doomed' = Doomed
    BY <1>1 DEF Image, Doomed, NormAll, Norm
<1>8. Promise!Begin(t, S)
    BY <1>1, <1>4, <1>5, <1>6, <1>7 DEF Promise!Begin, Promise!Owned
<1> QED
    BY <1>2, <1>8 DEF t

LEMMA StoreStep ==
    ASSUME Known, NEW t \in Tids, NEW s \in Segs, NEW b \in Blocks, NEW v \in Vals,
           Store(t, s, b, v)
    PROVE  Promise!Store(s, b, v)
<1> USE DEF Known, Bookkeeping, TypedCalls
<1>1. /\ t \in running /\ table[s] = "mapped"
      /\ \E i \in DOMAIN undo[t] : Covers(undo[t][i], s, b)
      /\ mem' = [mem EXCEPT ![s][b] = v]
      /\ UNCHANGED <<table, owner, running, pc, arg, committed>>
    BY DEF Store, transactions, progress
<1>2. owner[s] = t /\ t # 0
    BY <1>1 DEF Held, Covers, Tids
<1>3. LiveOwner[s] # 0
    BY <1>1, <1>2 DEF LiveOwner
<1>4. Image[s] = NormAll(mem[s]) /\ Image[s] # None
    BY <1>1, ImageIs
<1>5. NormAll(mem'[s]) = [NormAll(mem[s]) EXCEPT ![b] = v]
    BY <1>1 DEF NormAll, Norm, TypeOK
<1>6. Image' = [Image EXCEPT ![s][b] = v]
  <2>1. Image'[s] = [Image[s] EXCEPT ![b] = v]
    BY <1>1, <1>4, <1>5 DEF Image, NormAll, Norm
  <2>2. \A r \in Segs \ {s} : Image'[r] = Image[r]
    BY <1>1 DEF Image, NormAll, Norm, TypeOK
  <2> QED
    BY <2>1, <2>2 DEF Image
<1>7. LiveOwner' = LiveOwner /\ Doomed' = Doomed
    BY <1>1 DEF LiveOwner, Doomed
<1> QED
    BY <1>1, <1>3, <1>4, <1>6, <1>7 DEF Promise!Store

\* A running transaction owns, in the promise, the segments that carry its tid.
LEMMA OwnedIs ==
    ASSUME Known, NEW t \in running
    PROVE  Promise!Owned(t) = {s \in Segs : owner[s] = t}
<1>1. t # 0 /\ 0 \notin running
    BY SizeAssumption DEF Known, Bookkeeping, TypedCalls, TypeOK, Tids
<1> QED
    BY <1>1 DEF Promise!Owned, LiveOwner

\* A commit fixes what memory holds: the declared blocks because it logs them,
\* the others because they are clean.
LEMMA CommitStep ==
    ASSUME Known, NEW t \in Tids, CommitClose(t)
    PROVE  Promise!Commit(t) \/ UNCHANGED <<committed, Image, LiveOwner, Doomed>>
<1> USE DEF Known, Bookkeeping, TypedCalls
<1> DEFINE mine == {s \in Segs : owner[s] = t}
           declared(s, b) == \E i \in DOMAIN undo[t] : Covers(undo[t][i], s, b)
<1>1. /\ t \in running /\ t # 0 /\ 0 \notin running
      /\ pc \in {"idle", "commit"} /\ pc' = "idle"
      /\ UNCHANGED <<table, mem>>
      /\ owner' = [s \in Segs |-> IF owner[s] = t THEN 0 ELSE owner[s]]
      /\ running' = running \ {t}
      /\ committed' = [s \in Segs |-> [b \in Blocks |->
            IF declared(s, b) THEN Norm(mem[s][b]) ELSE committed[s][b]]]
    BY SizeAssumption DEF CommitClose, Freed, TypeOK, Tids
<1>2. Promise!Owned(t) = mine
    BY <1>1, OwnedIs
<1>3. ASSUME NEW s \in Segs, s \notin mine PROVE committed'[s] = committed[s]
  <2>1. \A b \in Blocks : ~declared(s, b)
    BY <1>1, <1>3 DEF Held, Covers
  <2>2. committed'[s] = [b \in Blocks |-> committed[s][b]]
    BY <1>1, <2>1
  <2> QED
    BY <2>2 DEF TypeOK
<1>4. ASSUME NEW s \in mine PROVE committed'[s] = Image[s]
  <2>1. table[s] # "none"
    BY <1>1, <1>4 DEF Owners
  <2>2. ASSUME NEW b \in Blocks, ~declared(s, b)
        PROVE  committed[s][b] = Norm(mem[s][b])
    BY <1>1, <1>4, <2>1, <2>2 DEF DataInv, CleanImage, Held, Covers
  <2>3. committed'[s] = [b \in Blocks |->
            IF declared(s, b) THEN Norm(mem[s][b]) ELSE committed[s][b]]
    BY <1>1, <1>4
  <2>4. \A b \in Blocks : committed'[s][b] = Norm(mem[s][b])
    BY <2>2, <2>3
  <2>5. committed'[s] = NormAll(mem[s])
    BY <2>3, <2>4 DEF NormAll
  <2> QED
    BY <1>4, <2>1, <2>5, ImageIs
<1>5. Image' = Image /\ Doomed' = Doomed
    BY <1>1 DEF Image, Doomed, NormAll, Norm
<1>6. LiveOwner' = [s \in Segs |-> IF s \in mine THEN 0 ELSE LiveOwner[s]]
    BY <1>1 DEF LiveOwner
<1>7. committed' = [s \in Segs |-> IF s \in mine THEN Image[s] ELSE committed[s]]
  <2>1. \A s \in Segs :
            committed'[s] = IF s \in mine THEN Image[s] ELSE committed[s]
    BY <1>3, <1>4
  <2>2. DOMAIN committed' = Segs /\ committed' = [s \in DOMAIN committed' |-> committed'[s]]
    BY <1>1
  <2> QED
    BY <2>1, <2>2
<1>8. CASE mine = {}
  <2>1. committed' = committed
    BY <1>7, <1>8 DEF TypeOK
  <2>2. LiveOwner' = LiveOwner
    BY <1>6, <1>8 DEF LiveOwner
  <2> QED
    BY <1>5, <2>1, <2>2
<1>9. CASE mine # {}
  <2> HIDE DEF mine
  <2> QED
    BY <1>2, <1>5, <1>6, <1>7, <1>9 DEF Promise!Commit
<1> QED
    BY <1>8, <1>9

\* An abort goes back to the committed content of all the transaction owned.
LEMMA AbortStep ==
    ASSUME Known, NEW t \in Tids, AbortTrans(t)
    PROVE  Promise!Abort(t)
<1> USE DEF Known, Bookkeeping, TypedCalls
<1> DEFINE mine == {s \in Segs : owner[s] = t}
           declared(s, b) == \E i \in DOMAIN undo[t] : Covers(undo[t][i], s, b)
           logged(s) == \E i \in DOMAIN undo[t] : undo[t][i].seg = s
<1>1. /\ t \in running /\ t # 0 /\ 0 \notin running /\ undo[t] # <<>>
      /\ UNCHANGED <<table, pc, arg, committed>>
      /\ owner' = [s \in Segs |-> IF logged(s) THEN 0 ELSE owner[s]]
      /\ running' = running \ {t}
      /\ mem' = [s \in Segs |-> [b \in Blocks |->
            IF declared(s, b) THEN undo[t][FirstCover(t, s, b)].data[b]
                              ELSE mem[s][b]]]
    BY SizeAssumption DEF AbortTrans, TypeOK, Tids, progress
<1>2. Promise!Owned(t) = mine
    BY <1>1, OwnedIs
<1>3. mine # {}
  <2>1. 1 \in DOMAIN undo[t] /\ undo[t][1] \in Entries
    BY <1>1 DEF TypeOK, Logs
  <2>2. undo[t][1].seg \in Segs
    BY <2>1, EntryFields
  <2> QED
    BY <1>1, <2>1, <2>2 DEF Held
<1>4. ASSUME NEW s \in Segs, s \notin mine PROVE Image'[s] = Image[s] /\ ~logged(s)
  <2>1. ~logged(s) /\ \A b \in Blocks : ~declared(s, b)
    BY <1>1, <1>4 DEF Held, Covers
  <2>2. \A b \in Blocks : mem'[s][b] = mem[s][b]
    BY <1>1, <2>1
  <2> QED
    BY <1>1, <2>1, <2>2 DEF Image, NormAll, Norm
<1>5. ASSUME NEW s \in mine PROVE Image'[s] = committed[s]
  <2>1. table[s] # "none"
    BY <1>1, <1>5 DEF Owners
  <2>2. ASSUME NEW b \in Blocks PROVE Norm(mem'[s][b]) = committed[s][b]
    <3>1. CASE declared(s, b)
      <4>1. /\ FirstCover(t, s, b) \in DOMAIN undo[t]
            /\ Covers(undo[t][FirstCover(t, s, b)], s, b)
            /\ \A j \in 1..(FirstCover(t, s, b) - 1) : ~Covers(undo[t][j], s, b)
        BY <3>1, FirstCoverExists DEF TypeOK
      <4>2. mem'[s][b] = undo[t][FirstCover(t, s, b)].data[b]
        BY <1>1, <3>1
      <4> QED
        BY <1>1, <4>1, <4>2 DEF DataInv, UndoIsCommitted
    <3>2. CASE ~declared(s, b)
      <4>1. mem'[s][b] = mem[s][b]
        BY <1>1, <3>2
      <4>2. \A r \in running : \A i \in DOMAIN undo[r] : ~Covers(undo[r][i], s, b)
        BY <1>1, <1>5, <3>2 DEF Held, Covers
      <4> QED
        BY <2>1, <4>1, <4>2 DEF DataInv, CleanImage
    <3> QED
      BY <3>1, <3>2
  <2>3. NormAll(mem'[s]) = committed[s]
    BY <1>1, <1>5, <2>2 DEF NormAll, TypeOK
  <2> QED
    BY <1>1, <1>5, <2>1, <2>3 DEF Image, NormAll, Norm
<1>6. Image' = [s \in Segs |-> IF s \in mine THEN committed[s] ELSE Image[s]]
    BY <1>4, <1>5 DEF Image
<1>7. LiveOwner' = [s \in Segs |-> IF s \in mine THEN 0 ELSE LiveOwner[s]]
  <2>1. ASSUME NEW s \in mine PROVE LiveOwner'[s] = 0
    BY <1>1, <2>1 DEF LiveOwner
  <2>2. ASSUME NEW s \in Segs, s \notin mine PROVE LiveOwner'[s] = LiveOwner[s]
    BY <1>1, <1>4, <2>2 DEF LiveOwner
  <2> QED
    BY <2>1, <2>2 DEF LiveOwner
<1>8. Doomed' = Doomed
    BY <1>1 DEF Doomed
<1> HIDE DEF mine
<1> QED
    BY <1>1, <1>2, <1>3, <1>6, <1>7, <1>8 DEF Promise!Abort

LEMMA CrashStep == ASSUME Crash PROVE Promise!Crash
BY DEF Crash, Promise!Crash, Image, LiveOwner, Doomed

\* Every step of the library is a step of the promise or changes nothing of it.
LEMMA PromiseStep == ASSUME Known, [Next]_vars PROVE [Promise!Next]_(Promise!avars)
<1> USE DEF Known, Bookkeeping, TypedCalls
<1>1. ASSUME UNCHANGED <<committed, Image, LiveOwner, Doomed>>
      PROVE  [Promise!Next]_(Promise!avars)
    BY <1>1 DEF Promise!avars
<1>2. CASE MapReturn /\ table[arg] # "mapped"
    BY <1>2, MapStep DEF MapReturn, Promise!Next
<1>3. CASE \E s \in Segs : Unmap(s)
    BY <1>1, <1>3, UnmapStep
<1>4. CASE (\E s \in Segs : DestroyStart(s)) \/ DestroyRewrite \/ DestroyRemove
  <2>1. CASE \E s \in Segs : DestroyStart(s)
    BY <2>1, DestroyStep DEF Promise!Next
  <2>2. CASE DestroyRewrite
    <3>1. arg \in Segs /\ NormAll(file[arg]) \in [Blocks -> Vals \cup {Blank}]
      BY <2>2, ReadTypes DEF DestroyRewrite, Calls, TypeOK
    <3> QED
      BY <2>2, <3>1, DestroyStep DEF Promise!Next
  <2>3. CASE DestroyRemove
    BY <2>3, DestroyStep DEF DestroyRemove, Calls, Promise!Next
  <2> QED
    BY <1>4, <2>1, <2>2, <2>3
<1>5. ASSUME NEW S \in SUBSET Segs, BeginTrans(S)
      PROVE  [Promise!Next]_(Promise!avars)
    BY <1>5, BeginStep DEF Promise!Next
<1>6. ASSUME NEW t \in Tids, NEW s \in Segs, NEW b \in Blocks, NEW v \in Vals,
             Store(t, s, b, v)
      PROVE  [Promise!Next]_(Promise!avars)
    BY <1>6, StoreStep DEF Promise!Next
<1>7. ASSUME NEW t \in Tids, CommitClose(t) PROVE [Promise!Next]_(Promise!avars)
    BY <1>1, <1>7, CommitStep DEF Promise!Next
<1>8. ASSUME NEW t \in Tids, AbortTrans(t) PROVE [Promise!Next]_(Promise!avars)
    BY <1>8, AbortStep DEF Promise!Next
<1>9. CASE Crash
    BY <1>9, CrashStep DEF Promise!Next
<1>10. CASE \/ UNCHANGED vars
            \/ \E a \in Segs \cup {None} : TruncateStart(a)
            \/ TruncateApply \/ TruncateReturn
            \/ MapReturn /\ table[arg] = "mapped"
            \/ DestroyScan
            \/ \E S \in SUBSET Segs \ {{}} : BeginRefused(S)
            \/ \E t \in Tids, u \in Uses : AboutToModify(t, u[1], u[2])
            \/ \E t \in Tids : CommitFlush(t)
    BY <1>1, <1>10, InvisibleSteps
<1> QED
    BY <1>2, <1>3, <1>4, <1>5, <1>6, <1>7, <1>8, <1>9, <1>10 DEF Next

\* librvm implements the recoverable memory that its header promises.
THEOREM Refinement == ASSUME CrashWindows = {} PROVE Spec => Refines
<1>1. Init => Known
  <2>1. Init => Bookkeeping /\ Owners
    BY InitType DEF Init, Bookkeeping, TypedCalls, Calls, Held, LoggedFiles,
                    LoggedFileExists, Owners
  <2> QED
    BY <2>1, InitData DEF Known
<1>2. Init => Promise!Init
    BY DEF Init, Promise!Init, Image, LiveOwner, Doomed
<1>3. Known /\ [Next]_vars => Known'
    BY TypeStep, CallsStep, HeldStep, LoggedFilesStep, DataStep, OwnersStep
    DEF Known, Bookkeeping, TypedCalls
<1>4. Known /\ [Next]_vars => [Promise!Next]_(Promise!avars)
    BY PromiseStep
<1> QED
    BY <1>1, <1>2, <1>3, <1>4, PTL DEF Spec, Refines, Promise!Spec
=============================================================================
