-------------------------------- MODULE RVM --------------------------------
(***************************************************************************)
(* librvm (Recoverable_Virtual_Memory/code/rvm.cpp): one rvm object on one *)
(* directory, used by one process that may die and be started again.       *)
(*                                                                         *)
(* A segment is SegSize blocks; an (offset, size) range is the set of      *)
(* blocks it covers, and a log entry is a segment with a function from     *)
(* such a set to what the bytes were (undo) or are (redo).  The library is *)
(* single-threaded: an operation is one action unless a crash inside it    *)
(* leaves something on disk, and then it is one action per write to disk.  *)
(* A call that ends in exit(1) is the action Crash.                        *)
(***************************************************************************)
EXTENDS Integers, Sequences, FiniteSets

CONSTANTS
    Segs,           \* segment names
    SegSize,        \* blocks per segment (size_to_create, the same each time)
    Vals,           \* what a program stores
    Uses,           \* the <<segment, range>> pairs that programs declare
    Blank, Hole,    \* the ' ' of a new segment; the '\0' of a file hole
    Eof,            \* the file ends before this block
    None,           \* no argument
    MaxTid,         \* bound: transactions begun per process
    MaxUndo,        \* bound: undo entries of all running transactions
    MaxLog,         \* bound: records in redo.txt
    CrashWindows    \* the calls that a crash may cut while redo.txt is unsafe

Blocks == 1..SegSize
Tids == 1..MaxTid
Data == Vals \cup {Blank, Hole}
Ranges == SUBSET Blocks \ {{}}
Entries == [seg : Segs, data : UNION {[R -> Data] : R \in Ranges}]

ASSUME SizeAssumption == SegSize \in Nat \ {0} /\ MaxTid \in Nat
ASSUME UsesAssumption == Uses \subseteq Segs \X Ranges
ASSUME DataAssumption ==
    /\ Blank \notin Vals \cup {Hole, Eof}
    /\ Hole \notin Vals \cup {Eof}
    /\ Eof \notin Vals
ASSUME NoneAssumption == None \notin Segs \cup Tids \cup [Blocks -> Vals \cup {Blank}]
ASSUME WindowAssumption == CrashWindows \subseteq {"truncate", "commit", "scan"}

VARIABLES
    files,      \* disk: the segments whose <segname>.txt exists
    file,       \* disk: what those files hold
    redo,       \* disk: the records of redo.txt
    table,      \* rvm_map: "none", or the segment's mapped flag
    mem,        \* segment.original_seg
    owner,      \* segment.tid (0 for the code's -1)
    running,    \* the transactions of rvm_trans_map that are not finished
    undo,       \* transaction.modSegParts
    globalt_id, \* the last transaction id given
    pc, arg,    \* the call being executed, and its argument
    pending,    \* redoData: records read from redo.txt and not yet used
    kept,       \* new_redoData of rvm_destroy
    flushed,    \* records of the committing transaction already in redo.txt
    committed   \* history: the contents fixed by completed commits

disk == <<files, file, redo>>
segments == <<table, mem, owner>>
transactions == <<running, undo, globalt_id>>
progress == <<pc, arg, pending, kept, flushed>>
vars == <<disk, segments, transactions, progress, committed>>
-----------------------------------------------------------------------------
Covers(e, s, b) == e.seg = s /\ b \in DOMAIN e.data

\* The bytes of segment s in the range R, as they are in memory now.
Copy(s, R) == [b \in R |-> mem[s][b]]

\* Mutation of Record: the commit writes the undo bytes.
RecordOld(e) == e

\* The redo record that a commit writes for an undo entry.
Record(e) == [seg |-> e.seg, data |-> Copy(e.seg, DOMAIN e.data)]

EmptyFile == [b \in Blocks |-> Eof]

\* Mutation of WriteAt: the segment file is opened with "w".
WriteAtOpenW(f, data) ==
    [b \in Blocks |->
        IF b \in DOMAIN data THEN data[b]
        ELSE IF \E c \in DOMAIN data : b < c THEN Hole
        ELSE Eof]

\* fseek and fwrite in a file opened "r+": a gap before the range reads as \0.
WriteAt(f, data) ==
    [b \in Blocks |->
        IF b \in DOMAIN data THEN data[b]
        ELSE IF f[b] = Eof /\ \E c \in DOMAIN data : b < c THEN Hole
        ELSE f[b]]

\* Mutation of ReadIn: the image of a longer mapping is not filled up.
ReadInShort(f) == f

\* modifySegmentFile: what is in the file, then blanks ...
ReadIn(f) == [b \in Blocks |-> IF f[b] = Eof THEN Blank ELSE f[b]]

\* ... and the file grows to the segment's size, unless it was empty.
Extend(f) == IF f = EmptyFile THEN f ELSE ReadIn(f)

\* Nothing is promised of bytes that nobody committed: blank, hole or no byte.
Norm(c) == IF c \in Vals THEN c ELSE Blank
NormAll(f) == [b \in Blocks |-> Norm(f[b])]
-----------------------------------------------------------------------------
Init ==
    /\ files = {}
    /\ file = [s \in Segs |-> EmptyFile]
    /\ redo = <<>>
    /\ table = [s \in Segs |-> "none"]
    /\ mem = [s \in Segs |-> [b \in Blocks |-> Blank]]
    /\ owner = [s \in Segs |-> 0]
    /\ running = {}
    /\ undo = [t \in Tids |-> <<>>]
    /\ globalt_id = 0
    /\ pc = "idle"
    /\ arg = None
    /\ pending = <<>>
    /\ kept = <<>>
    /\ flushed = 0
    /\ committed = [s \in Segs |-> [b \in Blocks |-> Blank]]

\* Mutation of TruncateStart: rvm_map does not truncate the log first.
TruncateStartOnCall(a) ==
    /\ pc = "idle"
    /\ pc' = "truncate"
    /\ arg' = a
    /\ pending' = IF a = None THEN redo ELSE <<>>
    /\ redo' = IF a = None THEN <<>> ELSE redo
    /\ UNCHANGED <<files, file, segments, transactions, kept, flushed, committed>>

\* rvm_truncate_log, called by the program (a = None) or first of all by
\* rvm_map(a): read redo.txt, then reopen it with "w", which empties it.
TruncateStart(a) ==
    /\ pc = "idle"
    /\ pc' = "truncate"
    /\ arg' = a
    /\ pending' = redo
    /\ redo' = <<>>
    /\ UNCHANGED <<files, file, segments, transactions, kept, flushed, committed>>

\* One turn of the loop: the first record goes to its segment file.
TruncateApply ==
    /\ pc = "truncate"
    /\ pending # <<>>
    /\ LET r == Head(pending) IN
        /\ r.seg \in files
        /\ file' = [file EXCEPT ![r.seg] = WriteAt(@, r.data)]
    /\ pending' = Tail(pending)
    /\ UNCHANGED <<files, redo, segments, transactions, pc, arg, kept, flushed,
                   committed>>

TruncateReturn ==
    /\ pc = "truncate"
    /\ arg = None
    /\ pending = <<>>
    /\ pc' = "idle"
    /\ UNCHANGED <<disk, segments, transactions, arg, pending, kept, flushed,
                   committed>>

\* The rest of rvm_map once the log is truncated: a segment that is not
\* mapped gets its image from its file (an entry left by rvm_unmap keeps
\* its tid); one that is mapped is refused with -1.
MapReturn ==
    /\ pc = "truncate"
    /\ arg \in Segs
    /\ pending = <<>>
    /\ IF table[arg] = "mapped"
       THEN UNCHANGED <<disk, segments>>
       ELSE /\ table' = [table EXCEPT ![arg] = "mapped"]
            /\ mem' = [mem EXCEPT ![arg] = ReadIn(file[arg])]
            /\ files' = files \cup {arg}
            /\ file' = [file EXCEPT ![arg] = Extend(@)]
            /\ UNCHANGED <<redo, owner>>
    /\ pc' = "idle"
    /\ arg' = None
    /\ UNCHANGED <<transactions, pending, kept, flushed, committed>>

\* rvm_unmap clears a flag: the image, the tid and the undo entries stay.
Unmap(s) ==
    /\ pc = "idle"
    /\ table[s] = "mapped"
    /\ table' = [table EXCEPT ![s] = "unmapped"]
    /\ UNCHANGED <<disk, mem, owner, transactions, progress, committed>>

\* rvm_destroy frees the entry of an unmapped segment and empties redo.txt.
\* (A mapped segment is exit(1); one not in rvm_map is an immediate return.
\* With undo entries of a running transaction on the segment, the erase loop
\* uses an invalidated iterator: no caller can rely on anything then.)
DestroyStart(s) ==
    /\ pc = "idle"
    /\ table[s] = "unmapped"
    /\ \A t \in running : \A i \in DOMAIN undo[t] : undo[t][i].seg # s
    /\ table' = [table EXCEPT ![s] = "none"]
    /\ mem' = [mem EXCEPT ![s] = [b \in Blocks |-> Blank]]
    /\ owner' = [owner EXCEPT ![s] = 0]
    /\ pc' = "scan"
    /\ arg' = s
    /\ pending' = redo
    /\ redo' = <<>>
    /\ UNCHANGED <<files, file, transactions, kept, flushed, committed>>

\* Mutation of DestroyScan: the records of the segment are kept.
DestroyScanAll ==
    /\ pc = "scan"
    /\ pending # <<>>
    /\ kept' = Append(kept, Head(pending))
    /\ pending' = Tail(pending)
    /\ UNCHANGED <<disk, segments, transactions, pc, arg, flushed, committed>>

\* One turn of its loop: keep the record unless it is the segment's.
DestroyScan ==
    /\ pc = "scan"
    /\ pending # <<>>
    /\ kept' = IF Head(pending).seg = arg THEN kept
                                          ELSE Append(kept, Head(pending))
    /\ pending' = Tail(pending)
    /\ UNCHANGED <<disk, segments, transactions, pc, arg, flushed, committed>>

\* From here a crash leaves the segment with what its file holds.
DestroyRewrite ==
    /\ pc = "scan"
    /\ pending = <<>>
    /\ redo' = kept
    /\ kept' = <<>>
    /\ pc' = "remove"
    /\ committed' = [committed EXCEPT ![arg] = NormAll(file[arg])]
    /\ UNCHANGED <<files, file, segments, transactions, arg, pending, flushed>>

\* Mutation of DestroyRemove: the backing store stays.
DestroyRemoveNothing ==
    /\ pc = "remove"
    /\ committed' = [committed EXCEPT ![arg] = [b \in Blocks |-> Blank]]
    /\ pc' = "idle"
    /\ arg' = None
    /\ UNCHANGED <<disk, segments, transactions, pending, kept, flushed>>

DestroyRemove ==
    /\ pc = "remove"
    /\ files' = files \ {arg}
    /\ file' = [file EXCEPT ![arg] = EmptyFile]
    /\ committed' = [committed EXCEPT ![arg] = [b \in Blocks |-> Blank]]
    /\ pc' = "idle"
    /\ arg' = None
    /\ UNCHANGED <<redo, segments, transactions, pending, kept, flushed>>
-----------------------------------------------------------------------------
\* Mutation of AllFree: the tid is not looked at.
AllMapped(S) == \A s \in S : table[s] = "mapped"

\* checkAllSeg
AllFree(S) == \A s \in S : table[s] = "mapped" /\ owner[s] = 0

BeginTrans(S) ==
    /\ pc = "idle"
    /\ globalt_id < MaxTid
    /\ AllFree(S)
    /\ globalt_id' = globalt_id + 1
    /\ owner' = [s \in Segs |-> IF s \in S THEN globalt_id' ELSE owner[s]]
    /\ running' = running \cup {globalt_id'}
    /\ UNCHANGED <<disk, table, mem, undo, progress, committed>>

\* The call that returns -1 has used up an identifier all the same.
BeginRefused(S) ==
    /\ pc = "idle"
    /\ globalt_id < MaxTid
    /\ ~AllFree(S)
    /\ globalt_id' = globalt_id + 1
    /\ UNCHANGED <<disk, segments, running, undo, progress, committed>>

UndoEntries == Cardinality(UNION {{t} \X DOMAIN undo[t] : t \in running})

\* (A range beyond the segment's limits is reported and ignored.)
AboutToModify(t, s, R) ==
    /\ pc = "idle"
    /\ t \in running
    /\ table[s] = "mapped"
    /\ owner[s] = t
    /\ UndoEntries < MaxUndo
    /\ undo' = [undo EXCEPT ![t] = Append(@, [seg |-> s, data |-> Copy(s, R)])]
    /\ UNCHANGED <<disk, segments, running, globalt_id, progress, committed>>

\* The program stores into memory it has declared in a running transaction.
Store(t, s, b, v) ==
    /\ pc = "idle"
    /\ t \in running
    /\ table[s] = "mapped"
    /\ \E i \in DOMAIN undo[t] : Covers(undo[t][i], s, b)
    /\ mem' = [mem EXCEPT ![s][b] = v]
    /\ UNCHANGED <<disk, table, owner, transactions, progress, committed>>

\* The records that rvm_commit_trans(t) still has to write.
Unwritten(t) == [i \in 1..(Len(undo[t]) - flushed) |-> Record(undo[t][flushed + i])]

\* stdio writes its buffer out whenever it is full: a record may reach the
\* file before fclose.
CommitFlush(t) ==
    /\ \/ pc = "idle" /\ Len(redo) + Len(undo[t]) <= MaxLog
       \/ pc = "commit" /\ arg = t
    /\ t \in running
    /\ flushed + 1 < Len(undo[t])
    /\ redo' = Append(redo, Record(undo[t][flushed + 1]))
    /\ flushed' = flushed + 1
    /\ pc' = "commit"
    /\ arg' = t
    /\ UNCHANGED <<files, file, segments, transactions, pending, kept, committed>>

\* Mutation of Freed: a commit resets the tid entry by entry, as an abort does.
FreedByEntry(t, s) == \E i \in DOMAIN undo[t] : undo[t][i].seg = s

\* The segments whose tid a commit resets.
Freed(t, s) == owner[s] = t

\* fclose writes what is left, then the segments are released.  (The entry
\* that stays in rvm_trans_map with finish = 1 is never looked at again.)
CommitClose(t) ==
    /\ \/ pc = "idle" /\ Len(redo) + Len(undo[t]) <= MaxLog
       \/ pc = "commit" /\ arg = t
    /\ t \in running
    /\ redo' = redo \o Unwritten(t)
    /\ owner' = [s \in Segs |-> IF Freed(t, s) THEN 0 ELSE owner[s]]
    /\ running' = running \ {t}
    /\ undo' = [undo EXCEPT ![t] = <<>>]
    /\ committed' = [s \in Segs |-> [b \in Blocks |->
                        IF \E i \in DOMAIN undo[t] : Covers(undo[t][i], s, b)
                        THEN Norm(mem[s][b])
                        ELSE committed[s][b]]]
    /\ pc' = "idle"
    /\ arg' = None
    /\ flushed' = 0
    /\ UNCHANGED <<files, file, table, mem, globalt_id, pending, kept>>

\* Mutation of FirstCover: entries are undone first to last.
LatestCover(t, s, b) ==
    CHOOSE i \in DOMAIN undo[t] :
        /\ Covers(undo[t][i], s, b)
        /\ \A j \in (i + 1)..Len(undo[t]) : ~Covers(undo[t][j], s, b)

\* Entries are undone last to first, so the first entry of a block wins.
FirstCover(t, s, b) ==
    CHOOSE i \in DOMAIN undo[t] :
        /\ Covers(undo[t][i], s, b)
        /\ \A j \in 1..(i - 1) : ~Covers(undo[t][j], s, b)

\* rvm_abort_trans.  The tid is reset entry by entry: a segment of the
\* transaction without an entry keeps the dead tid.  (With no entry at all
\* the loop steps before begin() of an empty list: undefined.)
AbortTrans(t) ==
    /\ pc = "idle"
    /\ t \in running
    /\ undo[t] # <<>>
    /\ mem' = [s \in Segs |-> [b \in Blocks |->
                IF \E i \in DOMAIN undo[t] : Covers(undo[t][i], s, b)
                THEN undo[t][FirstCover(t, s, b)].data[b]
                ELSE mem[s][b]]]
    /\ owner' = [s \in Segs |->
                IF \E i \in DOMAIN undo[t] : undo[t][i].seg = s THEN 0
                                                                ELSE owner[s]]
    /\ running' = running \ {t}
    /\ undo' = [undo EXCEPT ![t] = <<>>]
    /\ UNCHANGED <<disk, table, globalt_id, progress, committed>>
-----------------------------------------------------------------------------
\* A crash is harmless to redo.txt in these states; in the others it cuts a
\* call whose records are on their way between redo.txt and memory.
CrashAllowed ==
    \/ pc \in {"idle", "remove"}
    \/ pc = "truncate" /\ pending = <<>>
    \/ pc \in CrashWindows

\* The process dies, and rvm_init is called by the next one.
Crash ==
    /\ CrashAllowed
    /\ table' = [s \in Segs |-> "none"]
    /\ mem' = [s \in Segs |-> [b \in Blocks |-> Blank]]
    /\ owner' = [s \in Segs |-> 0]
    /\ running' = {}
    /\ undo' = [t \in Tids |-> <<>>]
    /\ globalt_id' = 0
    /\ pc' = "idle"
    /\ arg' = None
    /\ pending' = <<>>
    /\ kept' = <<>>
    /\ flushed' = 0
    /\ UNCHANGED <<disk, committed>>

Next ==
    \/ \E a \in Segs \cup {None} : TruncateStart(a)
    \/ TruncateApply \/ TruncateReturn \/ MapReturn
    \/ \E s \in Segs : Unmap(s) \/ DestroyStart(s)
    \/ DestroyScan \/ DestroyRewrite \/ DestroyRemove
    \/ \E S \in SUBSET Segs \ {{}} : BeginTrans(S) \/ BeginRefused(S)
    \/ \E t \in Tids, u \in Uses : AboutToModify(t, u[1], u[2])
    \/ \E t \in Tids, s \in Segs, b \in Blocks, v \in Vals : Store(t, s, b, v)
    \/ \E t \in Tids : CommitFlush(t) \/ CommitClose(t) \/ AbortTrans(t)
    \/ Crash

Spec == Init /\ [][Next]_vars
-----------------------------------------------------------------------------
Logs == Seq(Entries)

\* Every variable of the library and of its files has its C++ type; a
\* transaction that is not running has no undo entries.
TypeOK ==
    /\ files \in SUBSET Segs
    /\ file \in [Segs -> [Blocks -> Data \cup {Eof}]]
    /\ redo \in Logs
    /\ table \in [Segs -> {"none", "mapped", "unmapped"}]
    /\ mem \in [Segs -> [Blocks -> Data]]
    /\ owner \in [Segs -> Tids \cup {0}]
    /\ running \in SUBSET Tids
    /\ undo \in [Tids -> Logs]
    /\ \A t \in Tids \ running : undo[t] = <<>>
    /\ globalt_id \in Tids \cup {0}
    /\ pc \in {"idle", "truncate", "commit", "scan", "remove"}
    /\ arg \in Segs \cup Tids \cup {None}
    /\ pending \in Logs
    /\ kept \in Logs
    /\ flushed \in Nat
    /\ committed \in [Segs -> [Blocks -> Vals \cup {Blank}]]

\* Record i is the last of the log to cover block b of segment s: the one
\* whose bytes a truncation leaves in the file.
LastCover(log, i, s, b) ==
    /\ Covers(log[i], s, b)
    /\ \A j \in DOMAIN log : j > i => ~Covers(log[j], s, b)

\* README.md:19, "the redo.txt consists of data that is entirely commited":
\* between calls, replaying redo.txt yields no byte that a completed commit
\* did not write last.
Atomicity ==
    pc = "idle" =>
        \A s \in Segs, b \in Blocks : \A i \in DOMAIN redo :
            LastCover(redo, i, s, b) => Norm(redo[i].data[b]) = committed[s][b]

\* README.md:21, "the data once commited remains immune of ... abrupt process
\* termination": between calls, a committed block that redo.txt does not hold
\* is in the segment file.
Durability ==
    pc = "idle" =>
        \A s \in Segs, b \in Blocks :
            (\A i \in DOMAIN redo : ~Covers(redo[i], s, b))
                => Norm(file[s][b]) = committed[s][b]

\* rvm_truncate_log never meets a record whose segment file is gone (where it
\* would exit with the rest of the log lost), wherever a crash has struck.
LoggedFileExists ==
    \A log \in {redo, pending, kept} : \A i \in DOMAIN log : log[i].seg \in files

\* Two running transactions never hold undo entries of one segment, so an
\* abort cannot overwrite what another transaction stored.
Isolation ==
    \A t, u \in running : \A i \in DOMAIN undo[t], j \in DOMAIN undo[u] :
        undo[t][i].seg = undo[u][j].seg => t = u

\* What the first undo entry of a block saved is its committed content, also
\* after a remap in the middle of the transaction: abort goes back to it.
UndoIsCommitted ==
    \A t \in running, s \in Segs, b \in Blocks : \A i \in DOMAIN undo[t] :
        /\ Covers(undo[t][i], s, b)
        /\ \A j \in 1..(i - 1) : ~Covers(undo[t][j], s, b)
        => Norm(undo[t][i].data[b]) = committed[s][b]

\* A block in memory that no running transaction has declared is the committed
\* one: whatever was mapped, committed, aborted, truncated or destroyed before.
CleanImage ==
    \A s \in Segs, b \in Blocks :
        /\ table[s] # "none"
        /\ \A t \in running : \A i \in DOMAIN undo[t] : ~Covers(undo[t][i], s, b)
        => Norm(mem[s][b]) = committed[s][b]

\* A transaction that ends leaves every segment it was begun on free for the
\* next one, except that an abort, and never a commit or a restart, keeps those
\* it was begun on and has declared nothing of.
SegmentsReleased ==
    [][\A s \in Segs : LET t == owner[s] IN
        t \in running \ running' =>
            \/ owner'[s] = 0
            \/ /\ pc = "idle" /\ disk' = disk
               /\ undo[t] # <<>>
               /\ \A i \in DOMAIN undo[t] : undo[t][i].seg # s]_vars
=============================================================================
