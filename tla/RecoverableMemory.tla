------------------------- MODULE RecoverableMemory -------------------------
(***************************************************************************)
(* What librvm promises its caller, with no log and no file: every segment *)
(* has a committed content that only a commit or a destroy may change, and *)
(* a memory image that is born equal to it.  An owner is the transaction   *)
(* that may store into the image; ending the transaction either makes the  *)
(* image the committed content or makes the committed content the image.   *)
(* A crash takes the images and the transactions, never committed content. *)
(***************************************************************************)

CONSTANTS
    Segs,       \* segment names
    Blocks,     \* the byte ranges of a segment that the model tells apart
    Contents,   \* what a block may hold
    Fresh,      \* the content of a block that nobody has ever committed
    Tids,       \* transaction identifiers
    NoTid,      \* "no transaction"
    NoImage     \* "the segment is not in memory"

VARIABLES
    committed,  \* [Segs -> [Blocks -> Contents]]
    image,      \* [Segs -> [Blocks -> Contents] \cup {NoImage}]
    owner,      \* [Segs -> Tids \cup {NoTid}]
    doomed      \* the segments whose destruction has begun and not ended

avars == <<committed, image, owner, doomed>>

Owned(t) == {s \in Segs : owner[s] = t}

Init ==
    /\ committed = [s \in Segs |-> [b \in Blocks |-> Fresh]]
    /\ image = [s \in Segs |-> NoImage]
    /\ owner = [s \in Segs |-> NoTid]
    /\ doomed = {}

\* Mapping a segment yields exactly its committed content.
Map(s) ==
    /\ image' = [image EXCEPT ![s] = committed[s]]
    /\ UNCHANGED <<committed, owner, doomed>>

Begin(t, S) ==
    /\ Owned(t) = {}
    /\ \A s \in S : image[s] # NoImage /\ owner[s] = NoTid
    /\ owner' = [s \in Segs |-> IF s \in S THEN t ELSE owner[s]]
    /\ UNCHANGED <<committed, image, doomed>>

Store(s, b, c) ==
    /\ owner[s] # NoTid
    /\ image[s] # NoImage
    /\ image' = [image EXCEPT ![s][b] = c]
    /\ UNCHANGED <<committed, owner, doomed>>

\* All the segments of the transaction change together, and only they.
Commit(t) ==
    /\ Owned(t) # {}
    /\ committed' = [s \in Segs |-> IF s \in Owned(t) THEN image[s]
                                                      ELSE committed[s]]
    /\ owner' = [s \in Segs |-> IF s \in Owned(t) THEN NoTid ELSE owner[s]]
    /\ UNCHANGED <<image, doomed>>

Abort(t) ==
    /\ Owned(t) # {}
    /\ image' = [s \in Segs |-> IF s \in Owned(t) THEN committed[s]
                                                  ELSE image[s]]
    /\ owner' = [s \in Segs |-> IF s \in Owned(t) THEN NoTid ELSE owner[s]]
    /\ UNCHANGED <<committed, doomed>>

\* Destruction is not atomic: until it ends, nothing is promised of the
\* segment (and of that segment only).
DestroyBegin(s) ==
    /\ image[s] # NoImage
    /\ image' = [image EXCEPT ![s] = NoImage]
    /\ owner' = [owner EXCEPT ![s] = NoTid]
    /\ doomed' = {s}
    /\ UNCHANGED committed

DestroyPart(s, content) ==
    /\ s \in doomed
    /\ committed' = [committed EXCEPT ![s] = content]
    /\ UNCHANGED <<image, owner, doomed>>

DestroyEnd(s) ==
    /\ s \in doomed
    /\ committed' = [committed EXCEPT ![s] = [b \in Blocks |-> Fresh]]
    /\ doomed' = {}
    /\ UNCHANGED <<image, owner>>

Crash ==
    /\ image' = [s \in Segs |-> NoImage]
    /\ owner' = [s \in Segs |-> NoTid]
    /\ doomed' = {}
    /\ UNCHANGED committed

Next ==
    \/ \E s \in Segs : Map(s) \/ DestroyBegin(s) \/ DestroyEnd(s)
    \/ \E s \in Segs, content \in [Blocks -> Contents] : DestroyPart(s, content)
    \/ \E s \in Segs, b \in Blocks, c \in Contents : Store(s, b, c)
    \/ \E t \in Tids, S \in SUBSET Segs : Begin(t, S)
    \/ \E t \in Tids : Commit(t) \/ Abort(t)
    \/ Crash

Spec == Init /\ [][Next]_avars
=============================================================================
