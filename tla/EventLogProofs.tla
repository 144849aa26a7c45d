--------------------------- MODULE EventLogProofs ---------------------------
(***************************************************************************)
(* What store_atomic guarantees, for every alphabet of frames and every    *)
(* bound: the file at the log's path is whole and intact, whatever I/O     *)
(* error or crash cut a store short; and what the hash chain guarantees a  *)
(* reader of that file, whatever became of it since.  Then what redaction  *)
(* guarantees a reader of any text that leaves the daemon.                 *)
(***************************************************************************)
EXTENDS EventLog, Secrets, SequenceTheorems, WellFoundedInduction, TLAPS

Storing == {"create", "write", "sync", "rename"}

\* The inductive invariant.  A log enters `stored` only when it verifies; the
\* writer cannot append during a store, so what it renames is what it
\* verified; and the rename happens only behind a completed sync.
IInv ==
  /\ pc \in Storing \union {"idle", "syncdir", "down"}
  /\ faults \in Nat
  /\ \A log \in stored : IsIntact(Verify(log))
  /\ pc \in Storing => mem \in stored
  /\ pc = "sync" => temp = Inode(mem, FALSE)
  /\ pc = "rename" => temp = Inode(mem, TRUE)
  /\ faults = 0 => Whole(path) /\ Whole(durable)

\* A crash leaves a whole file whole.
LEMMA WholeSurvivesCrash ==
  ASSUME NEW inode, Whole(inode)
  PROVE  Torn(inode) = {inode}
<1>1. CASE inode = NoFile
  BY <1>1, Zenon DEF Torn
<1>2. CASE inode.synced
  BY <1>2, Zenon DEF Torn
<1> QED
  BY <1>1, <1>2, Zenon DEF Whole

\* The empty writer satisfies the invariant.
LEMMA InitIInv == Init => IInv
BY DEF Init, IInv, Storing, Whole

\* Every step of the writer and of its environment preserves it.
LEMMA NextIInv == IInv /\ [Next]_vars => IInv'
<1> SUFFICES ASSUME IInv, [Next]_vars PROVE IInv'
  OBVIOUS
<1> USE DEF IInv, Storing, Whole
<1>1. ASSUME NEW meta \in Metas, NEW payload \in Payloads,
             AppendFrame(meta, payload)
      PROVE  IInv'
  BY <1>1 DEF AppendFrame
<1>2. CASE StoreRefuse
  BY <1>2 DEF StoreRefuse
<1>3. CASE StoreBegin
  BY <1>3 DEF StoreBegin
<1>4. CASE StoreCreate
  BY <1>4 DEF StoreCreate
<1>5. CASE StoreWrite
  BY <1>5 DEF StoreWrite
<1>6. CASE StoreSync
  <2>1. temp' = Inode(mem', TRUE)
    <3>1. temp = [bytes |-> mem, synced |-> FALSE]
      BY <1>6 DEF StoreSync, Inode
    <3>2. temp' = [temp EXCEPT !.synced = TRUE] /\ mem' = mem
      BY <1>6 DEF StoreSync
    <3> QED
      BY <3>1, <3>2 DEF Inode
  <2> QED
    BY <1>6, <2>1 DEF StoreSync
<1>7. CASE StoreRename
  BY <1>7 DEF StoreRename, Inode
<1>8. CASE StoreSyncDir
  BY <1>8 DEF StoreSyncDir
<1>9. CASE StoreFail
  BY <1>9 DEF StoreFail
<1>10. CASE Crash
  <2>1. faults = 0 => path' \in {path, durable} /\ durable' = path'
    BY <1>10, WholeSurvivesCrash DEF Crash
  <2> QED
    BY <1>10, <2>1 DEF Crash
<1>11. CASE Fault
  <2>1. faults' \in Nat /\ faults' # 0
    BY <1>11 DEF Fault
  <2>2. UNCHANGED <<mem, temp, pc, stored>> /\ pc \notin Storing
    BY <1>11 DEF Fault
  <2> QED
    BY <2>1, <2>2
<1>12. CASE UNCHANGED vars
  BY <1>12 DEF vars
<1> QED
  BY <1>1, <1>2, <1>3, <1>4, <1>5, <1>6, <1>7, <1>8, <1>9, <1>10, <1>11,
     <1>12 DEF Next, Store

\* store_atomic (crustcore-eventlog/src/lib.rs) never exposes a partial or a
\* broken log at the final path, for every alphabet of frames, every number
\* of stores and every point of failure.
THEOREM StoreIsAtomic == Spec => []StoredIsWhole
<1>1. IInv => StoredIsWhole
  BY DEF IInv, StoredIsWhole, Whole
<1> QED
  BY <1>1, InitIInv, NextIInv, PTL DEF Spec

-----------------------------------------------------------------------------
(* Numbers.                                                                *)

\* The order of the natural numbers as a relation, which is well founded.
Precedes == {pair \in Nat \X Nat : pair[1] < pair[2]}

\* Every set of natural numbers has a least one.
LEMMA LeastNumber ==
  ASSUME NEW T \in SUBSET Nat, T # {}
  PROVE  \E x \in T : \A y \in T : x <= y
<1>1. IsWellFoundedOn(Precedes, Nat)
  BY NatLessThanWellFounded DEF OpToRel, Precedes
<1>2. T \subseteq Nat
  OBVIOUS
<1>3. PICK x \in T : \A y \in T : <<y, x>> \notin Precedes
  BY <1>1, <1>2, WFMin
<1>4. ASSUME NEW y \in T PROVE x <= y
  <2>1. y \in Nat /\ x \in Nat
    BY <1>2
  <2>2. y < x => <<y, x>> \in Precedes
    BY <2>1 DEF Precedes
  <2> QED BY <2>1, <2>2, <1>3
<1> QED BY <1>4

\* A bounded set of natural numbers has a greatest one, which Max chooses.
LEMMA GreatestNumber ==
  ASSUME NEW n \in Nat, NEW T \in SUBSET (0 .. n), T # {}
  PROVE  Max(T) \in T /\ \A y \in T : y <= Max(T)
<1> DEFINE Down == {y \in 0 .. n : n - y \in T}
<1>1. Down \in SUBSET Nat
  OBVIOUS
<1>2. Down # {}
  <2>1. PICK y \in T : y \in 0 .. n
    OBVIOUS
  <2>2. n - y \in 0 .. n /\ n - (n - y) = y
    BY <2>1
  <2> QED BY <2>1, <2>2
<1>3. PICK d \in Down : \A y \in Down : d <= y
  BY <1>1, <1>2, LeastNumber
<1>4. n - d \in T /\ n - d \in Int
  BY <1>3
<1>5. ASSUME NEW y \in T PROVE n - d >= y
  <2>1. y \in 0 .. n /\ n - y \in 0 .. n /\ n - (n - y) = y
    OBVIOUS
  <2>2. n - y \in Down
    BY <2>1
  <2> QED BY <2>1, <2>2, <1>3
<1> HIDE DEF Down
<1>6. \E z \in T : \A y \in T : z >= y
  BY <1>4, <1>5
<1>7. Max(T) \in T /\ \A y \in T : Max(T) >= y
  BY <1>6 DEF Max
<1> QED BY <1>7

-----------------------------------------------------------------------------
(* The hash chain.                                                         *)

\* Digests tell what was hashed, and none is that of the empty chain.
LEMMA HashIsInjective ==
  /\ \A x, y : Hash(x) = Hash(y) => x = y
  /\ \A x : Hash(x) # Genesis
<1>1. \A x : Hash(x)[2] = x /\ Len(Hash(x)) = 2
  BY DEF Hash
<1>2. Len(Genesis) = 1
  BY DEF Genesis
<1> QED BY <1>1, <1>2

\* The digest a frame at place i is linked to.
Before(s, i) == IF i = 1 THEN Genesis ELSE s[i - 1].frame_hash

\* Frames with their own digest, linked to the frames before them.
Linked(s, n) ==
  \A i \in 1 .. n : /\ s[i].body.prev_hash = Before(s, i)
                    /\ s[i] = [body |-> s[i].body, frame_hash |-> Hash(s[i].body)]

\* Two chains that have one frame in common agree on everything before it:
\* the first place where they would differ, going back from there, is linked
\* to by frames that are equal.
LEMMA ChainsAgree ==
  ASSUME NEW w, NEW log, NEW n \in Nat, NEW j \in Nat, n >= 1, j >= 1,
         Linked(w, n), Linked(log, j), w[n] = log[j]
  PROVE  n = j /\ \A i \in 1 .. n : w[i] = log[i]
<1> DEFINE Apart == {k \in 0 .. (n - 1) : ~(k < j /\ w[n - k] = log[j - k])}
<1>1. ASSUME NEW i \in 1 .. n, NEW p \in 1 .. j, w[i] = log[p]
      PROVE  (i = 1 <=> p = 1) /\ (i > 1 => w[i - 1] = log[p - 1])
  <2>1. Before(w, i) = Before(log, p)
    BY <1>1 DEF Linked
  <2>2. i > 1 => /\ Before(w, i) = Hash(w[i - 1].body)
                 /\ w[i - 1] = [body |-> w[i - 1].body, frame_hash |-> Hash(w[i - 1].body)]
    <3> SUFFICES ASSUME i > 1 PROVE /\ Before(w, i) = Hash(w[i - 1].body)
                                    /\ w[i - 1] = [body |-> w[i - 1].body, frame_hash |-> Hash(w[i - 1].body)]
      OBVIOUS
    <3>1. i - 1 \in 1 .. n /\ i # 1
      OBVIOUS
    <3>2. w[i - 1] = [body |-> w[i - 1].body, frame_hash |-> Hash(w[i - 1].body)]
      BY <3>1 DEF Linked
    <3>3. w[i - 1].frame_hash = Hash(w[i - 1].body)
      BY <3>2
    <3> QED BY <3>1, <3>2, <3>3 DEF Before
  <2>3. p > 1 => /\ Before(log, p) = Hash(log[p - 1].body)
                 /\ log[p - 1] = [body |-> log[p - 1].body, frame_hash |-> Hash(log[p - 1].body)]
    <3> SUFFICES ASSUME p > 1 PROVE /\ Before(log, p) = Hash(log[p - 1].body)
                                    /\ log[p - 1] = [body |-> log[p - 1].body, frame_hash |-> Hash(log[p - 1].body)]
      OBVIOUS
    <3>1. p - 1 \in 1 .. j /\ p # 1
      OBVIOUS
    <3>2. log[p - 1] = [body |-> log[p - 1].body, frame_hash |-> Hash(log[p - 1].body)]
      BY <3>1 DEF Linked
    <3>3. log[p - 1].frame_hash = Hash(log[p - 1].body)
      BY <3>2
    <3> QED BY <3>1, <3>2, <3>3 DEF Before
  <2>4. (i = 1 => Before(w, i) = Genesis) /\ (p = 1 => Before(log, p) = Genesis)
    BY DEF Before
  <2>5. i = 1 <=> p = 1
    BY <2>1, <2>2, <2>3, <2>4, HashIsInjective
  <2>6. i > 1 => w[i - 1].body = log[p - 1].body
    <3>1. i > 1 => p > 1
      BY <2>5
    <3> QED BY <3>1, <2>1, <2>2, <2>3, HashIsInjective
  <2>7. i > 1 => p > 1
    BY <2>5
  <2> QED BY <2>2, <2>3, <2>5, <2>6, <2>7
<1>2. Apart = {}
  <2> SUFFICES ASSUME Apart # {} PROVE FALSE
    OBVIOUS
  <2>1. Apart \in SUBSET Nat
    OBVIOUS
  <2>2. PICK k \in Apart : \A y \in Apart : k <= y
    BY <2>1, LeastNumber
  <2>3. k \in 0 .. (n - 1) /\ ~(k < j /\ w[n - k] = log[j - k])
    BY <2>2
  <2>4. k # 0
    BY <2>3
  <2>5. k - 1 \in 0 .. (n - 1) /\ k - 1 \notin Apart
    BY <2>2, <2>3, <2>4
  <2>6. k - 1 < j /\ w[n - (k - 1)] = log[j - (k - 1)]
    BY <2>5
  <2> DEFINE i == n - (k - 1)
             p == j - (k - 1)
  <2>7. i \in 1 .. n /\ p \in 1 .. j /\ i > 1 /\ i - 1 = n - k /\ p - 1 = j - k
    BY <2>3, <2>4, <2>6
  <2>8. w[i] = log[p]
    BY <2>6
  <2> HIDE DEF Apart, i, p
  <2>9. p # 1 /\ w[i - 1] = log[p - 1]
    BY <2>7, <2>8, <1>1
  <2>10. k < j
    BY <2>3, <2>7, <2>9
  <2> QED BY <2>3, <2>7, <2>9, <2>10
<1>3. ASSUME NEW k \in 0 .. (n - 1) PROVE k < j /\ w[n - k] = log[j - k]
  BY <1>2
<1> HIDE DEF Apart
<1>4. n - 1 < j /\ w[1] = log[j - (n - 1)]
  <2>1. n - 1 \in 0 .. (n - 1) /\ n - (n - 1) = 1
    OBVIOUS
  <2> QED BY <2>1, <1>3
<1>5. j - (n - 1) = 1
  <2>1. 1 \in 1 .. n /\ j - (n - 1) \in 1 .. j
    BY <1>4
  <2> QED BY <2>1, <1>1, <1>4
<1>6. n = j
  BY <1>5
<1>7. ASSUME NEW i \in 1 .. n PROVE w[i] = log[i]
  <2>1. n - i \in 0 .. (n - 1) /\ n - (n - i) = i
    OBVIOUS
  <2> QED BY <2>1, <1>3, <1>6
<1> QED BY <1>6, <1>7

-----------------------------------------------------------------------------
(* Readers.                                                                *)

\* A sequence of whatever it holds.
Contents(s) == {s[i] : i \in 1 .. Len(s)}
IsSequence(s) == s \in Seq(Contents(s))

LEMMA SequenceOf ==
  ASSUME NEW S, NEW s \in Seq(S)
  PROVE  IsSequence(s) /\ Contents(s) \subseteq S
<1>1. Len(s) \in Nat /\ s \in [1 .. Len(s) -> S]
  BY LenProperties
<1>2. s \in [1 .. Len(s) -> Contents(s)]
  BY <1>1 DEF Contents
<1>3. s \in Seq(Contents(s))
  BY <1>1, <1>2, SeqDef
<1> QED BY <1>1, <1>3 DEF IsSequence, Contents

\* The first n frames have no break.
Sound(bytes, n) == \A i \in 1 .. n : BreakReason(bytes, i) = None

\* walk stops at the first break, or at the end.
LEMMA WalkStops ==
  ASSUME NEW bytes, IsSequence(bytes)
  PROVE  \E n \in 0 .. Len(bytes) :
           /\ Walk(bytes) = SubSeq(bytes, 1, n) /\ Len(Walk(bytes)) = n
           /\ \A i \in 1 .. n : Walk(bytes)[i] = bytes[i]
           /\ IsSequence(Walk(bytes))
           /\ Sound(bytes, n)
           /\ n # Len(bytes) => BreakReason(bytes, n + 1) # None
<1> DEFINE good == {n \in 0 .. Len(bytes) : Sound(bytes, n)}
           top == Max(good)
<1>1. Len(bytes) \in Nat /\ good \in SUBSET (0 .. Len(bytes))
  BY LenProperties DEF IsSequence
<1>2. 0 \in good
  BY <1>1 DEF Sound
<1>3. top \in good /\ \A y \in good : y <= top
  BY <1>1, <1>2, GreatestNumber
<1>4. Walk(bytes) = SubSeq(bytes, 1, top)
  BY Zenon DEF Walk, Sound
<1>5. top \in 0 .. Len(bytes) /\ Sound(bytes, top)
  BY <1>3
<1>6. top # Len(bytes) => BreakReason(bytes, top + 1) # None
  <2> SUFFICES ASSUME top # Len(bytes), BreakReason(bytes, top + 1) = None PROVE FALSE
    OBVIOUS
  <2> HIDE DEF top
  <2>1. top + 1 \in 0 .. Len(bytes) /\ ~(top + 1 <= top)
    BY <1>1, <1>5
  <2>2. \A i \in 1 .. (top + 1) : i \in 1 .. top \/ i = top + 1
    BY <1>5, <1>1
  <2>3. Sound(bytes, top + 1)
    BY <1>5, <2>2 DEF Sound
  <2> QED BY <2>1, <2>3, <1>3
<1> HIDE DEF top, good
<1>7. \A i \in 1 .. top : bytes[i] \in Contents(bytes)
  BY <1>1, <1>5 DEF Contents
<1>8. /\ SubSeq(bytes, 1, top) \in Seq(Contents(bytes)) /\ Len(SubSeq(bytes, 1, top)) = top
      /\ \A i \in 1 .. top : SubSeq(bytes, 1, top)[i] = bytes[i]
  BY <1>1, <1>5, <1>7, SubSeqProperties
<1>9. IsSequence(SubSeq(bytes, 1, top))
  BY <1>8, SequenceOf
<1> QED BY <1>4, <1>5, <1>6, <1>8, <1>9

\* An intact chain is one without a break, and its walk is all of it.
LEMMA IntactIsSound ==
  ASSUME NEW bytes, IsSequence(bytes)
  PROVE  /\ IsIntact(Verify(bytes)) <=> Sound(bytes, Len(bytes))
         /\ Sound(bytes, Len(bytes)) => Walk(bytes) = bytes
<1>1. PICK n \in 0 .. Len(bytes) :
        /\ Walk(bytes) = SubSeq(bytes, 1, n) /\ Len(Walk(bytes)) = n
        /\ Sound(bytes, n)
        /\ n # Len(bytes) => BreakReason(bytes, n + 1) # None
  BY WalkStops
<1>2. Len(bytes) \in Nat
  BY LenProperties DEF IsSequence
<1>3. Verify(bytes).reason = IF n = Len(bytes) THEN None ELSE BreakReason(bytes, n + 1)
  BY <1>1 DEF Verify
<1>4. n # Len(bytes) => ~Sound(bytes, Len(bytes))
  <2>1. n # Len(bytes) => n + 1 \in 1 .. Len(bytes)
    BY <1>2
  <2> QED BY <2>1, <1>1 DEF Sound
<1>5. n = Len(bytes) => Walk(bytes) = bytes
  BY <1>1, SubSeqFull DEF IsSequence
<1> QED BY <1>1, <1>3, <1>4, <1>5 DEF IsIntact

\* What the check of a frame looks at before it.
LEMMA HeadBefore ==
  ASSUME NEW bytes, IsSequence(bytes), NEW i \in 1 .. Len(bytes)
  PROVE  HeadHash(SubSeq(bytes, 1, i - 1)) = Before(bytes, i)
<1>1. Len(bytes) \in Nat
  BY LenProperties DEF IsSequence
<1>2. i - 1 \in Int /\ \A k \in 1 .. (i - 1) : bytes[k] \in Contents(bytes)
  BY <1>1 DEF Contents
<1> DEFINE front == SubSeq(bytes, 1, i - 1)
<1>3. /\ front \in Seq(Contents(bytes)) /\ Len(front) = IF 1 <= i - 1 THEN i - 1 - 1 + 1 ELSE 0
      /\ \A k \in 1 .. (i - 1 - 1 + 1) : front[k] = bytes[1 + k - 1]
  BY <1>2, SubSeqProperties
<1> HIDE DEF front
<1>4. CASE i = 1
  <2>1. front = << >>
    BY <1>3, <1>4, EmptySeq
  <2> QED BY <2>1, <1>4 DEF HeadHash, Before, front
<1>5. CASE i # 1
  <2>1. Len(front) = i - 1 /\ front # << >> /\ front[i - 1] = bytes[i - 1]
    BY <1>1, <1>3, <1>5
  <2> QED BY <2>1, <1>5 DEF HeadHash, Before, front
<1> QED BY <1>4, <1>5

\* A frame without a break is linked, and is what was hashed.
LEMMA UnbrokenFrame ==
  ASSUME NEW bytes, IsSequence(bytes), NEW i \in 1 .. Len(bytes), BreakReason(bytes, i) = None
  PROVE  /\ bytes[i] # Garbage
         /\ Hash(bytes[i].body) = bytes[i].frame_hash
         /\ bytes[i].body.prev_hash = Before(bytes, i)
<1> DEFINE f == bytes[i]
           c1 == f = Garbage
           c2 == Hash(f.body.payload) # f.body.payload_hash
           c3 == Hash(f.body) # f.frame_hash
           c4 == f.body.prev_hash # Before(bytes, i)
           c5 == i > 1 /\ f.body.meta.seq <= bytes[i - 1].body.meta.seq
<1>1. None = IF c1 THEN "Undecodable" ELSE IF c2 THEN "PayloadHashMismatch" ELSE IF c3 THEN "FrameHashMismatch"
             ELSE IF c4 THEN "PrevHashMismatch" ELSE IF c5 THEN "NonMonotonicSeq" ELSE None
  BY HeadBefore, Zenon DEF BreakReason
<1>2. None \notin {"Undecodable", "PayloadHashMismatch", "FrameHashMismatch", "PrevHashMismatch", "NonMonotonicSeq"}
  BY LogAssumption DEF Reasons
<1> HIDE DEF c1, c2, c3, c4, c5
<1>3. ~c1 /\ ~c3 /\ ~c4
  BY <1>1, <1>2
<1> QED BY <1>3 DEF c1, c3, c4

\* The frames of a prefix are judged as those of the whole.
LEMMA PrefixIsSound ==
  ASSUME NEW bytes, IsSequence(bytes), NEW n \in 0 .. Len(bytes), Sound(bytes, n)
  PROVE  Walk(SubSeq(bytes, 1, n)) = SubSeq(bytes, 1, n)
<1> DEFINE front == SubSeq(bytes, 1, n)
<1>1. Len(bytes) \in Nat
  BY LenProperties DEF IsSequence
<1>2. \A k \in 1 .. n : bytes[k] \in Contents(bytes)
  BY <1>1 DEF Contents
<1>3. /\ front \in Seq(Contents(bytes)) /\ Len(front) = n
      /\ \A k \in 1 .. n : front[k] = bytes[k]
  BY <1>1, <1>2, SubSeqProperties
<1>4. IsSequence(front)
  BY <1>3, SequenceOf
<1> HIDE DEF front
<1>5. ASSUME NEW i \in 1 .. n PROVE BreakReason(front, i) = BreakReason(bytes, i)
  <2>1. i \in 1 .. Len(bytes) /\ i \in 1 .. Len(front) /\ front[i] = bytes[i]
    BY <1>1, <1>3
  <2>2. i > 1 => front[i - 1] = bytes[i - 1] /\ i - 1 \in 1 .. n
    BY <1>3
  <2>3. i = 1 \/ i > 1
    OBVIOUS
  <2>4. Before(front, i) = Before(bytes, i)
    BY <2>2, <2>3 DEF Before
  <2>5. HeadHash(SubSeq(front, 1, i - 1)) = HeadHash(SubSeq(bytes, 1, i - 1))
    BY <2>1, <2>4, <1>4, HeadBefore
  <2> QED BY <2>1, <2>2, <2>5 DEF BreakReason
<1>6. Sound(front, Len(front))
  BY <1>3, <1>5 DEF Sound
<1> QED BY <1>4, <1>6, IntactIsSound DEF front

-----------------------------------------------------------------------------
(* What the writer writes.                                                 *)

\* A log as append builds it.
Chained(log) ==
  /\ IsSequence(log)
  /\ \A i \in 1 .. Len(log) :
       \E meta \in Metas, payload \in Payloads : log[i] = Frame(meta, payload, Before(log, i))

LEMMA ChainedFrames ==
  ASSUME NEW log, Chained(log), NEW i \in 1 .. Len(log)
  PROVE  /\ log[i].body.prev_hash = Before(log, i)
         /\ log[i] = [body |-> log[i].body, frame_hash |-> Hash(log[i].body)]
         /\ log[i].frame_hash = Hash(log[i].body)
         /\ Hash(log[i].body.payload) = log[i].body.payload_hash
         /\ log[i].body.meta \in Metas /\ log[i].body.payload \in Payloads
<1>1. PICK meta \in Metas, payload \in Payloads : log[i] = Frame(meta, payload, Before(log, i))
  BY DEF Chained
<1> DEFINE b == [meta |-> meta, payload |-> payload, payload_hash |-> Hash(payload), prev_hash |-> Before(log, i)]
<1>2. log[i] = [body |-> b, frame_hash |-> Hash(b)]
  BY <1>1, Zenon DEF Frame
<1>3. b.meta = meta /\ b.payload = payload /\ b.payload_hash = Hash(payload) /\ b.prev_hash = Before(log, i)
  OBVIOUS
<1> HIDE DEF b
<1>4. log[i].body = b /\ log[i].frame_hash = Hash(b)
  BY <1>2
<1> QED BY <1>2, <1>3, <1>4

LEMMA ChainedIsLinked ==
  ASSUME NEW log, Chained(log), NEW j \in 0 .. Len(log)
  PROVE  Linked(log, j)
<1>1. Len(log) \in Nat
  BY LenProperties DEF Chained, IsSequence
<1>2. \A i \in 1 .. j : i \in 1 .. Len(log)
  BY <1>1
<1> QED BY <1>2, ChainedFrames DEF Linked

\* No frame is taken for garbage.
LEMMA FrameIsDecodable ==
  ASSUME NEW f, NEW b, NEW h, f = [body |-> b, frame_hash |-> h]
  PROVE  f # Garbage
<1>1. "body" \in DOMAIN f /\ "body" \notin DOMAIN Garbage
  BY DEF Garbage
<1> QED BY <1>1

\* The only thing wrong with a log that append built is a sequence number.
LEMMA ChainedBreaks ==
  ASSUME NEW log, Chained(log), NEW i \in 1 .. Len(log)
  PROVE  BreakReason(log, i) \in {None, "NonMonotonicSeq"}
<1>1. log[i] # Garbage
  <2>1. log[i] = [body |-> log[i].body, frame_hash |-> Hash(log[i].body)]
    BY ChainedFrames
  <2> QED BY <2>1, FrameIsDecodable
<1>2. HeadHash(SubSeq(log, 1, i - 1)) = Before(log, i)
  BY HeadBefore DEF Chained
<1> QED BY <1>1, <1>2, ChainedFrames, Zenon DEF BreakReason

LEMMA ChainedAppend ==
  ASSUME NEW log, Chained(log), NEW meta \in Metas, NEW payload \in Payloads
  PROVE  Chained(Append(log, Frame(meta, payload, HeadHash(log))))
<1> DEFINE f == Frame(meta, payload, HeadHash(log))
           S == Contents(log) \union {f}
           n == Len(log)
           new == Append(log, f)
<1>1. log \in Seq(Contents(log)) /\ n \in Nat
  BY LenProperties DEF Chained, IsSequence
<1>2. log \in Seq(S)
  BY <1>1, SeqMonotonic
<1>3. new \in Seq(S) /\ Len(new) = n + 1 /\ new[n + 1] = f /\ \A i \in 1 .. n : new[i] = log[i]
  <2> HIDE DEF S, f
  <2>1. f \in S
    BY DEF S
  <2> QED BY <1>2, <2>1
<1>4. IsSequence(new)
  BY <1>3, SequenceOf
<1>5. HeadHash(log) = Before(new, n + 1)
  <2>1. log = << >> <=> n = 0
    BY <1>1, EmptySeq
  <2>2. CASE n = 0
    BY <2>1, <2>2 DEF HeadHash, Before
  <2>3. CASE n # 0
    <3>1. n \in 1 .. n /\ (n + 1) - 1 = n /\ n + 1 # 1
      BY <2>3, <1>1
    <3>2. new[n] = log[n]
      BY <3>1, <1>3
    <3> HIDE DEF new, n
    <3> QED BY <2>1, <2>3, <3>1, <3>2 DEF HeadHash, Before, n
  <2> QED BY <2>2, <2>3
<1> HIDE DEF new, n
<1>6. \A i \in 1 .. (n + 1) : i \in 1 .. n \/ i = n + 1
  BY <1>1
<1>7. ASSUME NEW i \in 1 .. n PROVE Before(new, i) = Before(log, i) /\ i \in 1 .. Len(log)
  <2>1. i > 1 => i - 1 \in 1 .. n
    BY <1>1
  <2>2. i = 1 \/ i > 1
    BY <1>1
  <2> QED BY <2>1, <2>2, <1>3 DEF Before, n
<1>8. ASSUME NEW i \in 1 .. (n + 1)
      PROVE  \E m \in Metas, p \in Payloads : new[i] = Frame(m, p, Before(new, i))
  <2>1. CASE i \in 1 .. n
    <3>1. PICK m \in Metas, p \in Payloads : log[i] = Frame(m, p, Before(log, i))
      BY <2>1, <1>7 DEF Chained
    <3>2. new[i] = Frame(m, p, Before(new, i))
      BY <2>1, <3>1, <1>3, <1>7
    <3> QED BY <3>2
  <2>2. CASE i = n + 1
    <3>1. new[i] = Frame(meta, payload, Before(new, i))
      BY <2>2, <1>3, <1>5
    <3> QED BY <3>1
  <2> QED BY <2>1, <2>2, <1>6
<1> QED BY <1>3, <1>4, <1>8 DEF Chained, new

-----------------------------------------------------------------------------
(* What is in the file.                                                    *)

\* A frame that was once written, perhaps with its contents changed since:
\* damage does not make digests.
Known(f, logs) ==
  \/ f = Garbage
  \/ /\ f = [body |-> f.body, frame_hash |-> f.frame_hash]
     /\ \/ f.frame_hash = Genesis
        \/ \E log \in logs : \E j \in 1 .. Len(log) : f.frame_hash = log[j].frame_hash

KnownFile(inode, logs) ==
  inode = NoFile \/ /\ inode = Inode(inode.bytes, TRUE) /\ IsSequence(inode.bytes) /\ logs # {}
                    /\ \A i \in 1 .. Len(inode.bytes) : Known(inode.bytes[i], logs)

LEMMA KnownGrows ==
  ASSUME NEW inode, NEW logs, NEW more, logs \subseteq more, KnownFile(inode, logs)
  PROVE  KnownFile(inode, more)
BY DEF KnownFile, Known

LEMMA InodeFields ==
  ASSUME NEW b, NEW s
  PROVE  /\ Inode(b, s).bytes = b /\ Inode(b, s).synced = s /\ DOMAIN Inode(b, s) = {"bytes", "synced"}
         /\ Inode(b, s) # NoFile
<1>1. Inode(b, s).bytes = b /\ Inode(b, s).synced = s /\ DOMAIN Inode(b, s) = {"bytes", "synced"}
  BY DEF Inode
<1>2. "bytes" \notin DOMAIN NoFile
  BY DEF NoFile
<1> QED BY <1>1, <1>2

\* A log that is stored is a file of known frames.
LEMMA StoredIsKnown ==
  ASSUME NEW log, NEW logs, log \in logs, Chained(log)
  PROVE  KnownFile(Inode(log, TRUE), logs)
<1>1. ASSUME NEW i \in 1 .. Len(log) PROVE Known(log[i], logs)
  <2>1. log[i] = [body |-> log[i].body, frame_hash |-> log[i].frame_hash]
    BY ChainedFrames
  <2> QED BY <2>1 DEF Known
<1> QED BY <1>1, InodeFields DEF KnownFile, Chained

\* The kernel's fsync has run for it: a crash does not touch it.
LEMMA KnownSurvivesCrash ==
  ASSUME NEW inode, NEW logs, KnownFile(inode, logs)
  PROVE  Torn(inode) = {inode}
<1>1. inode = NoFile \/ inode.synced
  BY InodeFields DEF KnownFile
<1> QED BY <1>1, Zenon DEF Torn

\* An edit leaves the digest of the frame, or takes it away.
LEMMA EditedIsKnown ==
  ASSUME NEW f, NEW logs, Known(f, logs), f # Garbage, NEW e \in Edited(f)
  PROVE  Known(e, logs)
<1>1. e = Garbage \/ \E b : e = [body |-> b, frame_hash |-> Genesis] \/ e = [body |-> b, frame_hash |-> f.frame_hash]
  <2>1. \/ e = Garbage \/ e = [body |-> f.body, frame_hash |-> Genesis]
        \/ \E meta, p, h, prev : e = Rewritten(f, meta, p, h, prev)
    BY DEF Edited
  <2>2. \A meta, p, h, prev : \E b : Rewritten(f, meta, p, h, prev) = [body |-> b, frame_hash |-> f.frame_hash]
    BY Zenon DEF Rewritten
  <2> QED BY <2>1, <2>2, Zenon
<1>2. CASE e = Garbage
  BY <1>2 DEF Known
<1>3. ASSUME NEW b, e = [body |-> b, frame_hash |-> Genesis] PROVE Known(e, logs)
  <2>1. e.frame_hash = Genesis /\ e.body = b
    BY <1>3
  <2> QED BY <1>3, <2>1 DEF Known
<1>4. ASSUME NEW b, e = [body |-> b, frame_hash |-> f.frame_hash] PROVE Known(e, logs)
  <2>1. e.frame_hash = f.frame_hash /\ e.body = b
    BY <1>4
  <2> QED BY <1>4, <2>1 DEF Known
<1> QED BY <1>1, <1>2, <1>3, <1>4

LEMMA DamagedIsKnown ==
  ASSUME NEW b, NEW logs, IsSequence(b), \A i \in 1 .. Len(b) : Known(b[i], logs), NEW d \in Damaged(b)
  PROVE  IsSequence(d) /\ \A i \in 1 .. Len(d) : Known(d[i], logs)
<1> DEFINE K == Contents(b) \union {Garbage} \union UNION {Edited(f) : f \in Contents(b) \ {Garbage}}
           Cut(i) == SubSeq(b, 1, i - 1)
           Rest(i) == SubSeq(b, i + 1, Len(b))
<1>1. \A f \in K : Known(f, logs)
  <2>1. \A f \in Contents(b) : Known(f, logs)
    BY DEF Contents
  <2>2. Known(Garbage, logs)
    BY DEF Known
  <2>3. \A f \in Contents(b) \ {Garbage} : \A e \in Edited(f) : Known(e, logs)
    BY <2>1, EditedIsKnown
  <2> QED BY <2>1, <2>2, <2>3
<1>2. Len(b) \in Nat /\ \A i \in 1 .. Len(b) : b[i] \in Contents(b) /\ b[i] \in K
  BY LenProperties DEF IsSequence, Contents
<1>3. Garbage \in K /\ \A i \in 1 .. Len(b) : b[i] # Garbage => Edited(b[i]) \subseteq K
  BY <1>2
<1> HIDE DEF K
<1>4. ASSUME NEW i \in 1 .. Len(b) PROVE Cut(i) \in Seq(K)
  <2>1. i - 1 \in Int /\ \A k \in 1 .. (i - 1) : b[k] \in K
    BY <1>2
  <2> QED BY <2>1, SubSeqProperties
<1>5. ASSUME NEW i \in 1 .. Len(b) PROVE Rest(i) \in Seq(K)
  <2>1. i + 1 \in Int /\ Len(b) \in Int /\ \A k \in (i + 1) .. Len(b) : b[k] \in K
    BY <1>2
  <2> QED BY <2>1, SubSeqProperties
<1>6. ASSUME NEW x \in K, NEW y \in K PROVE <<x>> \in Seq(K) /\ <<x, y>> \in Seq(K)
  OBVIOUS
<1>7. \/ \E i \in 1 .. Len(b) : b[i] # Garbage /\ \E f \in Edited(b[i]) : d = Cut(i) \o <<f>> \o Rest(i)
      \/ \E i \in 1 .. Len(b) : \/ d = Cut(i) \o Rest(i) \/ d = Cut(i) \o <<b[i], b[i]>> \o Rest(i)
                                \/ d = Cut(i) \/ d = Append(Cut(i), Garbage)
      \/ \E i \in 1 .. (Len(b) - 1) : d = Cut(i) \o <<b[i + 1], b[i]>> \o Rest(i + 1)
  <2> HIDE DEF Cut, Rest
  <2> DEFINE Frames == {i \in 1 .. Len(b) : b[i] # Garbage}
  <2>1. \/ d \in {Cut(i) \o Rest(i) : i \in Frames} \/ d \in {Cut(i) : i \in Frames}
        \/ d \in {Append(Cut(i), Garbage) : i \in Frames}
        \/ d \in {Cut(i) \o <<b[i], b[i]>> \o Rest(i) : i \in Frames}
        \/ d \in UNION {{Cut(i) \o <<f>> \o Rest(i) : f \in Edited(b[i])} : i \in Frames}
        \/ d \in {Cut(i) \o <<b[i + 1], b[i]>> \o Rest(i + 1) : i \in 1 .. Len(b) - 1}
    BY Zenon DEF Damaged, Cut, Rest
  <2> QED BY <2>1, Zenon
<1> HIDE DEF Cut, Rest
<1>8. d \in Seq(K)
  <2>1. ASSUME NEW i \in 1 .. Len(b), b[i] # Garbage, NEW f \in Edited(b[i]), d = Cut(i) \o <<f>> \o Rest(i)
        PROVE  d \in Seq(K)
    <3>1. f \in K
      BY <2>1, <1>3
    <3> QED BY <2>1, <3>1, <1>4, <1>5, <1>6, ConcatProperties
  <2>2. ASSUME NEW i \in 1 .. Len(b), d = Cut(i) \o Rest(i) PROVE d \in Seq(K)
    BY <2>2, <1>4, <1>5, ConcatProperties
  <2>3. ASSUME NEW i \in 1 .. Len(b), d = Cut(i) \o <<b[i], b[i]>> \o Rest(i) PROVE d \in Seq(K)
    BY <2>3, <1>2, <1>4, <1>5, <1>6, ConcatProperties
  <2>4. ASSUME NEW i \in 1 .. Len(b), d = Cut(i) \/ d = Append(Cut(i), Garbage) PROVE d \in Seq(K)
    BY <2>4, <1>3, <1>4
  <2>5. ASSUME NEW i \in 1 .. (Len(b) - 1), d = Cut(i) \o <<b[i + 1], b[i]>> \o Rest(i + 1) PROVE d \in Seq(K)
    <3>1. i \in 1 .. Len(b) /\ i + 1 \in 1 .. Len(b)
      BY <1>2
    <3>2. <<b[i + 1], b[i]>> \in Seq(K)
      BY <3>1, <1>2, <1>6
    <3> QED BY <2>5, <3>1, <3>2, <1>4, <1>5, ConcatProperties
  <2> QED BY <1>7, <2>1, <2>2, <2>3, <2>4, <2>5
<1>9. IsSequence(d) /\ Contents(d) \subseteq K
  BY <1>8, SequenceOf
<1> QED BY <1>1, <1>9 DEF Contents

\* What verifies of a file is the beginning of a log that was stored.
LEMMA ReadIsWritten ==
  ASSUME NEW bytes, NEW logs, IsSequence(bytes), logs # {},
         \A i \in 1 .. Len(bytes) : Known(bytes[i], logs),
         \A log \in logs : Chained(log), NEW n \in 0 .. Len(bytes), Sound(bytes, n)
  PROVE  \E log \in logs :
           n \in 0 .. Len(log) /\ (\A i \in 1 .. n : bytes[i] = log[i]) /\ SubSeq(bytes, 1, n) = SubSeq(log, 1, n)
<1>0. Len(bytes) \in Nat /\ \A log \in logs : Len(log) \in Nat
  BY LenProperties DEF Chained, IsSequence
<1>1. ASSUME NEW log \in logs, n \in 0 .. Len(log), \A i \in 1 .. n : bytes[i] = log[i]
      PROVE  SubSeq(bytes, 1, n) = SubSeq(log, 1, n)
  <2> DEFINE S == Contents(bytes) \union Contents(log)
  <2>1. \A i \in 1 .. n : bytes[i] \in S /\ log[i] \in S
    BY <1>0, <1>1 DEF Contents
  <2> HIDE DEF S
  <2>2. n \in Int /\ 1 \in Int /\ (1 <= n \/ n = 0)
    BY <1>0
  <2>3. /\ SubSeq(bytes, 1, n) \in Seq(S) /\ SubSeq(log, 1, n) \in Seq(S)
        /\ Len(SubSeq(bytes, 1, n)) = n /\ Len(SubSeq(log, 1, n)) = n
        /\ \A i \in 1 .. n : SubSeq(bytes, 1, n)[i] = bytes[i] /\ SubSeq(log, 1, n)[i] = log[i]
    BY <2>1, <2>2, SubSeqProperties
  <2> QED BY <2>3, <1>1, SeqEqual
<1>2. CASE n = 0
  <2>1. PICK log : log \in logs
    OBVIOUS
  <2>2. n \in 0 .. Len(log) /\ \A i \in 1 .. n : bytes[i] = log[i]
    BY <1>0, <1>2, <2>1
  <2> QED BY <2>1, <2>2, <1>1
<1>3. CASE n # 0
  <2>1. ASSUME NEW i \in 1 .. n
        PROVE  /\ bytes[i].body.prev_hash = Before(bytes, i)
               /\ bytes[i] = [body |-> bytes[i].body, frame_hash |-> Hash(bytes[i].body)]
               /\ bytes[i].frame_hash = Hash(bytes[i].body)
               /\ \E log \in logs : \E j \in 1 .. Len(log) : bytes[i].frame_hash = log[j].frame_hash
    <3>1. i \in 1 .. Len(bytes)
      BY <1>0
    <3>2. /\ bytes[i] # Garbage /\ Hash(bytes[i].body) = bytes[i].frame_hash
          /\ bytes[i].body.prev_hash = Before(bytes, i)
      BY <3>1, UnbrokenFrame DEF Sound
    <3>3. bytes[i].frame_hash # Genesis
      BY <3>2, HashIsInjective
    <3>4. /\ bytes[i] = [body |-> bytes[i].body, frame_hash |-> bytes[i].frame_hash]
          /\ \E log \in logs : \E j \in 1 .. Len(log) : bytes[i].frame_hash = log[j].frame_hash
      <4>1. Known(bytes[i], logs)
        BY <3>1
      <4> QED BY <3>2, <3>3, <4>1, Zenon DEF Known
    <3>5. bytes[i] = [body |-> bytes[i].body, frame_hash |-> Hash(bytes[i].body)]
      BY <3>2, <3>4, Zenon
    <3> QED BY <3>2, <3>4, <3>5, Zenon
  <2>2. Linked(bytes, n)
    BY <2>1 DEF Linked
  <2>3. n \in Nat /\ n >= 1 /\ n \in 1 .. n
    BY <1>0, <1>3
  <2>4. PICK log \in logs : \E j \in 1 .. Len(log) : bytes[n].frame_hash = log[j].frame_hash
    BY <2>1, <2>3
  <2>5. PICK j \in 1 .. Len(log) : bytes[n].frame_hash = log[j].frame_hash
    BY <2>4
  <2>6. bytes[n] = log[j]
    <3>1. log[j] = [body |-> log[j].body, frame_hash |-> Hash(log[j].body)] /\ log[j].frame_hash = Hash(log[j].body)
      BY ChainedFrames
    <3>2. Hash(bytes[n].body) = Hash(log[j].body)
      BY <3>1, <2>1, <2>3, <2>5, Zenon
    <3>3. bytes[n].body = log[j].body
      BY <3>2, HashIsInjective, Zenon
    <3> QED BY <3>1, <3>3, <2>1, <2>3, Zenon
  <2>7. j \in Nat /\ j >= 1 /\ j \in 0 .. Len(log)
    BY <1>0
  <2>8. Linked(log, j)
    BY <2>7, ChainedIsLinked
  <2>9. n = j /\ \A i \in 1 .. n : bytes[i] = log[i]
    BY <2>2, <2>3, <2>6, <2>7, <2>8, ChainsAgree
  <2> QED BY <2>7, <2>9, <1>1
<1> QED BY <1>2, <1>3

-----------------------------------------------------------------------------
(* The log tells the truth.                                                *)

Shaped(inode) == inode = NoFile \/ \E b : \E s \in BOOLEAN : inode = Inode(b, s)

\* Beside the invariant of the stores: every log is a chain, every frame of
\* the file carries a digest that was written, or none.
LogInv ==
  /\ IInv
  /\ Chained(mem) /\ \A log \in stored : Chained(log)
  /\ KnownFile(path, stored) /\ KnownFile(durable, stored) /\ Shaped(temp)
  /\ pc = "write" => temp # NoFile
  /\ result \in {None, "ok", "error", "refused"} /\ faults \in 0 .. MaxFaults

LEMMA LogInitially == Init => LogInv
<1> SUFFICES ASSUME Init PROVE LogInv
  OBVIOUS
<1>1. Chained(<< >>)
  BY EmptySeq DEF Chained, IsSequence, Contents
<1> QED BY <1>1, InitIInv, LogAssumption DEF Init, LogInv, KnownFile, Shaped

LEMMA LogStep == LogInv /\ [Next]_vars => LogInv'
<1> SUFFICES ASSUME LogInv, [Next]_vars PROVE LogInv'
  OBVIOUS
<1>0. IInv'
  BY NextIInv DEF LogInv
<1> USE DEF LogInv
<1>1. ASSUME NEW meta \in Metas, NEW payload \in Payloads, AppendFrame(meta, payload)
      PROVE  LogInv'
  <2>1. Chained(mem')
    BY <1>1, ChainedAppend DEF AppendFrame
  <2> QED BY <1>0, <1>1, <2>1 DEF AppendFrame
<1>2. CASE StoreRefuse
  BY <1>0, <1>2 DEF StoreRefuse
<1>3. CASE StoreBegin
  <2>1. KnownFile(path', stored') /\ KnownFile(durable', stored')
    BY <1>3, KnownGrows DEF StoreBegin
  <2>2. Shaped(temp') /\ pc' # "write"
    BY <1>3 DEF StoreBegin, Shaped
  <2> QED BY <1>0, <1>3, <2>1, <2>2 DEF StoreBegin
<1>4. CASE StoreCreate
  <2>1. Shaped(temp') /\ temp' # NoFile
    BY <1>4, InodeFields DEF StoreCreate, Shaped
  <2> QED BY <1>0, <1>4, <2>1 DEF StoreCreate
<1>5. CASE StoreWrite
  <2>1. Shaped(temp') /\ pc' # "write"
    BY <1>5 DEF StoreWrite, Shaped
  <2> QED BY <1>0, <1>5, <2>1 DEF StoreWrite
<1>6. CASE StoreSync
  <2>1. pc' = "rename" /\ UNCHANGED <<mem, path, durable, result, faults, stored>>
    BY <1>6 DEF StoreSync
  <2>2. Shaped(temp')
    BY <1>0, <2>1 DEF IInv, Shaped
  <2> QED BY <1>0, <2>1, <2>2
<1>7. CASE StoreRename
  <2>1. temp = Inode(mem, TRUE) /\ mem \in stored
    BY <1>7 DEF StoreRename, IInv, Storing
  <2>2. KnownFile(path', stored')
    BY <1>7, <2>1, StoredIsKnown DEF StoreRename
  <2> QED BY <1>0, <1>7, <2>2 DEF StoreRename, Shaped
<1>8. CASE StoreSyncDir
  BY <1>0, <1>8 DEF StoreSyncDir
<1>9. CASE StoreFail
  BY <1>0, <1>9 DEF StoreFail, Shaped
<1>10. CASE Crash
  <2>1. KnownFile(path', stored') /\ KnownFile(durable', stored')
    <3>1. path' \in {path} \union {durable} /\ durable' = path' /\ stored' = stored
      BY <1>10, KnownSurvivesCrash DEF Crash
    <3> QED BY <3>1
  <2>2. Shaped(temp')
    <3>1. temp' \in Torn(temp)
      BY <1>10 DEF Crash
    <3>2. temp' = temp \/ \E b : temp' = Inode(b, TRUE)
      BY <3>1, Zenon DEF Torn
    <3> QED BY <3>2 DEF Shaped
  <2>3. Chained(mem')
    BY <1>10, EmptySeq DEF Crash, Chained, IsSequence, Contents
  <2> QED BY <1>0, <1>10, <2>1, <2>2, <2>3 DEF Crash
<1>11. CASE Fault
  <2>1. PICK b \in Damaged(path.bytes) : path' = Inode(b, TRUE)
    BY <1>11 DEF Fault
  <2>2. IsSequence(path.bytes) /\ stored # {} /\ \A i \in 1 .. Len(path.bytes) : Known(path.bytes[i], stored)
    BY <1>11 DEF Fault, KnownFile
  <2>3. IsSequence(b) /\ \A i \in 1 .. Len(b) : Known(b[i], stored)
    BY <2>2, DamagedIsKnown
  <2>4. path'.bytes = b
    BY <2>1, InodeFields
  <2>5. KnownFile(path', stored)
    BY <2>1, <2>2, <2>3, <2>4 DEF KnownFile
  <2>6. faults' \in 0 .. MaxFaults
    BY <1>11, LogAssumption DEF Fault
  <2> QED BY <1>0, <1>11, <2>5, <2>6 DEF Fault
<1>12. CASE UNCHANGED vars
  BY <1>0, <1>12 DEF vars
<1> QED
  BY <1>1, <1>2, <1>3, <1>4, <1>5, <1>6, <1>7, <1>8, <1>9, <1>10, <1>11, <1>12 DEF Next, Store

LEMMA LogShapes == LogInv => TypeOK
<1> SUFFICES ASSUME LogInv PROVE TypeOK
  OBVIOUS
<1>1. \A f \in {mem[i] : i \in 1 .. Len(mem)} : f.body.meta \in Metas /\ f.body.payload \in Payloads
  BY ChainedFrames DEF LogInv
<1>2. pc \in {"write", "sync", "rename"} => temp # NoFile
  BY InodeFields DEF LogInv, IInv
<1>3. \A inode \in {path, temp, durable} \ {NoFile} : \E b : \E s \in BOOLEAN : inode = Inode(b, s)
  BY DEF LogInv, KnownFile, Shaped
<1>4. \A inode \in {path, temp, durable} \ {NoFile} : DOMAIN inode = {"bytes", "synced"} /\ inode.synced \in BOOLEAN
  BY <1>3, InodeFields
<1> QED BY <1>1, <1>2, <1>4 DEF LogInv, IInv, Storing, TypeOK

LEMMA RefusalsAreForSequence == LogInv => RefusedOnlyForSequence
<1> SUFFICES ASSUME LogInv PROVE RefusedOnlyForSequence
  OBVIOUS
<1>1. IsSequence(mem) /\ Chained(mem)
  BY DEF LogInv, Chained
<1>2. PICK n \in 0 .. Len(mem) : Len(Walk(mem)) = n
  BY <1>1, WalkStops
<1>3. Len(mem) \in Nat
  BY <1>1, LenProperties DEF IsSequence
<1>4. Verify(mem).reason = IF n = Len(mem) THEN None ELSE BreakReason(mem, n + 1)
  BY <1>2 DEF Verify
<1>5. n # Len(mem) => n + 1 \in 1 .. Len(mem)
  BY <1>3
<1> QED BY <1>1, <1>4, <1>5, ChainedBreaks DEF RefusedOnlyForSequence

\* What the readers make of the file.
LEMMA FileReadsAsWritten ==
  ASSUME LogInv, path # NoFile
  PROVE  /\ IsSequence(path.bytes)
         /\ \E log \in stored : \E n \in 0 .. Len(log) :
              /\ Walk(path.bytes) = SubSeq(log, 1, n) /\ Walk(SubSeq(log, 1, n)) = SubSeq(log, 1, n)
              /\ Len(Walk(path.bytes)) = n /\ \A i \in 1 .. n : Walk(path.bytes)[i] = log[i]
<1>1. /\ IsSequence(path.bytes) /\ stored # {} /\ \A log \in stored : Chained(log)
      /\ \A i \in 1 .. Len(path.bytes) : Known(path.bytes[i], stored)
  BY DEF LogInv, KnownFile
<1>2. PICK n \in 0 .. Len(path.bytes) :
        /\ Walk(path.bytes) = SubSeq(path.bytes, 1, n) /\ Len(Walk(path.bytes)) = n
        /\ \A i \in 1 .. n : Walk(path.bytes)[i] = path.bytes[i]
        /\ Sound(path.bytes, n)
  BY <1>1, WalkStops
<1>3. PICK log \in stored :
        n \in 0 .. Len(log) /\ (\A i \in 1 .. n : path.bytes[i] = log[i])
        /\ SubSeq(path.bytes, 1, n) = SubSeq(log, 1, n)
  BY <1>1, <1>2, ReadIsWritten
<1>4. IsSequence(log) /\ IsIntact(Verify(log)) /\ Len(log) \in Nat
  BY LenProperties DEF LogInv, IInv, Chained, IsSequence
<1>5. Sound(log, Len(log))
  BY <1>4, IntactIsSound
<1>6. \A i \in 1 .. n : i \in 1 .. Len(log)
  BY <1>3, <1>4
<1>7. Sound(log, n)
  BY <1>5, <1>6 DEF Sound
<1>8. Walk(SubSeq(log, 1, n)) = SubSeq(log, 1, n)
  BY <1>3, <1>4, <1>7, PrefixIsSound
<1> QED BY <1>1, <1>2, <1>3, <1>8

LEMMA ReportsAreWritten == LogInv => ReportsOnlyWritten
<1> SUFFICES ASSUME LogInv, path # NoFile
             PROVE  \E log \in stored : \E n \in 0 .. Len(log) :
                      /\ ExportJsonl(path.bytes) = ExportJsonl(SubSeq(log, 1, n))
                      /\ Inspect(path.bytes) = Inspect(SubSeq(log, 1, n))
  BY DEF ReportsOnlyWritten
<1>0. PICK log \in stored : \E n \in 0 .. Len(log) :
        Walk(path.bytes) = SubSeq(log, 1, n) /\ Walk(SubSeq(log, 1, n)) = SubSeq(log, 1, n)
  BY FileReadsAsWritten
<1>1. PICK n \in 0 .. Len(log) :
        Walk(path.bytes) = SubSeq(log, 1, n) /\ Walk(SubSeq(log, 1, n)) = SubSeq(log, 1, n)
  BY <1>0
<1>2. ExportJsonl(path.bytes) = ExportJsonl(SubSeq(log, 1, n)) /\ Inspect(path.bytes) = Inspect(SubSeq(log, 1, n))
  BY <1>1, Zenon DEF ExportJsonl, Inspect
<1> QED BY <1>2

LEMMA ExportsAreGated == LogInv => ExportRespectsGates
<1> SUFFICES ASSUME LogInv, path # NoFile, NEW i \in 1 .. Len(ExportJsonl(path.bytes)),
                    ExportJsonl(path.bytes)[i].payload \in Payloads
             PROVE  \E log \in stored : \E j \in 1 .. Len(log) :
                      /\ log[j].body.payload = ExportJsonl(path.bytes)[i].payload
                      /\ ~ log[j].body.meta.redacted /\ log[j].body.meta.visible
  BY DEF ExportRespectsGates
<1> DEFINE w == Walk(path.bytes)
<1>0. PICK log \in stored : \E n \in 0 .. Len(log) : Len(w) = n /\ \A k \in 1 .. n : w[k] = log[k]
  BY FileReadsAsWritten
<1>1. PICK n \in 0 .. Len(log) : Len(w) = n /\ \A k \in 1 .. n : w[k] = log[k]
  BY <1>0
<1>2. Len(log) \in Nat
  BY LenProperties DEF LogInv, Chained, IsSequence
<1> HIDE DEF w
<1>3. Len(Lines(w)) = n /\ \A k \in 1 .. n : Lines(w)[k].payload = Shown(w[k])
  <2>1. n \in Nat /\ Len(w) = n
    BY <1>1, <1>2
  <2>2. Lines(w) = [k \in 1 .. n |-> [meta |-> w[k].body.meta, payload |-> Shown(w[k]),
                                      payload_hash |-> w[k].body.payload_hash]]
    BY <2>1, Zenon DEF Lines
  <2> QED BY <2>1, <2>2
<1>4. i \in 1 .. n /\ Shown(w[i]) \in Payloads /\ ExportJsonl(path.bytes)[i].payload = Shown(w[i])
  BY <1>3 DEF ExportJsonl, w
<1>5. Shown(w[i]) # "<redacted>" /\ Shown(w[i]) # "<internal>"
  BY <1>4, LogAssumption, Zenon DEF Masks
<1>6. ~w[i].body.meta.redacted /\ w[i].body.meta.visible /\ Shown(w[i]) = w[i].body.payload
  BY <1>5, Zenon DEF Shown
<1>7. i \in 1 .. Len(log) /\ w[i] = log[i]
  BY <1>1, <1>2, <1>4
<1> QED BY <1>4, <1>6, <1>7

LEMMA AnchorsAreExact == LogInv => AnchorIsExact
<1> SUFFICES ASSUME LogInv, path # NoFile, NEW log \in stored,
                    IsIntact(VerifyToHead(path.bytes, HeadHash(log)))
             PROVE  path.bytes = log
  BY DEF AnchorIsExact
<1> DEFINE b == path.bytes
<1>1. IsSequence(b) /\ IsSequence(log) /\ Chained(log)
  BY FileReadsAsWritten DEF LogInv, Chained
<1>2. IsIntact(Verify(b)) /\ HeadHash(b) = HeadHash(log)
  <2>1. Verify(b) = [frames |-> Verify(b).frames, reason |-> Verify(b).reason]
    BY DEF Verify
  <2>2. IsIntact(Verify(b)) /\ HeadHash(b) # HeadHash(log) => VerifyToHead(b, HeadHash(log)).reason = "HeadMismatch"
    BY <2>1 DEF VerifyToHead
  <2>3. ~(IsIntact(Verify(b)) /\ HeadHash(b) # HeadHash(log)) => VerifyToHead(b, HeadHash(log)) = Verify(b)
    BY Zenon DEF VerifyToHead
  <2>4. None # "HeadMismatch"
    BY LogAssumption
  <2> QED BY <2>2, <2>3, <2>4 DEF IsIntact
<1>3. Walk(b) = b
  BY <1>1, <1>2, IntactIsSound
<1>0. PICK other \in stored : \E n \in 0 .. Len(other) : Len(b) = n /\ \A i \in 1 .. n : b[i] = other[i]
  BY <1>3, FileReadsAsWritten
<1>4. PICK n \in 0 .. Len(other) : Len(b) = n /\ \A i \in 1 .. n : b[i] = other[i]
  BY <1>0
<1>5. Len(b) \in Nat /\ Len(log) \in Nat /\ Len(other) \in Nat /\ Chained(other)
  BY <1>1, LenProperties DEF LogInv, Chained, IsSequence
<1> HIDE DEF b
<1>6. (b = << >> <=> Len(b) = 0) /\ (log = << >> <=> Len(log) = 0)
  BY <1>1, EmptySeq DEF IsSequence
<1>7. Len(log) # 0 => HeadHash(log) = Hash(log[Len(log)].body) /\ Len(log) \in 1 .. Len(log)
  <2>1. Len(log) # 0 => Len(log) \in 1 .. Len(log)
    BY <1>5
  <2> QED BY <2>1, <1>1, <1>6, ChainedFrames DEF HeadHash
<1>8. Len(b) # 0 => /\ HeadHash(b) = Hash(other[n].body) /\ n \in 1 .. Len(other) /\ b[n] = other[n]
                    /\ n \in 1 .. n
  <2>1. Len(b) # 0 => n \in 1 .. Len(other) /\ n \in 1 .. n
    BY <1>4, <1>5
  <2>2. Len(b) # 0 => b[n] = other[n] /\ HeadHash(b) = b[Len(b)].frame_hash
    BY <2>1, <1>4, <1>6 DEF HeadHash
  <2>3. Len(b) # 0 => other[n].frame_hash = Hash(other[n].body)
    BY <2>1, <1>5, ChainedFrames
  <2> QED BY <2>1, <2>2, <2>3, <1>4
<1>9. Len(b) = 0 <=> Len(log) = 0
  BY <1>2, <1>6, <1>7, <1>8, HashIsInjective DEF HeadHash
<1>10. ASSUME Len(b) = 0 PROVE b = log
  BY <1>6, <1>9, <1>10
<1>11. ASSUME Len(b) # 0 PROVE b = log
  <2>1. other[n].body = log[Len(log)].body
    BY <1>2, <1>7, <1>8, <1>9, <1>11, HashIsInjective
  <2>2. other[n] = log[Len(log)]
    <3>1. other[n] = [body |-> other[n].body, frame_hash |-> Hash(other[n].body)]
      BY <1>5, <1>8, <1>11, ChainedFrames
    <3>2. log[Len(log)] = [body |-> log[Len(log)].body, frame_hash |-> Hash(log[Len(log)].body)]
      BY <1>1, <1>7, <1>9, <1>11, ChainedFrames
    <3> QED BY <2>1, <3>1, <3>2, Zenon
  <2>3. Linked(other, n) /\ Linked(log, Len(log))
    <3>1. n \in 0 .. Len(other) /\ Len(log) \in 0 .. Len(log)
      BY <1>5
    <3> QED BY <3>1, <1>1, <1>5, ChainedIsLinked
  <2>4. n \in Nat /\ n >= 1 /\ Len(log) >= 1
    BY <1>4, <1>5, <1>9, <1>11
  <2>5. n = Len(log) /\ \A i \in 1 .. n : other[i] = log[i]
    BY <2>2, <2>3, <2>4, <1>5, ChainsAgree
  <2>6. Len(b) = Len(log) /\ \A i \in 1 .. Len(b) : b[i] = log[i]
    BY <2>5, <1>4
  <2> DEFINE S == Contents(b) \union Contents(log)
  <2>7. b \in Seq(S) /\ log \in Seq(S)
    BY <1>1, SeqMonotonic DEF IsSequence
  <2> QED BY <2>6, <2>7, SeqEqual
<1> QED BY <1>10, <1>11 DEF b

(***************************************************************************)
(* For any frames, stores, crashes and damage: a store is refused for its  *)
(* sequence numbers only; what verifies of the file is the beginning of    *)
(* one log that was stored, so inspect and export report nothing edited,   *)
(* reordered, repeated or spliced, and show no payload that was framed as  *)
(* redacted or internal; and a file that verifies to the head of a stored  *)
(* log is that log (EventLog::append, walk, verify_to_head, inspect,       *)
(* export_jsonl). SHA-256 is taken to be collision free.                   *)
(***************************************************************************)
THEOREM LogTellsTheTruth == Spec => []LogIsHonest
<1>1. LogInv => LogIsHonest
  BY LogShapes, RefusalsAreForSequence, ReportsAreWritten, ExportsAreGated, AnchorsAreExact DEF LogIsHonest
<1> QED BY LogInitially, LogStep, <1>1, PTL DEF Spec

(***************************************************************************)
(* Induction over the numbers, with the set of the good ones as a value,   *)
(* and its use: a function given by its first value and a step exists.     *)
(***************************************************************************)
LEMMA NatSet ==
  ASSUME NEW T, 0 \in T, \A n \in Nat : n \in T => n + 1 \in T
  PROVE  \A n \in Nat : n \in T
<1> DEFINE B == {n \in Nat : n \notin T}
<1> SUFFICES ASSUME B # {} PROVE FALSE
  OBVIOUS
<1>1. PICK n \in B : \A m \in B : n <= m
  BY LeastNumber
<1>2. n \in Nat /\ n # 0 /\ n \notin T
  OBVIOUS
<1>3. n - 1 \in Nat /\ n - 1 \notin B
  <2> HIDE DEF B
  <2> QED BY <1>1, <1>2
<1>4. n - 1 \in T
  BY <1>3
<1>5. (n - 1) + 1 = n
  BY <1>2
<1> QED BY <1>2, <1>3, <1>4, <1>5

\* The same up to a bound.
LEMMA UpTo ==
  ASSUME NEW N \in Nat, NEW T, 0 \in T, \A n \in 1 .. N : n - 1 \in T => n \in T
  PROVE  \A n \in 0 .. N : n \in T
<1> DEFINE U == {n \in Nat : n <= N => n \in T}
<1>1. 0 \in U
  OBVIOUS
<1>2. ASSUME NEW n \in Nat, n \in U PROVE n + 1 \in U
  <2> SUFFICES ASSUME n + 1 <= N PROVE n + 1 \in T
    OBVIOUS
  <2>1. n + 1 \in 1 .. N /\ (n + 1) - 1 = n /\ n \in T
    BY <1>2
  <2> QED BY <2>1
<1>3. \A n \in Nat : n \in U
  <2> HIDE DEF U
  <2> QED BY <1>1, <1>2, NatSet
<1> QED BY <1>3

IsStep(g, N, S) == g \in [1 .. N -> [S -> S]]
Iterates(f, N, S, a, g) ==
  /\ f \in [0 .. N -> S] /\ f[0] = a
  /\ \A n \in 1 .. N : f[n] = g[n][f[n - 1]]

\* A function on 0 .. N is given by its first value and its steps.
LEMMA Recursion ==
  ASSUME NEW N \in Nat, NEW S, NEW a \in S, NEW g, IsStep(g, N, S)
  PROVE  \E f : Iterates(f, N, S, a, g)
<1> USE DEF IsStep
<1> DEFINE Good(k, f) == f[0] = a /\ \A n \in 1 .. k : f[n] = g[n][f[n - 1]]
           T == {k \in Nat : k <= N => \E f \in [0 .. k -> S] : Good(k, f)}
<1>1. 0 \in T
  <2>1. [i \in 0 .. 0 |-> a] \in [0 .. 0 -> S] /\ Good(0, [i \in 0 .. 0 |-> a])
    OBVIOUS
  <2> QED BY <2>1
<1>2. ASSUME NEW k \in Nat, k \in T PROVE k + 1 \in T
  <2> SUFFICES ASSUME k + 1 <= N PROVE \E f \in [0 .. k + 1 -> S] : Good(k + 1, f)
    OBVIOUS
  <2>1. PICK f \in [0 .. k -> S] : Good(k, f)
    BY <1>2
  <2> DEFINE h == [i \in 0 .. k + 1 |-> IF i = k + 1 THEN g[k + 1][f[k]] ELSE f[i]]
  <2>2. f[k] \in S /\ k + 1 \in 1 .. N
    OBVIOUS
  <2>3. g[k + 1][f[k]] \in S
    BY <2>2
  <2>4. h \in [0 .. k + 1 -> S]
    BY <2>3
  <2>5. h[0] = a
    BY <2>1
  <2>6. ASSUME NEW n \in 1 .. k + 1 PROVE h[n] = g[n][h[n - 1]]
    <3>1. CASE n = k + 1
      <4>1. h[n] = g[k + 1][f[k]] /\ h[n - 1] = f[k]
        BY <3>1
      <4> QED BY <3>1, <4>1
    <3>2. CASE n # k + 1
      <4>1. n \in 1 .. k /\ n - 1 \in 0 .. k
        BY <3>2
      <4>2. h[n] = f[n] /\ h[n - 1] = f[n - 1]
        BY <4>1
      <4> QED BY <4>1, <4>2, <2>1
    <3> QED BY <3>1, <3>2
  <2> QED BY <2>4, <2>5, <2>6
<1>3. N \in T
  <2> HIDE DEF T
  <2> QED BY <1>1, <1>2, NatSet
<1>4. PICK f \in [0 .. N -> S] : Good(N, f)
  BY <1>3
<1> QED BY <1>4 DEF Iterates


(***************************************************************************)
(* Redaction.                                                              *)
(***************************************************************************)
Visible == Symbols \union {Marker}
Secret == Seq(Symbols \ {Marker}) \ {<<>>}

\* A secret is a non-empty text without the marker.
LEMMA SecretIs ==
  ASSUME NEW n \in Secret
  PROVE  /\ n \in Seq(Symbols) /\ Len(n) \in Nat /\ Len(n) >= 1
         /\ \A k \in 1 .. Len(n) : n[k] # Marker /\ n[k] \in Symbols
BY DEF Secret

\* An occurrence, symbol by symbol.
LEMMA OccursIs ==
  ASSUME NEW S, NEW t \in Seq(S), NEW n \in Secret, NEW i \in Nat, i >= 1
  PROVE  OccursAt(n, t, i) <=> i + Len(n) - 1 <= Len(t) /\ \A k \in 1 .. Len(n) : t[i + k - 1] = n[k]
<1> DEFINE L == Len(n)
           s == SubSeq(t, i, i + L - 1)
<1>1. L \in Nat /\ L >= 1 /\ n \in Seq(Symbols) /\ Len(t) \in Nat
  BY SecretIs
<1>2. ASSUME i + L - 1 <= Len(t)
      PROVE  s \in Seq(S) /\ Len(s) = L /\ \A k \in 1 .. L : s[k] = t[i + k - 1]
  <2> HIDE DEF L
  <2>1. i \in Int /\ i + L - 1 \in Int /\ i <= i + L - 1 /\ (i + L - 1) - i + 1 = L
    BY <1>1
  <2>2. \A k \in i .. i + L - 1 : k \in 1 .. Len(t)
    BY <1>1, <1>2
  <2>3. \A k \in i .. i + L - 1 : t[k] \in S
    BY <2>2
  <2>4. /\ s \in Seq(S) /\ Len(s) = (i + L - 1) - i + 1
        /\ \A k \in 1 .. (i + L - 1) - i + 1 : s[k] = t[i + k - 1]
    BY <2>1, <2>3, SubSeqProperties
  <2> QED BY <2>1, <2>4
<1>3. ASSUME i + L - 1 <= Len(t), \A k \in 1 .. L : t[i + k - 1] = n[k]
      PROVE  s = n
  <2>1. s \in Seq(S) /\ Len(s) = L /\ \A k \in 1 .. L : s[k] = t[i + k - 1]
    BY <1>2, <1>3
  <2>2. \A k \in 1 .. Len(s) : s[k] = n[k]
    BY <1>3, <2>1
  <2> HIDE DEF s
  <2> QED BY <1>1, <2>1, <2>2, SeqEqual
<1>4. ASSUME i + L - 1 <= Len(t), s = n
      PROVE  \A k \in 1 .. L : t[i + k - 1] = n[k]
  <2> HIDE DEF L
  <2>1. \A k \in 1 .. L : s[k] = t[i + k - 1]
    BY <1>2, <1>4
  <2> HIDE DEF s
  <2> QED BY <1>4, <2>1
<1> QED BY <1>3, <1>4 DEF OccursAt

(* Where the search goes on. *)
LEMMA FreeIs ==
  ASSUME NEW t \in Seq(Symbols), NEW n \in Secret
  PROVE  LET f == FreeFrom(n, t)
         IN  /\ f \in [0 .. Len(t) -> Nat] /\ f[0] = 1
             /\ \A i \in 1 .. Len(t) :
                  f[i] = IF i >= f[i - 1] /\ OccursAt(n, t, i) THEN i + Len(n) ELSE f[i - 1]
<1> DEFINE N == Len(t)
           Succ(i, x) == IF i >= x /\ OccursAt(n, t, i) THEN i + Len(n) ELSE x
           g == [i \in 1 .. N |-> [x \in Nat |-> Succ(i, x)]]
           Eq(h) == h = [i \in 0 .. N |-> IF i = 0 THEN 1 ELSE Succ(i, h[i - 1])]
           f == CHOOSE h : Eq(h)
<1>1. N \in Nat /\ Len(n) \in Nat
  BY SecretIs
<1>2. \A i \in 1 .. N, x \in Nat : Succ(i, x) \in Nat
  BY <1>1
<1>3. FreeFrom(n, t) = f
  BY DEF FreeFrom
<1> HIDE DEF N, Succ
<1>4. IsStep(g, N, Nat)
  BY <1>2 DEF IsStep
<1> HIDE DEF g
<1>5. PICK h : Iterates(h, N, Nat, 1, g)
  <2> HIDE DEF f, Eq
  <2>1. 1 \in Nat
    OBVIOUS
  <2> QED BY <1>1, <1>4, <2>1, Recursion
<1>6. \A i \in 1 .. N : i - 1 \in 0 .. N /\ i # 0 /\ i \in 0 .. N
  BY <1>1
<1>7. Eq(h)
  <2>1. \A i \in 1 .. N : h[i] = Succ(i, h[i - 1])
    BY <1>5, <1>6 DEF g, Iterates
  <2>2. \A i \in 0 .. N : i # 0 => i \in 1 .. N
    BY <1>1
  <2>3. \A i \in 0 .. N : h[i] = IF i = 0 THEN 1 ELSE Succ(i, h[i - 1])
    BY <1>5, <2>1, <2>2 DEF Iterates
  <2> QED BY <1>5, <2>3 DEF Iterates
<1>8. Eq(f)
  <2> HIDE DEF Eq
  <2> QED BY <1>7
<1> HIDE DEF f
<1>9. f[0] = 1 /\ \A i \in 1 .. N : f[i] = Succ(i, f[i - 1])
  <2>1. 0 \in 0 .. N
    BY <1>1
  <2>2. \A i \in 0 .. N : f[i] = IF i = 0 THEN 1 ELSE Succ(i, f[i - 1])
    BY <1>8
  <2> HIDE DEF Eq
  <2> QED BY <1>6, <2>1, <2>2
<1>10. \A i \in 0 .. N : f[i] \in Nat
  <2> DEFINE T == {i \in 0 .. N : f[i] \in Nat}
  <2>1. 0 \in T
    BY <1>1, <1>9
  <2>2. ASSUME NEW i \in 1 .. N, i - 1 \in T PROVE i \in T
    BY <1>2, <1>6, <1>9, <2>2
  <2> HIDE DEF T
  <2>3. \A i \in 0 .. N : i \in T
    BY <1>1, <2>1, <2>2, UpTo
  <2> QED BY <2>3 DEF T
<1>11. f \in [0 .. N -> Nat]
  BY <1>8, <1>10
<1> QED BY <1>3, <1>9, <1>11 DEF N, Succ

\* Every occurrence of a secret begins inside a match.
LEMMA OccurrenceIsMatched ==
  ASSUME NEW t \in Seq(Symbols), NEW n \in Secret, NEW i \in 1 .. Len(t), OccursAt(n, t, i)
  PROVE  \E m \in Matches(n, t) : m <= i /\ i < m + Len(n)
<1> DEFINE f == FreeFrom(n, t)
           M == Matches(n, t)
<1>1. Len(t) \in Nat /\ Len(n) \in Nat /\ Len(n) >= 1
  BY SecretIs
<1>2. /\ f \in [0 .. Len(t) -> Nat] /\ f[0] = 1
      /\ \A k \in 1 .. Len(t) :
           f[k] = IF k >= f[k - 1] /\ OccursAt(n, t, k) THEN k + Len(n) ELSE f[k - 1]
  BY FreeIs
<1>3. \A k \in 1 .. Len(t) : k \in M <=> k >= f[k - 1] /\ OccursAt(n, t, k)
  BY DEF Matches
<1> HIDE DEF f, M
<1> DEFINE T == {k \in 0 .. Len(t) : f[k] = 1 \/ \E m \in M : m \in Nat /\ m <= k /\ f[k] = m + Len(n)}
<1>4. \A k \in 0 .. Len(t) : k \in T
  <2>1. 0 \in T
    BY <1>1, <1>2
  <2>2. ASSUME NEW k \in 1 .. Len(t), k - 1 \in T PROVE k \in T
    <3>1. CASE k >= f[k - 1] /\ OccursAt(n, t, k)
      <4>1. k \in M /\ f[k] = k + Len(n) /\ k \in Nat /\ k <= k
        BY <1>2, <1>3, <3>1
      <4> QED BY <4>1
    <3>2. CASE ~(k >= f[k - 1] /\ OccursAt(n, t, k))
      <4>1. f[k] = f[k - 1] /\ \A m \in Nat : m <= k - 1 => m <= k
        BY <1>2, <3>2
      <4> QED BY <2>2, <4>1
    <3> QED BY <3>1, <3>2
  <2> HIDE DEF T
  <2> QED BY <1>1, <2>1, <2>2, UpTo
<1>5. CASE i >= f[i - 1]
  <2>1. i \in M
    BY <1>3, <1>5
  <2>2. i <= i /\ i < i + Len(n)
    BY <1>1
  <2> QED BY <2>1, <2>2 DEF M
<1>6. CASE i < f[i - 1]
  <2>1. i - 1 \in 0 .. Len(t) /\ i \in Nat /\ i >= 1
    BY <1>1
  <2>2. f[i - 1] # 1
    BY <1>6, <2>1
  <2>3. PICK m \in M : m \in Nat /\ m <= i - 1 /\ f[i - 1] = m + Len(n)
    BY <1>4, <2>1, <2>2
  <2>4. m <= i /\ i < m + Len(n)
    BY <1>6, <2>1, <2>3
  <2> QED BY <2>3, <2>4 DEF M
<1>7. f[i - 1] \in Nat /\ i \in Nat
  <2>1. i - 1 \in 0 .. Len(t) /\ i \in Nat
    BY <1>1
  <2> HIDE DEF T
  <2> QED BY <1>2, <2>1
<1> QED BY <1>5, <1>6, <1>7

(* What is left of a text when the positions of cut are taken out. *)
IsRedaction(o, t, cut) ==
  /\ t \in Seq(Symbols) /\ o \in [0 .. Len(t) -> Seq(Visible)] /\ o[0] = <<>>
  /\ \A i \in 1 .. Len(t) :
       o[i] = IF i \notin cut THEN Append(o[i - 1], t[i])
              ELSE IF i > 1 /\ i - 1 \in cut THEN o[i - 1] ELSE Append(o[i - 1], Marker)

\* Redacted is the recursive function its definition reads as.
LEMMA RedactedIs ==
  ASSUME NEW t \in Seq(Symbols), NEW cut
  PROVE  IsRedaction(Redacted(t, cut), t, cut)
<1> DEFINE N == Len(t)
           S == Seq(Visible)
           Succ(i, x) == IF i \notin cut THEN Append(x, t[i])
                         ELSE IF i > 1 /\ i - 1 \in cut THEN x ELSE Append(x, Marker)
           g == [i \in 1 .. N |-> [x \in S |-> Succ(i, x)]]
           Eq(h) == h = [i \in 0 .. N |-> IF i = 0 THEN <<>> ELSE Succ(i, h[i - 1])]
           f == CHOOSE h : Eq(h)
<1>1. N \in Nat /\ <<>> \in S
  OBVIOUS
<1>2. \A i \in 1 .. N, x \in S : Succ(i, x) \in S
  <2>1. \A i \in 1 .. N : t[i] \in Visible
    BY DEF Visible
  <2>2. Marker \in Visible
    BY DEF Visible
  <2>3. \A x \in S, e \in Visible : Append(x, e) \in S
    OBVIOUS
  <2> QED BY <2>1, <2>2, <2>3
<1>3. Redacted(t, cut) = f
  BY DEF Redacted
<1> HIDE DEF N, Succ, S
<1>4. IsStep(g, N, S)
  BY <1>2 DEF IsStep
<1> HIDE DEF g
<1>5. PICK h : Iterates(h, N, S, <<>>, g)
  <2> HIDE DEF f, Eq
  <2> QED BY <1>1, <1>4, Recursion
<1>6. \A i \in 1 .. N : i - 1 \in 0 .. N /\ i # 0 /\ i \in 0 .. N
  BY <1>1
<1>7. Eq(h)
  <2>1. \A i \in 1 .. N : h[i] = Succ(i, h[i - 1])
    BY <1>5, <1>6 DEF g, Iterates
  <2>2. \A i \in 0 .. N : i # 0 => i \in 1 .. N
    BY <1>1
  <2>3. \A i \in 0 .. N : h[i] = IF i = 0 THEN <<>> ELSE Succ(i, h[i - 1])
    BY <1>5, <2>1, <2>2 DEF Iterates
  <2> QED BY <1>5, <2>3 DEF Iterates
<1>8. Eq(f)
  <2> HIDE DEF Eq
  <2> QED BY <1>7
<1> HIDE DEF f
<1>9. f[0] = <<>> /\ \A i \in 1 .. N : f[i] = Succ(i, f[i - 1])
  <2>1. 0 \in 0 .. N
    BY <1>1
  <2>2. \A i \in 0 .. N : f[i] = IF i = 0 THEN <<>> ELSE Succ(i, f[i - 1])
    BY <1>8
  <2> HIDE DEF Eq
  <2> QED BY <1>6, <2>1, <2>2
<1>10. \A i \in 0 .. N : f[i] \in S
  <2> DEFINE T == {i \in 0 .. N : f[i] \in S}
  <2>1. 0 \in T
    BY <1>1, <1>9
  <2>2. ASSUME NEW i \in 1 .. N, i - 1 \in T PROVE i \in T
    BY <1>2, <1>6, <1>9, <2>2
  <2> HIDE DEF T
  <2>3. \A i \in 0 .. N : i \in T
    BY <1>1, <2>1, <2>2, UpTo
  <2> QED BY <2>3 DEF T
<1>11. f \in [0 .. N -> S]
  BY <1>8, <1>10
<1> QED BY <1>3, <1>9, <1>11 DEF N, Succ, S, IsRedaction

\* One more symbol of the text leaves what was there, and at most one symbol more.
LEMMA RedactionStep ==
  ASSUME NEW o, NEW t, NEW cut, IsRedaction(o, t, cut), NEW i \in 1 .. Len(t)
  PROVE  /\ i \in Nat /\ i - 1 \in 0 .. Len(t) /\ i \in 0 .. Len(t)
         /\ o[i - 1] \in Seq(Visible) /\ o[i] \in Seq(Visible)
         /\ Len(o[i - 1]) \in Nat /\ Len(o[i]) \in Nat
         /\ \A k \in 1 .. Len(o[i - 1]) : o[i][k] = o[i - 1][k]
         /\ IF i \in cut /\ i > 1 /\ i - 1 \in cut THEN o[i] = o[i - 1] /\ Len(o[i]) = Len(o[i - 1])
            ELSE /\ Len(o[i]) = Len(o[i - 1]) + 1
                 /\ o[i][Len(o[i - 1]) + 1] = IF i \in cut THEN Marker ELSE t[i]
<1>1. t \in Seq(Symbols) /\ Len(t) \in Nat
  BY DEF IsRedaction
<1>2. i \in Nat /\ i - 1 \in 0 .. Len(t) /\ i \in 0 .. Len(t)
  BY <1>1
<1>3. o[i - 1] \in Seq(Visible) /\ o[i] \in Seq(Visible)
  BY <1>2 DEF IsRedaction
<1>4. Len(o[i - 1]) \in Nat /\ Len(o[i]) \in Nat
  BY <1>3
<1>5. t[i] \in Visible /\ Marker \in Visible
  BY <1>1 DEF Visible
<1>6. o[i] = IF i \notin cut THEN Append(o[i - 1], t[i])
             ELSE IF i > 1 /\ i - 1 \in cut THEN o[i - 1] ELSE Append(o[i - 1], Marker)
  BY DEF IsRedaction
<1>7. CASE i \in cut /\ i > 1 /\ i - 1 \in cut
  <2>1. o[i] = o[i - 1]
    BY <1>6, <1>7
  <2> QED BY <1>2, <1>3, <1>4, <1>7, <2>1
<1>8. CASE ~(i \in cut /\ i > 1 /\ i - 1 \in cut)
  <2> DEFINE e == IF i \in cut THEN Marker ELSE t[i]
             x == o[i - 1]
  <2>1. o[i] = Append(x, e) /\ e \in Visible /\ x \in Seq(Visible)
    BY <1>3, <1>5, <1>6, <1>8
  <2> HIDE DEF e, x
  <2>2. /\ Len(Append(x, e)) = Len(x) + 1 /\ Append(x, e)[Len(x) + 1] = e
        /\ \A k \in 1 .. Len(x) : Append(x, e)[k] = x[k]
    BY <2>1, AppendProperties
  <2> QED BY <1>2, <1>3, <1>4, <1>8, <2>1, <2>2 DEF e, x
<1> QED BY <1>7, <1>8

\* A redaction starts empty.
LEMMA RedactionStarts ==
  ASSUME NEW o, NEW t, NEW cut, IsRedaction(o, t, cut)
  PROVE  /\ Len(t) \in Nat /\ t \in Seq(Symbols) /\ o[0] = <<>> /\ Len(o[0]) = 0
         /\ \A i \in 0 .. Len(t) : o[i] \in Seq(Visible) /\ Len(o[i]) \in Nat
BY DEF IsRedaction

\* A redaction never outgrows its text.
LEMMA RedactionIsShort ==
  ASSUME NEW o, NEW t, NEW cut, IsRedaction(o, t, cut)
  PROVE  \A i \in 0 .. Len(t) : Len(o[i]) <= i
<1> DEFINE T == {i \in 0 .. Len(t) : Len(o[i]) <= i}
<1>1. Len(t) \in Nat
  BY RedactionStarts
<1>2. 0 \in T
  BY <1>1, RedactionStarts
<1>3. ASSUME NEW i \in 1 .. Len(t), i - 1 \in T PROVE i \in T
  <2>1. /\ i \in Nat /\ i \in 0 .. Len(t) /\ Len(o[i - 1]) \in Nat /\ Len(o[i]) \in Nat
        /\ Len(o[i]) = Len(o[i - 1]) \/ Len(o[i]) = Len(o[i - 1]) + 1
    BY RedactionStep
  <2>2. Len(o[i - 1]) <= i - 1
    BY <1>3
  <2>3. Len(o[i]) <= i
    BY <2>1, <2>2
  <2> QED BY <2>1, <2>3
<1> HIDE DEF T
<1>4. \A i \in 0 .. Len(t) : i \in T
  BY <1>1, <1>2, <1>3, UpTo
<1> QED BY <1>4 DEF T

\* What a redaction has shown it does not take back.
LEMMA RedactionGrows ==
  ASSUME NEW o, NEW t, NEW cut, IsRedaction(o, t, cut), NEW m \in 0 .. Len(t)
  PROVE  \A i \in 0 .. Len(t) : i >= m => Len(o[m]) <= Len(o[i]) /\ \A k \in 1 .. Len(o[m]) : o[i][k] = o[m][k]
<1> DEFINE P(i) == Len(o[m]) <= Len(o[i]) /\ \A k \in 1 .. Len(o[m]) : o[i][k] = o[m][k]
           T == {i \in 0 .. Len(t) : i >= m => P(i)}
<1>1. Len(t) \in Nat /\ m \in Nat /\ Len(o[m]) \in Nat
  BY RedactionStarts
<1>2. P(m)
  BY <1>1
<1>3. 0 \in T
  <2>1. 0 \in 0 .. Len(t) /\ (0 >= m => m = 0)
    BY <1>1
  <2> HIDE DEF P
  <2> QED BY <1>2, <2>1
<1>4. ASSUME NEW i \in 1 .. Len(t), i - 1 \in T PROVE i \in T
  <2>1. /\ i \in Nat /\ i \in 0 .. Len(t) /\ Len(o[i - 1]) \in Nat /\ Len(o[i]) \in Nat
        /\ Len(o[i]) = Len(o[i - 1]) \/ Len(o[i]) = Len(o[i - 1]) + 1
        /\ \A k \in 1 .. Len(o[i - 1]) : o[i][k] = o[i - 1][k]
    BY RedactionStep
  <2>2. CASE i = m
    <3> HIDE DEF P
    <3> QED BY <1>2, <2>1, <2>2
  <2>3. CASE i - 1 >= m
    <3>1. P(i - 1)
      BY <1>4, <2>3
    <3>2. Len(o[m]) <= Len(o[i])
      BY <1>1, <2>1, <3>1
    <3>3. \A k \in 1 .. Len(o[m]) : k \in 1 .. Len(o[i - 1])
      BY <1>1, <2>1, <3>1
    <3>4. \A k \in 1 .. Len(o[m]) : o[i][k] = o[m][k]
      BY <2>1, <3>1, <3>3
    <3> QED BY <2>1, <3>2, <3>4
  <2>4. i >= m => i = m \/ i - 1 >= m
    BY <1>1, <2>1
  <2> HIDE DEF P
  <2> QED BY <2>1, <2>2, <2>3, <2>4
<1> HIDE DEF T
<1>5. \A i \in 0 .. Len(t) : i \in T
  BY <1>1, <1>3, <1>4, UpTo
<1> QED BY <1>5 DEF T

\* Where the text was cut the redaction ends in a marker.
LEMMA CutEndsInMarker ==
  ASSUME NEW o, NEW t, NEW cut, IsRedaction(o, t, cut)
  PROVE  \A i \in 1 .. Len(t) : i \in cut => Len(o[i]) >= 1 /\ o[i][Len(o[i])] = Marker
<1> DEFINE P(i) == i # 0 /\ i \in cut => Len(o[i]) >= 1 /\ o[i][Len(o[i])] = Marker
           T == {i \in 0 .. Len(t) : P(i)}
<1>1. Len(t) \in Nat
  BY RedactionStarts
<1>2. 0 \in T
  BY <1>1
<1>3. ASSUME NEW i \in 1 .. Len(t), i - 1 \in T PROVE i \in T
  <2>1. /\ i \in Nat /\ i \in 0 .. Len(t) /\ Len(o[i - 1]) \in Nat /\ Len(o[i]) \in Nat
        /\ IF i \in cut /\ i > 1 /\ i - 1 \in cut THEN o[i] = o[i - 1]
           ELSE /\ Len(o[i]) = Len(o[i - 1]) + 1
                /\ o[i][Len(o[i - 1]) + 1] = IF i \in cut THEN Marker ELSE t[i]
    BY RedactionStep
  <2>2. CASE i \in cut /\ i > 1 /\ i - 1 \in cut
    <3>1. i - 1 # 0
      BY <2>1, <2>2
    <3>2. Len(o[i - 1]) >= 1 /\ o[i - 1][Len(o[i - 1])] = Marker
      BY <1>3, <2>2, <3>1
    <3> QED BY <2>1, <2>2, <3>2
  <2>3. CASE i \in cut /\ ~(i > 1 /\ i - 1 \in cut)
    <3>1. Len(o[i]) >= 1 /\ o[i][Len(o[i])] = Marker
      BY <2>1, <2>3
    <3> QED BY <2>1, <3>1
  <2> QED BY <2>1, <2>2, <2>3
<1> HIDE DEF T
<1>4. \A i \in 0 .. Len(t) : i \in T
  BY <1>1, <1>2, <1>3, UpTo
<1>5. \A i \in 1 .. Len(t) : i \in 0 .. Len(t) /\ i # 0
  BY <1>1
<1> QED BY <1>4, <1>5 DEF T

EndsWith(s, n, j) == j <= Len(s) /\ \A k \in 1 .. j : s[Len(s) - j + k] = n[k]

\* A redaction that ends as a secret begins comes from a text that does, uncut.
LEMMA EndIsUncut ==
  ASSUME NEW o, NEW t, NEW cut, IsRedaction(o, t, cut), NEW n \in Secret
  PROVE  \A m \in 0 .. Len(t), j \in 0 .. Len(n) :
           EndsWith(o[m], n, j) => j <= m /\ \A k \in 1 .. j : m - j + k \notin cut /\ t[m - j + k] = n[k]
<1> DEFINE P(m) == \A j \in 0 .. Len(n) :
             EndsWith(o[m], n, j) => j <= m /\ \A k \in 1 .. j : m - j + k \notin cut /\ t[m - j + k] = n[k]
           T == {m \in 0 .. Len(t) : P(m)}
<1>1. Len(t) \in Nat /\ Len(n) \in Nat
  BY RedactionStarts, SecretIs
<1>2. 0 \in T
  <2>1. \A j \in 0 .. Len(n) : EndsWith(o[0], n, j) => j = 0
    BY <1>1, RedactionStarts DEF EndsWith
  <2>2. \A k \in 1 .. 0 : FALSE
    OBVIOUS
  <2> QED BY <1>1, <2>1, <2>2
<1>3. ASSUME NEW i \in 1 .. Len(t), i - 1 \in T PROVE i \in T
  <2>1. /\ i \in Nat /\ i \in 0 .. Len(t) /\ Len(o[i - 1]) \in Nat /\ Len(o[i]) \in Nat
        /\ \A k \in 1 .. Len(o[i - 1]) : o[i][k] = o[i - 1][k]
        /\ i \notin cut => Len(o[i]) = Len(o[i - 1]) + 1 /\ o[i][Len(o[i - 1]) + 1] = t[i]
    <3> HIDE DEF T, P
    <3>1. /\ i \in Nat /\ i \in 0 .. Len(t) /\ Len(o[i - 1]) \in Nat /\ Len(o[i]) \in Nat
          /\ \A k \in 1 .. Len(o[i - 1]) : o[i][k] = o[i - 1][k]
          /\ IF i \in cut /\ i > 1 /\ i - 1 \in cut THEN Len(o[i]) = Len(o[i - 1])
             ELSE /\ Len(o[i]) = Len(o[i - 1]) + 1
                  /\ o[i][Len(o[i - 1]) + 1] = IF i \in cut THEN Marker ELSE t[i]
      BY RedactionStep
    <3> QED BY Zenon, <3>1
  <2>2. P(i - 1)
    BY <1>3
  <2>3. ASSUME NEW j \in 0 .. Len(n), EndsWith(o[i], n, j), j # 0
        PROVE  j <= i /\ \A k \in 1 .. j : i - j + k \notin cut /\ t[i - j + k] = n[k]
    <3> DEFINE a == Len(o[i - 1])
    <3>1. j \in Nat /\ j >= 1 /\ j - 1 \in 0 .. Len(n) /\ j <= Len(o[i]) /\ j \in 1 .. j /\ j \in 1 .. Len(n)
      BY <1>1, <2>3 DEF EndsWith
    <3>2. Len(o[i]) - j + j = Len(o[i])
      BY <2>1, <3>1
    <3>3. o[i][Len(o[i])] = n[j] /\ n[j] # Marker
      BY <2>3, <3>1, <3>2, SecretIs DEF EndsWith
    <3>4. i \notin cut
      BY <3>3, CutEndsInMarker
    <3>5. a \in Nat /\ Len(o[i]) = a + 1 /\ t[i] = n[j]
      BY <2>1, <3>3, <3>4
    <3> HIDE DEF P
    <3>6. EndsWith(o[i - 1], n, j - 1)
      <4>1. j - 1 <= a
        BY <3>1, <3>5
      <4>2. ASSUME NEW k \in 1 .. j - 1 PROVE o[i - 1][a - (j - 1) + k] = n[k]
        <5> DEFINE q == a - (j - 1) + k
        <5>1. k \in 1 .. j /\ q = Len(o[i]) - j + k /\ q \in 1 .. a
          BY <3>1, <3>5, <4>1
        <5>2. o[i][q] = n[k]
          BY <2>3, <5>1 DEF EndsWith
        <5> HIDE DEF q
        <5>3. o[i][q] = o[i - 1][q]
          BY <2>1, <5>1
        <5> QED BY <5>2, <5>3 DEF q
      <4> QED BY <4>1, <4>2 DEF EndsWith
    <3>7. /\ j - 1 <= i - 1
          /\ \A k \in 1 .. j - 1 : (i - 1) - (j - 1) + k \notin cut /\ t[(i - 1) - (j - 1) + k] = n[k]
      BY <2>2, <3>1, <3>6 DEF P
    <3>9. \A k \in 1 .. j - 1 : i - j + k \notin cut /\ t[i - j + k] = n[k]
      <4>1. (i - 1) - (j - 1) = i - j
        BY <2>1, <3>1
      <4> QED BY Zenon, <3>7, <4>1
    <3>8. ASSUME NEW k \in 1 .. j PROVE i - j + k \notin cut /\ t[i - j + k] = n[k]
      <4>1. CASE k = j
        <5>1. i - j + k = i
          BY <2>1, <3>1, <4>1
        <5> QED BY <3>4, <3>5, <4>1, <5>1
      <4>2. CASE k # j
        <5>1. k \in 1 .. j - 1
          BY <2>1, <3>1, <4>2
        <5> QED BY Zenon, <3>9, <5>1
      <4> QED BY <4>1, <4>2
    <3>10. j <= i
      BY <2>1, <3>1, <3>7
    <3> QED BY Zenon, <3>8, <3>10
  <2>5. P(i)
    <3>1. ASSUME NEW j \in 0 .. Len(n), EndsWith(o[i], n, j), j = 0
          PROVE  j <= i /\ \A k \in 1 .. j : i - j + k \notin cut /\ t[i - j + k] = n[k]
      <4>1. 0 <= i /\ \A k \in 1 .. 0 : FALSE
        BY <2>1
      <4> QED BY Zenon, <3>1, <4>1
    <3> QED BY Zenon, <2>3, <3>1
  <2> HIDE DEF P
  <2> QED BY <2>1, <2>5
<1> HIDE DEF T
<1>4. \A m \in 0 .. Len(t) : m \in T
  BY <1>1, <1>2, <1>3, UpTo
<1> QED BY <1>4 DEF T

\* A redaction that begins with no marker begins as its text does.
LEMMA StartIsUncut ==
  ASSUME NEW o, NEW t, NEW cut, IsRedaction(o, t, cut), NEW L \in 0 .. Len(o[Len(t)]),
         \A k \in 1 .. L : o[Len(t)][k] # Marker
  PROVE  /\ L <= Len(t) /\ Len(o[L]) = L
         /\ \A k \in 1 .. L : k \notin cut /\ t[k] = o[Len(t)][k]
<1> DEFINE N == Len(t)
           P(i) == Len(o[i]) = i /\ \A k \in 1 .. i : k \notin cut /\ t[k] = o[i][k]
           T == {i \in 0 .. L : P(i)}
<1>1. N \in Nat /\ N \in 0 .. N /\ Len(o[N]) \in Nat
  BY RedactionStarts
<1>2. Len(o[N]) <= N
  BY <1>1, RedactionIsShort
<1>3. L \in Nat /\ L <= N
  BY <1>1, <1>2
<1>4. 0 \in T
  <2>1. \A k \in 1 .. 0 : FALSE
    OBVIOUS
  <2>2. Len(o[0]) = 0
    BY RedactionStarts
  <2> QED BY <1>3, <2>1, <2>2
<1>5. ASSUME NEW i \in 1 .. L, i - 1 \in T PROVE i \in T
  <2>1. i \in 1 .. N /\ i \in Nat /\ i >= 1 /\ i \in 0 .. L /\ i \in 1 .. i /\ i \in 0 .. N /\ N >= i
    BY <1>1, <1>3
  <2>2. P(i - 1)
    BY <1>5
  <2>3. /\ Len(o[i - 1]) \in Nat /\ Len(o[i]) \in Nat
        /\ \A k \in 1 .. Len(o[i - 1]) : o[i][k] = o[i - 1][k]
        /\ ~(i \in cut /\ i > 1 /\ i - 1 \in cut) =>
             /\ Len(o[i]) = Len(o[i - 1]) + 1
             /\ o[i][Len(o[i - 1]) + 1] = IF i \in cut THEN Marker ELSE t[i]
    BY <2>1, RedactionStep
  <2>4. i > 1 => i - 1 \in 1 .. i - 1
    BY <2>1
  <2>5. ~(i > 1 /\ i - 1 \in cut)
    BY <2>2, <2>4
  <2>6. Len(o[i]) = i /\ o[i][i] = IF i \in cut THEN Marker ELSE t[i]
    <3>1. Len(o[i - 1]) = i - 1 /\ (i - 1) + 1 = i
      BY <2>1, <2>2
    <3> HIDE DEF P
    <3> QED BY <2>3, <2>5, <3>1
  <2>7. i \notin cut
    <3>1. \A k \in 1 .. Len(o[i]) : o[N][k] = o[i][k]
      BY <1>1, <2>1, RedactionGrows
    <3>2. o[N][i] = o[i][i]
      BY <2>1, <2>6, <3>1
    <3> QED BY <2>6, <3>2
  <2>8. ASSUME NEW k \in 1 .. i PROVE k \notin cut /\ t[k] = o[i][k]
    <3>1. CASE k = i
      BY <2>6, <2>7, <3>1
    <3>2. CASE k # i
      <4>1. k \in 1 .. i - 1
        BY <2>1, <3>2
      <4> QED BY <2>2, <2>3, <4>1
    <3> QED BY <3>1, <3>2
  <2> QED BY <2>1, <2>6, <2>8
<1> HIDE DEF T
<1>6. \A i \in 0 .. L : i \in T
  BY <1>3, <1>4, <1>5, UpTo
<1>7. P(L)
  <2>1. L \in 0 .. L
    BY <1>3
  <2> HIDE DEF P
  <2> QED BY <1>6, <2>1 DEF T
<1>8. \A k \in 1 .. L : o[N][k] = o[L][k]
  <2>1. L \in 0 .. N /\ N >= L
    BY <1>1, <1>3
  <2> QED BY <1>1, <1>7, <2>1, RedactionGrows
<1> QED BY <1>3, <1>7, <1>8

\* A redaction without a marker is its text.
LEMMA UnmarkedIsWhole ==
  ASSUME NEW o, NEW t, NEW cut, IsRedaction(o, t, cut),
         \A k \in 1 .. Len(o[Len(t)]) : o[Len(t)][k] # Marker
  PROVE  Len(o[Len(t)]) = Len(t) /\ \A k \in 1 .. Len(t) : t[k] = o[Len(t)][k]
<1> DEFINE N == Len(t)
           L == Len(o[N])
<1>1. N \in Nat /\ N \in 0 .. N /\ L \in Nat /\ L \in 0 .. L
  BY RedactionStarts
<1>2. L <= N /\ Len(o[L]) = L /\ \A k \in 1 .. L : k \notin cut /\ t[k] = o[N][k]
  BY <1>1, StartIsUncut
<1>3. ASSUME L < N PROVE FALSE
  <2>0. L + 1 \in 1 .. N /\ L + 1 \in 0 .. N /\ N >= L + 1 /\ (L + 1) - 1 = L /\ (L + 1 > 1 => L \in 1 .. L)
    BY <1>1, <1>3
  <2>1. ~(L + 1 > 1 /\ (L + 1) - 1 \in cut)
    BY <1>2, <2>0
  <2>2. Len(o[L + 1]) = Len(o[(L + 1) - 1]) + 1
    BY <2>0, <2>1, RedactionStep
  <2>3. Len(o[L + 1]) = L + 1
    BY <1>2, <2>0, <2>2
  <2>4. Len(o[L + 1]) <= L
    BY <1>1, <2>0, RedactionGrows
  <2> QED BY <1>1, <2>3, <2>4
<1>4. L = N
  BY <1>1, <1>2, <1>3
<1> QED BY <1>2, <1>4

\* What Redact returns is a text that may hold markers.
LEMMA RedactType ==
  ASSUME NEW ns, NEW t \in Seq(Symbols)
  PROVE  Redact(ns, t) \in Seq(Visible) /\ Len(Redact(ns, t)) \in Nat
<1> DEFINE o == Redacted(t, Covered(ns, t))
<1>1. IsRedaction(o, t, Covered(ns, t))
  BY RedactedIs
<1>2. Redact(ns, t) = o[Len(t)]
  BY DEF Redact
<1> HIDE DEF o
<1>3. Len(t) \in 0 .. Len(t)
  BY <1>1, RedactionStarts
<1> QED BY <1>1, <1>2, <1>3, RedactionStarts

\* A length that grows by one at most reaches every value on its way.
LEMMA StepTo ==
  \A x, y, e : x \in Nat /\ y \in Nat /\ e \in Nat /\ (x = y \/ x = y + 1) /\ ~(y >= e) /\ x >= e => x = e
OBVIOUS

\* A redacted text holds no secret, however the secrets overlap.
LEMMA RedactIsClean ==
  ASSUME NEW ns \in SUBSET Secret, NEW t \in Seq(Symbols), NEW n \in ns
  PROVE  ~Occurs(n, Redact(ns, t))
<1> DEFINE cut == Covered(ns, t)
           o == Redacted(t, cut)
           R == Redact(ns, t)
           N == Len(t)
<1>1. IsRedaction(o, t, cut)
  BY RedactedIs
<1>2. R = o[N] /\ n \in Secret /\ R \in Seq(Visible) /\ Len(R) \in Nat
  BY RedactType DEF Redact
<1>3. N \in Nat /\ N \in 0 .. N /\ Len(n) \in Nat /\ Len(n) >= 1
  BY <1>2, SecretIs
<1> HIDE DEF R, o
<1> SUFFICES ASSUME NEW i \in 1 .. Len(R), OccursAt(n, R, i) PROVE FALSE
  BY DEF Occurs, R
<1>4. i \in Nat /\ i >= 1
  BY <1>2
<1>5. i + Len(n) - 1 <= Len(R) /\ \A k \in 1 .. Len(n) : R[i + k - 1] = n[k]
  BY <1>2, <1>4, OccursIs
<1> DEFINE e == i + Len(n) - 1
           Z == {m \in 0 .. N : Len(o[m]) >= e}
<1>6. e \in Nat /\ e >= 1 /\ e >= Len(n) /\ e - Len(n) = i - 1
  BY <1>3, <1>4
<1>7. PICK m \in Z : \A z \in Z : m <= z
  <2>1. Z \in SUBSET Nat
    BY <1>3
  <2>2. N \in Z
    BY <1>2, <1>3, <1>5
  <2> HIDE DEF Z
  <2> QED BY <2>1, <2>2, LeastNumber
<1> HIDE DEF e
<1>8. m \in 1 .. N /\ m \in Nat /\ m \in 0 .. N /\ N >= m
  <2>1. m # 0
    BY <1>6, <1>1, RedactionStarts
  <2> QED BY <1>3, <2>1
<1>9. Len(o[m]) = e
  <2>1. /\ Len(o[m - 1]) \in Nat /\ Len(o[m]) \in Nat /\ m - 1 \in 0 .. N
        /\ Len(o[m]) = Len(o[m - 1]) \/ Len(o[m]) = Len(o[m - 1]) + 1
    BY <1>1, <1>8, RedactionStep
  <2>2. m - 1 \notin Z
    <3> HIDE DEF Z
    <3> QED BY <1>7, <1>8
  <2>3. ~(Len(o[m - 1]) >= e) /\ Len(o[m]) >= e
    BY <1>7, <2>1, <2>2
  <2> DEFINE x == Len(o[m])
             y == Len(o[m - 1])
  <2>4. x \in Nat /\ y \in Nat /\ e \in Nat /\ (x = y \/ x = y + 1) /\ ~(y >= e) /\ x >= e
    BY Zenon, <1>6, <2>1, <2>3
  <2> HIDE DEF x, y
  <2>5. x = e
    BY <2>4, StepTo, Zenon
  <2> QED BY <2>5 DEF x
<1>10. EndsWith(o[m], n, Len(n))
  <2>1. \A k \in 1 .. Len(o[m]) : o[N][k] = o[m][k]
    <3> HIDE DEF Z, cut
    <3>1. \A x \in 0 .. Len(t) : x >= m => Len(o[m]) <= Len(o[x]) /\ \A k \in 1 .. Len(o[m]) : o[x][k] = o[m][k]
      BY <1>1, <1>8, RedactionGrows
    <3> QED BY Zenon, <1>3, <1>8, <3>1
  <2>2. ASSUME NEW k \in 1 .. Len(n) PROVE o[m][Len(o[m]) - Len(n) + k] = n[k]
    <3>1. e - Len(n) + k = i + k - 1 /\ i + k - 1 \in 1 .. e
      BY <1>3, <1>4, <1>6 DEF e
    <3>2. o[m][i + k - 1] = R[i + k - 1]
      BY <1>2, <1>9, <2>1, <3>1
    <3> QED BY <1>5, <1>9, <3>1, <3>2
  <2> QED BY <1>6, <1>9, <2>2 DEF EndsWith
<1>11. Len(n) <= m /\ \A k \in 1 .. Len(n) : m - Len(n) + k \notin cut /\ t[m - Len(n) + k] = n[k]
  <2>1. Len(n) \in 0 .. Len(n)
    BY <1>3
  <2> HIDE DEF cut
  <2> QED BY <1>1, <1>2, <1>8, <1>10, <2>1, EndIsUncut
<1> DEFINE p == m - Len(n) + 1
<1>12. p \in 1 .. N /\ p \in Nat /\ p >= 1 /\ p + Len(n) - 1 <= N /\ 1 \in 1 .. Len(n) /\ p = m - Len(n) + 1
  BY <1>3, <1>8, <1>11
<1>13. \A k \in 1 .. Len(n) : t[p + k - 1] = n[k]
  <2>1. \A k \in 1 .. Len(n) : p + k - 1 = m - Len(n) + k
    BY <1>3, <1>8
  <2> HIDE DEF p
  <2> QED BY <1>11, <2>1
<1>14. p \notin cut
  BY <1>11, <1>12
<1> HIDE DEF p
<1>15. OccursAt(n, t, p)
  BY <1>2, <1>12, <1>13, OccursIs
<1>16. \E x \in Matches(n, t) : x <= p /\ p < x + Len(n)
  BY <1>2, <1>12, <1>15, OccurrenceIsMatched
<1>17. p \in cut
  BY <1>12, <1>16 DEF Covered
<1> QED BY <1>14, <1>17

\* A text that holds no secret is left as it is.
LEMMA RedactLeaves ==
  ASSUME NEW ns \in SUBSET Secret, NEW t \in Seq(Symbols), \A n \in ns : ~Occurs(n, t)
  PROVE  Redact(ns, t) = t
<1> DEFINE cut == Covered(ns, t)
           o == Redacted(t, cut)
           N == Len(t)
           P(i) == Len(o[i]) = i /\ \A k \in 1 .. i : o[i][k] = t[k]
           T == {i \in 0 .. N : P(i)}
<1>1. IsRedaction(o, t, cut)
  BY RedactedIs
<1>2. Redact(ns, t) = o[N] /\ N \in Nat /\ N \in 0 .. N
  BY DEF Redact
<1>3. \A i : i \notin cut
  BY DEF Covered, Matches, Occurs
<1> HIDE DEF o, cut
<1>4. 0 \in T
  <2>1. Len(o[0]) = 0 /\ \A k \in 1 .. 0 : FALSE
    BY <1>1, RedactionStarts
  <2> QED BY <1>2, <2>1
<1>5. ASSUME NEW i \in 1 .. N, i - 1 \in T PROVE i \in T
  <2>1. /\ i \in Nat /\ i \in 0 .. N /\ Len(o[i]) = Len(o[i - 1]) + 1 /\ o[i][Len(o[i - 1]) + 1] = t[i]
        /\ \A k \in 1 .. Len(o[i - 1]) : o[i][k] = o[i - 1][k]
    BY <1>1, <1>3, RedactionStep
  <2>2. Len(o[i - 1]) = i - 1 /\ (i - 1) + 1 = i /\ \A k \in 1 .. i - 1 : o[i - 1][k] = t[k]
    BY <1>5, <2>1
  <2>3. \A k \in 1 .. i : k = i \/ k \in 1 .. i - 1
    BY <2>1
  <2>4. P(i)
    BY <2>1, <2>2, <2>3
  <2> HIDE DEF P
  <2> QED BY <2>1, <2>4
<1> HIDE DEF T
<1>6. \A i \in 0 .. N : i \in T
  BY <1>2, <1>4, <1>5, UpTo
<1>7. P(N)
  <2> HIDE DEF P
  <2> QED BY <1>2, <1>6 DEF T
<1>8. o[N] \in Seq(Visible) /\ t \in Seq(Symbols)
  BY <1>1, <1>2, RedactionStarts
<1>9. o[N] = t
  BY <1>7, <1>8, SeqEqual
<1> QED BY <1>2, <1>9

(***************************************************************************)
(* The stream.  What was shown may end as a secret begins, but then what   *)
(* is held back already differs from the rest of that secret.              *)
(***************************************************************************)
Held(ns, sh, buf) ==
  \A n \in ns : \A j \in 1 .. Len(n) - 1 :
    EndsWith(sh, n, j) => \E i \in 1 .. Len(n) - j : i <= Len(buf) /\ buf[i] # n[j + i]

IsCut(b, c, p, q) == p = SubSeq(b, 1, c) /\ q = SubSeq(b, c + 1, Len(b))
IsSplit(b, c, p, q) ==
  /\ p \in Seq(Symbols) /\ q \in Seq(Symbols) /\ Len(p) = c /\ Len(q) = Len(b) - c
  /\ \A i \in 1 .. c : p[i] = b[i]
  /\ \A i \in 1 .. Len(b) - c : q[i] = b[c + i]

\* The two parts of a cut text, symbol by symbol.
LEMMA CutInTwo ==
  ASSUME NEW b \in Seq(Symbols), NEW c \in Nat, c <= Len(b),
         NEW p, NEW q, IsCut(b, c, p, q)
  PROVE  IsSplit(b, c, p, q)
<1> DEFINE B == Len(b)
<1>1. B \in Nat /\ c \in Nat /\ c <= B
  OBVIOUS
<1>2. p \in Seq(Symbols) /\ Len(p) = c /\ \A i \in 1 .. c : p[i] = b[i]
  BY <1>1 DEF IsCut
<1> HIDE DEF B
<1>3. c + 1 \in Int /\ B \in Int /\ (c + 1 <= B => B - (c + 1) + 1 = B - c) /\ (~(c + 1 <= B) => B - c = 0)
  BY <1>1
<1>4. \A i \in c + 1 .. B : i \in 1 .. B
  BY <1>1
<1>5. \A i \in c + 1 .. B : b[i] \in Symbols
  BY <1>4 DEF B
<1>6. /\ q \in Seq(Symbols) /\ Len(q) = IF c + 1 <= B THEN B - (c + 1) + 1 ELSE 0
      /\ \A i \in 1 .. B - (c + 1) + 1 : q[i] = b[(c + 1) + i - 1]
  BY <1>3, <1>5, SubSeqProperties DEF B, IsCut
<1>7. \A i \in 1 .. B - c : i \in 1 .. B - (c + 1) + 1 /\ (c + 1) + i - 1 = c + i
  BY <1>1
<1>8. Len(q) = B - c /\ \A i \in 1 .. B - c : q[i] = b[c + i]
  BY <1>3, <1>6, <1>7
<1> QED BY <1>2, <1>6, <1>8 DEF B, IsSplit

Clean(ns, s) == \A n \in ns : ~Occurs(n, s)
Agree(buf, p) == \A i \in 1 .. Len(buf) : i <= Len(p) => p[i] = buf[i]
GoesOn(buf, p, q) == \A i \in 1 .. Len(buf) : i > Len(p) => i - Len(p) <= Len(q) /\ q[i - Len(p)] = buf[i]

\* Positions past the first of two joined texts.
LEMMA PastFirst ==
  ASSUME NEW A \in Nat, NEW r \in Nat, NEW D \in Nat, NEW x \in Nat, D >= 1, x > A, x + D - 1 <= A + r
  PROVE  /\ x - A \in 1 .. r /\ x - A \in Nat /\ x - A >= 1 /\ (x - A) + D - 1 <= r
         /\ \A k \in 1 .. D : x + k - 1 \in 1 .. A + r /\ ~(x + k - 1 <= A) /\ (x + k - 1) - A = (x - A) + k - 1
OBVIOUS

\* Nothing comes to light where two pieces of the stream meet.
LEMMA EmitIsClean ==
  ASSUME NEW ns \in SUBSET Secret, NEW sh \in Seq(Visible), NEW buf \in Seq(Symbols), NEW p \in Seq(Symbols),
         Clean(ns, sh), Held(ns, sh, buf), Agree(buf, p)
  PROVE  Clean(ns, sh \o Redact(ns, p))
<1> DEFINE R == Redact(ns, p)
           A == Len(sh)
           s == sh \o R
           cut == Covered(ns, p)
           o == Redacted(p, cut)
<1>1. R \in Seq(Visible) /\ Len(R) \in Nat /\ A \in Nat
  BY RedactType
<1>2. IsRedaction(o, p, cut) /\ R = o[Len(p)]
  BY RedactedIs DEF Redact
<1> HIDE DEF R, o, cut
<1>3. s \in Seq(Visible) /\ Len(s) = A + Len(R) /\ \A i \in 1 .. A + Len(R) : s[i] = IF i <= A THEN sh[i] ELSE R[i - A]
  BY <1>1, ConcatProperties
<1> HIDE DEF s
<1> SUFFICES ASSUME NEW n \in ns, NEW x \in 1 .. Len(s), OccursAt(n, s, x) PROVE FALSE
  BY DEF Clean, Occurs, s, R
<1>4. n \in Secret /\ Len(n) \in Nat /\ Len(n) >= 1 /\ x \in Nat /\ x >= 1
  BY <1>1, <1>3, SecretIs
<1> DEFINE D == Len(n)
           r == Len(R)
<1>5. x + D - 1 <= A + r /\ \A k \in 1 .. D : s[x + k - 1] = n[k]
  BY <1>3, <1>4, OccursIs
<1>6. D \in Nat /\ D >= 1 /\ r \in Nat
  BY <1>1, <1>4
<1> HIDE DEF A, D, r
<1>7. CASE x + D - 1 <= A
  <2>1. \A k \in 1 .. D : x + k - 1 \in 1 .. A + r /\ x + k - 1 <= A
    BY <1>1, <1>4, <1>6, <1>7
  <2>2. \A k \in 1 .. Len(n) : sh[x + k - 1] = n[k]
    BY <1>3, <1>5, <2>1 DEF D, r
  <2>3. x \in 1 .. Len(sh) /\ x + Len(n) - 1 <= Len(sh)
    BY <1>1, <1>4, <1>6, <1>7 DEF A, D
  <2>4. OccursAt(n, sh, x)
    BY <1>4, <2>2, <2>3, OccursIs
  <2> QED BY <2>3, <2>4 DEF Clean, Occurs
<1>8. CASE x > A
  <2> DEFINE y == x - A
  <2>1. y \in 1 .. r /\ y \in Nat /\ y >= 1 /\ y + D - 1 <= r
    BY <1>1, <1>4, <1>5, <1>6, <1>8, PastFirst
  <2>2. \A k \in 1 .. D : x + k - 1 \in 1 .. A + r /\ ~(x + k - 1 <= A) /\ (x + k - 1) - A = y + k - 1
    BY <1>1, <1>4, <1>5, <1>6, <1>8, PastFirst
  <2>3. \A k \in 1 .. Len(n) : R[y + k - 1] = n[k]
    <3> HIDE DEF y
    <3> QED BY <1>3, <1>5, <2>2 DEF D, r
  <2> HIDE DEF y
  <2>4. OccursAt(n, R, y)
    BY <1>1, <1>4, <2>1, <2>3, OccursIs DEF D, r
  <2>5. ~Occurs(n, R)
    BY RedactIsClean DEF R
  <2> QED BY <2>1, <2>4, <2>5 DEF Occurs, r
<1>9. CASE x <= A /\ A < x + D - 1
  <2> DEFINE j == A - x + 1
             L == D - j
  <2>1. j \in Nat /\ j \in 1 .. D - 1 /\ j <= A /\ L \in Nat /\ L \in 0 .. r /\ j + L = D
    BY <1>1, <1>4, <1>5, <1>6, <1>9
  <2>2. \A k \in 1 .. j : k \in 1 .. D /\ x + k - 1 = A - j + k /\ x + k - 1 \in 1 .. A + r /\ x + k - 1 <= A
    BY <1>1, <1>4, <1>5, <1>6, <1>9
  <2>3. \A i \in 1 .. L : j + i \in 1 .. D /\ x + (j + i) - 1 = A + i /\ A + i \in 1 .. A + r /\ ~(A + i <= A) /\ (A + i) - A = i
    BY <1>1, <1>4, <1>5, <1>6, <1>9
  <2> HIDE DEF j, L
  <2>4. EndsWith(sh, n, j)
    <3>1. \A k \in 1 .. j : sh[A - j + k] = n[k]
      BY <1>3, <1>5, <2>2 DEF r
    <3> QED BY <2>1, <3>1 DEF EndsWith, A
  <2>5. \A i \in 1 .. L : R[i] = n[j + i] /\ R[i] # Marker
    <3>1. \A i \in 1 .. L : s[A + i] = n[j + i]
      BY <1>5, <2>3
    <3>2. \A i \in 1 .. L : R[i] = n[j + i]
      BY <1>3, <2>3, <3>1 DEF r
    <3> QED BY <1>4, <2>3, <3>2, SecretIs DEF D
  <2>6. L <= Len(p) /\ \A k \in 1 .. L : p[k] = R[k]
    <3>1. L \in 0 .. Len(o[Len(p)]) /\ \A k \in 1 .. L : o[Len(p)][k] # Marker
      BY <1>2, <2>1, <2>5 DEF r
    <3> QED BY <1>2, <3>1, StartIsUncut
  <2>7. PICK i \in 1 .. Len(n) - j : i <= Len(buf) /\ buf[i] # n[j + i]
    BY <2>1, <2>4 DEF Held, D
  <2>8. i \in 1 .. L /\ i \in 1 .. Len(p)
    <3>1. Len(n) - j = L /\ Len(p) \in Nat
      BY <1>6, <2>1 DEF D
    <3> QED BY <2>1, <2>6, <3>1
  <2>9. i \in 1 .. Len(buf) /\ i <= Len(p)
    <3>1. Len(buf) \in Nat /\ Len(p) \in Nat
      OBVIOUS
    <3> QED BY <2>7, <2>8, <3>1
  <2>10. p[i] = buf[i] /\ p[i] = n[j + i]
    BY <2>5, <2>6, <2>8, <2>9 DEF Agree
  <2> QED BY <2>7, <2>10
<1> QED BY <1>1, <1>4, <1>6, <1>7, <1>8, <1>9

\* What is held back keeps differing, and holds of a new piece what held of it alone.
LEMMA EmitHolds ==
  ASSUME NEW ns \in SUBSET Secret, NEW sh \in Seq(Visible), NEW buf \in Seq(Symbols),
         NEW p \in Seq(Symbols), NEW q \in Seq(Symbols), Held(ns, sh, buf), Held(ns, p, q),
         Agree(buf, p), GoesOn(buf, p, q)
  PROVE  Held(ns, sh \o Redact(ns, p), q)
<1> DEFINE R == Redact(ns, p)
           A == Len(sh)
           s == sh \o R
           cut == Covered(ns, p)
           o == Redacted(p, cut)
           r == Len(R)
           c == Len(p)
<1>1. R \in Seq(Visible) /\ r \in Nat /\ A \in Nat /\ c \in Nat /\ c \in 0 .. c
  BY RedactType
<1>2. IsRedaction(o, p, cut) /\ R = o[c]
  BY RedactedIs DEF Redact
<1> HIDE DEF R, o, cut
<1>3. s \in Seq(Visible) /\ Len(s) = A + r /\ \A i \in 1 .. A + r : s[i] = IF i <= A THEN sh[i] ELSE R[i - A]
  BY <1>1, ConcatProperties
<1> HIDE DEF s
<1> SUFFICES ASSUME NEW n \in ns, NEW j \in 1 .. Len(n) - 1, EndsWith(s, n, j)
             PROVE  \E i \in 1 .. Len(n) - j : i <= Len(q) /\ q[i] # n[j + i]
  BY DEF Held, s, R
<1> DEFINE D == Len(n)
<1>4. n \in Secret /\ D \in Nat /\ j \in Nat /\ j >= 1 /\ j <= D - 1 /\ j \in 0 .. D
  BY SecretIs
<1>5. j <= A + r /\ \A k \in 1 .. j : s[A + r - j + k] = n[k]
  BY <1>3 DEF EndsWith
<1>6. CASE j <= r
  <2>1. EndsWith(R, n, j)
    <3>1. ASSUME NEW k \in 1 .. j PROVE R[r - j + k] = n[k]
      <4> HIDE DEF A, r
      <4>1. A + r - j + k \in 1 .. A + r /\ ~(A + r - j + k <= A) /\ (A + r - j + k) - A = r - j + k
        BY <1>1, <1>4, <1>6
      <4> QED BY <1>3, <1>5, <4>1
    <3> QED BY <1>6, <3>1 DEF EndsWith
  <2>2. j <= c /\ \A k \in 1 .. j : p[c - j + k] = n[k]
    <3>1. \A m \in 0 .. Len(p), i \in 0 .. Len(n) :
            EndsWith(o[m], n, i) => i <= m /\ \A k \in 1 .. i : m - i + k \notin cut /\ p[m - i + k] = n[k]
      BY <1>2, <1>4, EndIsUncut
    <3>2. EndsWith(o[c], n, j) /\ c \in 0 .. Len(p) /\ j \in 0 .. Len(n)
      BY <1>1, <1>2, <1>4, <2>1
    <3> HIDE DEF c, D
    <3> QED BY <3>1, <3>2
  <2>3. EndsWith(p, n, j)
    BY <2>2 DEF EndsWith
  <2> QED BY <2>3 DEF Held
<1>7. CASE j > r
  <2> DEFINE h == j - r
  <2> HIDE DEF A, r, D, c
  <2>1. h \in Nat /\ h >= 1 /\ h <= A /\ h \in 1 .. D - 1 /\ h + r = j
    BY <1>1, <1>4, <1>5, <1>7
  <2>2. \A k \in 1 .. h : k \in 1 .. j /\ A + r - j + k = A - h + k /\ A - h + k \in 1 .. A + r /\ A - h + k <= A
    BY <1>1, <1>4, <1>5, <1>7
  <2>3. \A i \in 1 .. r : h + i \in 1 .. j /\ A + r - j + (h + i) = A + i /\ A + i \in 1 .. A + r
                          /\ ~(A + i <= A) /\ (A + i) - A = i /\ h + i \in 1 .. D
    BY <1>1, <1>4, <1>5, <1>7
  <2> HIDE DEF h
  <2>4. EndsWith(sh, n, h)
    <3>1. \A k \in 1 .. h : sh[A - h + k] = n[k]
      BY <1>3, <1>5, <2>2
    <3> QED BY <2>1, <3>1 DEF EndsWith, A
  <2>5. \A i \in 1 .. r : R[i] = n[h + i] /\ R[i] # Marker
    <3>1. \A i \in 1 .. r : s[A + i] = n[h + i]
      BY <1>5, <2>3
    <3>2. \A i \in 1 .. r : R[i] = n[h + i]
      BY <1>3, <2>3, <3>1
    <3> QED BY <1>4, <2>3, <3>2, SecretIs DEF D
  <2>6. r = c /\ \A k \in 1 .. c : p[k] = R[k]
    <3>1. \A k \in 1 .. Len(o[Len(p)]) : o[Len(p)][k] # Marker
      BY <1>2, <2>5 DEF r, c
    <3>2. Len(o[Len(p)]) = Len(p) /\ \A k \in 1 .. Len(p) : p[k] = o[Len(p)][k]
      BY <1>2, <3>1, UnmarkedIsWhole
    <3> QED BY <1>2, <3>2 DEF r, c
  <2>7. PICK i \in 1 .. Len(n) - h : i <= Len(buf) /\ buf[i] # n[h + i]
    BY <2>1, <2>4 DEF Held, D
  <2>8. i \in 1 .. D - h /\ i \in Nat /\ i >= 1 /\ i \in 1 .. Len(buf)
    <3>1. Len(buf) \in Nat
      OBVIOUS
    <3> QED BY <1>4, <2>1, <2>7, <3>1 DEF D
  <2>9. i > c
    <3>1. CASE i <= c
      <4>1. i \in 1 .. c /\ i \in 1 .. r
        BY <1>1, <2>6, <2>8, <3>1
      <4>2. p[i] = buf[i]
        BY <2>8, <3>1 DEF c, Agree
      <4> QED BY <2>5, <2>6, <2>7, <4>1, <4>2
    <3> QED BY <1>1, <2>8, <3>1
  <2>10. i - c <= Len(q) /\ q[i - c] = buf[i]
    BY <2>8, <2>9 DEF c, GoesOn
  <2>11. i - c \in 1 .. D - j /\ j + (i - c) = h + i
    BY <1>1, <1>4, <2>1, <2>6, <2>8, <2>9
  <2>12. q[i - c] # n[j + (i - c)]
    BY <2>7, <2>10, <2>11
  <2> QED BY <2>10, <2>11, <2>12 DEF D
<1> QED BY <1>1, <1>4, <1>6, <1>7

\* A bounded set of numbers has a greatest member.
LEMMA Greatest ==
  ASSUME NEW n \in Nat, NEW T \in SUBSET (0 .. n), T # {}
  PROVE  \E x \in T : \A y \in T : y <= x
<1> DEFINE Down == {y \in 0 .. n : n - y \in T}
<1>1. Down \in SUBSET Nat
  OBVIOUS
<1>2. PICK z \in T : z \in 0 .. n
  OBVIOUS
<1>3. n - z \in Down
  <2>1. n - z \in 0 .. n /\ n - (n - z) = z
    BY <1>2
  <2> QED BY <1>2, <2>1
<1> HIDE DEF Down
<1>4. PICK d \in Down : \A y \in Down : d <= y
  BY <1>1, <1>3, LeastNumber
<1>5. n - d \in T /\ d \in 0 .. n
  BY <1>4 DEF Down
<1>6. ASSUME NEW y \in T PROVE y <= n - d
  <2>1. y \in 0 .. n /\ n - y \in 0 .. n /\ n - (n - y) = y
    OBVIOUS
  <2>2. n - y \in Down
    BY <2>1 DEF Down
  <2>3. d <= n - y
    BY <1>4, <2>2
  <2> QED BY <1>5, <2>1, <2>3
<1> QED BY <1>5, <1>6

\* An end that begins a secret, symbol by symbol.
LEMMA SuffixIs ==
  ASSUME NEW b \in Seq(Symbols), NEW n \in Seq(Symbols), NEW k \in 0 .. Len(b), k < Len(n)
  PROVE  SubSeq(b, Len(b) - k + 1, Len(b)) = SubSeq(n, 1, k) <=> \A i \in 1 .. k : b[Len(b) - k + i] = n[i]
<1> DEFINE B == Len(b)
           D == Len(n)
           u == SubSeq(b, B - k + 1, B)
           v == SubSeq(n, 1, k)
<1>1. B \in Nat /\ D \in Nat /\ k \in Nat /\ k <= B /\ k < D
  OBVIOUS
<1>2. u \in Seq(Symbols) /\ Len(u) = k /\ \A i \in 1 .. k : u[i] = b[B - k + i]
  <2> HIDE DEF B
  <2>1. B - k + 1 \in Int /\ B \in Int /\ (B - k + 1 <= B => B - (B - k + 1) + 1 = k) /\ (~(B - k + 1 <= B) => k = 0)
    BY <1>1
  <2>2. \A i \in B - k + 1 .. B : i \in 1 .. B
    BY <1>1
  <2>3. \A i \in B - k + 1 .. B : b[i] \in Symbols
    BY <2>2 DEF B
  <2>4. /\ u \in Seq(Symbols) /\ Len(u) = IF B - k + 1 <= B THEN B - (B - k + 1) + 1 ELSE 0
        /\ \A i \in 1 .. B - (B - k + 1) + 1 : u[i] = b[(B - k + 1) + i - 1]
    <3> DEFINE a == B - k + 1
    <3>1. a \in Int /\ B \in Int /\ \A i \in a .. B : b[i] \in Symbols
      BY <2>1, <2>3
    <3> HIDE DEF a
    <3>2. /\ SubSeq(b, a, B) \in Seq(Symbols) /\ Len(SubSeq(b, a, B)) = IF a <= B THEN B - a + 1 ELSE 0
          /\ \A i \in 1 .. B - a + 1 : SubSeq(b, a, B)[i] = b[a + i - 1]
      BY <3>1, SubSeqProperties
    <3> QED BY Zenon, <3>2 DEF a
  <2>5. \A i \in 1 .. k : i \in 1 .. B - (B - k + 1) + 1 /\ (B - k + 1) + i - 1 = B - k + i
    BY <1>1
  <2> HIDE DEF u
  <2> QED BY <2>1, <2>4, <2>5
<1>3. v \in Seq(Symbols) /\ Len(v) = k /\ \A i \in 1 .. k : v[i] = n[i]
  BY <1>1
<1> HIDE DEF u, v
<1>4. ASSUME \A i \in 1 .. k : b[B - k + i] = n[i] PROVE u = v
  <2>1. \A i \in 1 .. Len(u) : u[i] = v[i]
    BY <1>2, <1>3, <1>4
  <2> QED BY <1>2, <1>3, <2>1, SeqEqual
<1>5. ASSUME u = v PROVE \A i \in 1 .. k : b[B - k + i] = n[i]
  BY <1>2, <1>3, <1>5
<1>6. u = v <=> \A i \in 1 .. k : b[B - k + i] = n[i]
  BY <1>4, <1>5
<1> QED BY <1>6 DEF u, v

IsDangling(ns, b, d) ==
  /\ d \in 0 .. Len(b)
  /\ d # 0 => \E m \in ns : d < Len(m) /\ \A i \in 1 .. d : b[Len(b) - d + i] = m[i]
  /\ \A n \in ns, k \in 0 .. Len(b) :
       k < Len(n) /\ (\A i \in 1 .. k : b[Len(b) - k + i] = n[i]) => k <= d

\* What longest_dangling_prefix finds is the longest such end.
LEMMA DanglingIs ==
  ASSUME NEW ns \in SUBSET Secret, NEW b \in Seq(Symbols), NEW d, d = LongestDanglingPrefix(ns, b)
  PROVE  IsDangling(ns, b, d)
<1> DEFINE Fits(k, n) == k < Len(n) /\ SubSeq(b, Len(b) - k + 1, Len(b)) = SubSeq(n, 1, k)
           ks == {0} \cup {k \in 0 .. Len(b) : \E n \in ns : Fits(k, n)}
<1>1. Len(b) \in Nat /\ ks \in SUBSET (0 .. Len(b)) /\ 0 \in ks
  OBVIOUS
<1>2. d = CHOOSE k \in ks : \A j \in ks : j <= k
  BY DEF LongestDanglingPrefix
<1>3. \E k \in ks : \A j \in ks : j <= k
  <2> HIDE DEF ks
  <2> QED BY <1>1, Greatest
<1>4. d \in ks /\ \A j \in ks : j <= d
  <2> HIDE DEF ks
  <2> QED BY <1>2, <1>3
<1>5. \A n \in ns, k \in 0 .. Len(b) : Fits(k, n) <=> k < Len(n) /\ \A i \in 1 .. k : b[Len(b) - k + i] = n[i]
  BY SuffixIs, SecretIs
<1> HIDE DEF Fits
<1>6. d # 0 => \E m \in ns : Fits(d, m)
  BY <1>4
<1>7. d \in 0 .. Len(b)
  BY <1>1, <1>4
<1>8. \A n \in ns, k \in 0 .. Len(b) : Fits(k, n) => k <= d
  BY <1>4
<1> HIDE DEF ks
<1> QED BY <1>5, <1>6, <1>7, <1>8 DEF IsDangling

\* A text at whose end no secret begins can be shown as a whole.
LEMMA NothingDangles ==
  ASSUME NEW ns \in SUBSET Secret, NEW b \in Seq(Symbols), NEW p \in Seq(Symbols), NEW q,
         Len(p) = Len(b), \A i \in 1 .. Len(b) : p[i] = b[i], IsDangling(ns, b, 0)
  PROVE  Held(ns, p, q)
<1> DEFINE B == Len(b)
<1> SUFFICES ASSUME NEW n \in ns, NEW j \in 1 .. Len(n) - 1, EndsWith(p, n, j)
             PROVE  FALSE
  BY Zenon DEF Held
<1>1. Len(n) \in Nat /\ B \in Nat
  BY SecretIs
<1>2. j <= B /\ \A k \in 1 .. j : p[B - j + k] = n[k]
  BY DEF EndsWith
<1>3. \A k \in 1 .. j : B - j + k \in 1 .. B
  BY <1>1, <1>2
<1>4. \A k \in 1 .. j : b[B - j + k] = n[k]
  BY <1>2, <1>3
<1>5. j \in 0 .. B /\ j < Len(n) /\ ~(j <= 0)
  BY <1>1, <1>2
<1> QED BY <1>4, <1>5 DEF IsDangling

\* No secret begins as another ends.
Apart(ns) ==
  \A m, n \in ns : \A k \in 1 .. Len(m) - 1 :
    ~(Len(m) - k <= Len(n) /\ \A i \in 1 .. Len(m) - k : n[i] = m[k + i])

Across(B, c, d, j, D) ==
  B \in Nat /\ c \in Nat /\ d \in Nat /\ j \in Nat /\ D \in Nat /\ c + d = B /\ j >= 1 /\ j <= c /\ d < D - j

Inside(B, c, d, j, D) ==
  B \in Nat /\ c \in Nat /\ d \in Nat /\ j \in Nat /\ D \in Nat /\ c + d = B /\ d >= D - j

\* Positions of an occurrence that spans a cut and goes on past the end.
LEMMA TwoEnds ==
  ASSUME NEW B, NEW c, NEW d, NEW j, NEW D, Across(B, c, d, j, D)
  PROVE  /\ j + d \in 0 .. B /\ j + d < D /\ ~(j + d <= d)
         /\ \A i \in 1 .. j + d : i > j =>
              /\ i - j \in 1 .. d /\ i - j \in 1 .. D - j /\ i - j <= d
              /\ B - (j + d) + i = c + (i - j) /\ j + (i - j) = i
BY DEF Across

\* Positions of an occurrence that spans a cut and ends inside the text.
LEMMA WithinEnd ==
  ASSUME NEW B, NEW c, NEW d, NEW j, NEW D, Inside(B, c, d, j, D)
  PROVE  \A i \in 1 .. D - j : i \in 1 .. d /\ i <= d /\ B - d + i = c + i
BY DEF Inside

\* A text of length B cut in two with d symbols after the cut.
EndSplit(b, d, p, q) ==
  /\ Len(p) \in Nat /\ Len(p) + d = Len(b) /\ Len(q) = d
  /\ \A i \in 1 .. Len(p) : p[i] = b[i]
  /\ \A i \in 1 .. d : q[i] = b[Len(p) + i]

\* A cut counted from the end.
LEMMA CutFromEnd ==
  ASSUME NEW b \in Seq(Symbols), NEW p, NEW q, NEW d \in 0 .. Len(b), IsCut(b, Len(b) - d, p, q)
  PROVE  EndSplit(b, d, p, q)
<1> DEFINE c == Len(b) - d
<1>1. c \in Nat /\ c <= Len(b) /\ Len(b) - c = d /\ c + d = Len(b)
  OBVIOUS
<1>2. IsCut(b, c, p, q)
  OBVIOUS
<1> HIDE DEF c
<1>3. /\ Len(p) = c /\ Len(q) = Len(b) - c
      /\ \A i \in 1 .. c : p[i] = b[i]
      /\ \A i \in 1 .. Len(b) - c : q[i] = b[c + i]
  <2>1. IsSplit(b, c, p, q)
    BY Zenon, <1>1, <1>2, CutInTwo
  <2> QED BY <2>1 DEF IsSplit
<1> QED BY <1>1, <1>3 DEF EndSplit

\* Cut before the longest end that begins a secret, a text holds nothing that
\* what is held back could complete.
LEMMA DanglingHolds ==
  ASSUME NEW ns \in SUBSET Secret, Apart(ns), NEW b \in Seq(Symbols), NEW p \in Seq(Symbols), NEW q \in Seq(Symbols),
         NEW d, d = LongestDanglingPrefix(ns, b), IsCut(b, Len(b) - d, p, q)
  PROVE  Held(ns, p, q)
<1>30. /\ d \in 0 .. Len(b)
       /\ d # 0 => \E m \in ns : d < Len(m) /\ \A i \in 1 .. d : b[Len(b) - d + i] = m[i]
       /\ \A x \in ns, k \in 0 .. Len(b) :
            k < Len(x) /\ (\A i \in 1 .. k : b[Len(b) - k + i] = x[i]) => k <= d
  <2>1. IsDangling(ns, b, d)
    BY Zenon, DanglingIs
  <2> QED BY <2>1, Zenon DEF IsDangling
<1>31. /\ Len(p) \in Nat /\ Len(p) + d = Len(b) /\ Len(q) = d
       /\ \A i \in 1 .. Len(p) : p[i] = b[i]
       /\ \A i \in 1 .. d : q[i] = b[Len(p) + i]
  <2>1. d \in 0 .. Len(b)
    BY <1>30
  <2>2. EndSplit(b, d, p, q)
    BY <2>1, CutFromEnd, Zenon
  <2> QED BY <2>2, Zenon DEF EndSplit
<1>32. Len(b) \in Nat
  OBVIOUS
<1> DEFINE Same(n, j) == \A i \in 1 .. Len(n) - j : i <= Len(q) => q[i] = n[j + i]
<1> SUFFICES ASSUME NEW n \in ns, NEW j \in 1 .. Len(n) - 1, EndsWith(p, n, j), Same(n, j)
             PROVE  FALSE
  BY Zenon DEF Held
<1> HIDE DEF Same
<1> DEFINE B == Len(b)
           c == Len(p)
           D == Len(n)
<1>33. D \in Nat
  BY SecretIs
<1>34. j \in 1 .. D - 1
  OBVIOUS
<1>3. j <= c /\ \A k \in 1 .. j : p[c - j + k] = n[k]
  BY DEF EndsWith
<1> HIDE DEF B, c, D
<1>1. /\ d \in 0 .. B
      /\ d # 0 => \E m \in ns : d < Len(m) /\ \A i \in 1 .. d : b[B - d + i] = m[i]
      /\ \A k \in 0 .. B : k < D /\ (\A i \in 1 .. k : b[B - k + i] = n[i]) => k <= d
  <2>1. \A k \in 0 .. Len(b) : k < Len(n) /\ (\A i \in 1 .. k : b[Len(b) - k + i] = n[i]) => k <= d
    BY <1>30, Zenon
  <2> QED BY <1>30, <2>1 DEF B, D
<1>21. Len(q) = d /\ (\A i \in 1 .. c : p[i] = b[i]) /\ \A i \in 1 .. d : q[i] = b[c + i]
  BY <1>31 DEF B, c
<1>2. B \in Nat /\ c \in Nat /\ D \in Nat /\ d \in Nat /\ c + d = B /\ j \in Nat /\ j >= 1 /\ j <= D - 1
  <2>1. B \in Nat /\ c \in Nat /\ c + d = B
    BY <1>31, <1>32 DEF B, c
  <2> QED BY <1>1, <1>33, <1>34, <2>1
<1>4. CASE d < D - j
  <2>3. Across(B, c, d, j, D)
    BY <1>2, <1>3, <1>4 DEF Across
  <2> DEFINE k == j + d
  <2>1. k \in 0 .. B /\ k < D /\ ~(k <= d)
    BY Zenon, <2>3, TwoEnds
  <2>2. ASSUME NEW i \in 1 .. k PROVE b[B - k + i] = n[i]
    <3>1. CASE i <= j
      <4>1. i \in 1 .. j /\ B - k + i = c - j + i /\ c - j + i \in 1 .. c
        BY <1>2, <1>3, <3>1
      <4>2. p[c - j + i] = b[c - j + i]
        BY <1>21, <4>1
      <4> QED BY <1>3, <4>1, <4>2
    <3>2. CASE i > j
      <4>1. i - j \in 1 .. d /\ i - j \in 1 .. D - j /\ i - j <= d /\ B - k + i = c + (i - j) /\ j + (i - j) = i
        <5>1. \A x \in 1 .. j + d : x > j =>
              /\ x - j \in 1 .. d /\ x - j \in 1 .. D - j /\ x - j <= d
              /\ B - (j + d) + x = c + (x - j) /\ j + (x - j) = x
          BY <2>3, TwoEnds
        <5> QED BY Zenon, <3>2, <5>1 DEF k
      <4>2. q[i - j] = b[c + (i - j)]
        BY <1>21, <4>1
      <4>3. q[i - j] = n[j + (i - j)]
        BY <1>21, <4>1 DEF D, Same
      <4> QED BY <4>1, <4>2, <4>3
    <3> QED BY <1>2, <3>1, <3>2
  <2> HIDE DEF k
  <2> QED BY <1>1, <2>1, <2>2
<1>5. CASE d >= D - j
  <2>7. Inside(B, c, d, j, D)
    BY <1>2, <1>5 DEF Inside
  <2>1. d # 0
    BY <1>2, <1>5
  <2>2. PICK m \in ns : d < Len(m) /\ \A i \in 1 .. d : b[B - d + i] = m[i]
    BY <1>1, <2>1
  <2>3. Len(m) \in Nat
    BY SecretIs
  <2>4. D - j <= Len(m)
    BY <1>2, <1>5, <2>2, <2>3
  <2>5. ASSUME NEW i \in 1 .. D - j PROVE m[i] = n[j + i]
    <3>1. i \in 1 .. d /\ i <= d /\ B - d + i = c + i
      <4>1. \A x \in 1 .. D - j : x \in 1 .. d /\ x <= d /\ B - d + x = c + x
        BY <2>7, WithinEnd
      <4> QED BY Zenon, <4>1
    <3>2. q[i] = n[j + i]
      BY <1>21, <3>1 DEF D, Same
    <3>3. q[i] = b[c + i]
      BY <1>21, <3>1
    <3> QED BY <2>2, <3>1, <3>2, <3>3
  <2>6. j \in 1 .. D - 1
    BY <1>2
  <2> QED BY <2>4, <2>5, <2>6 DEF Apart, D
<1> QED BY <1>2, <1>4, <1>5

(***************************************************************************)
(* The specification.                                                      *)
(***************************************************************************)
Lent == [view : Nat, value : Seq(Symbols \ {Marker}), at : Nat]
View == [id : Nat, expires : Nat, consumed : BOOLEAN]

SecretsShape ==
  /\ vault.form = "sealed" => vault.entries \in Entries
  /\ \A i \in DOMAIN store : i \in Nat /\ store[i].value \in Seq(Symbols \ {Marker})
  /\ needles # {} => needles = Register(store)
  /\ needles \in SUBSET Secret /\ clock \in Nat
  /\ views \in Seq(View) /\ lent \in Seq(Lent)
  /\ buffer \in Seq(Symbols) /\ said \in Seq(Symbols) /\ shown \in Seq(Visible)

\* A view is of a secret of the store, and only a broker hands one out; what was
\* lent is registered; and the stream waits for the broker.
BrokerFirst ==
  /\ views # <<>> => needles # {}
  /\ \A v \in 1 .. Len(views) : views[v].id \in DOMAIN store
  /\ \A k \in 1 .. Len(lent) : lent[k].value # <<>> => lent[k].value \in needles
  /\ needles = {} => shown = <<>> /\ buffer = <<>>

StreamHolds ==
  OneLine /\ (Unbordered \/ ~split) =>
    Clean(needles, shown) /\ (~ended => Held(needles, shown, buffer))

SecretsInv == SecretsShape /\ BrokerFirst /\ StreamHolds

\* What a store holds after insert comes from the entries inserted.
LEMMA InsertIs ==
  ASSUME NEW es \in Entries
  PROVE  \A i \in DOMAIN Insert(es) : i \in Nat /\ Insert(es)[i].value \in Seq(Symbols \ {Marker})
<1>1. es \in Seq([id : Nat, label : STRING, value : Seq(Symbols \ {Marker})])
  BY SecretsAssumption
<1>2. DOMAIN es = 1 .. Len(es) /\ Len(es) \in Nat
  BY <1>1
<1>3. \A k \in DOMAIN es : es[k].id \in Nat /\ es[k].value \in Seq(Symbols \ {Marker})
  <2> DEFINE E == [id : Nat, label : STRING, value : Seq(Symbols \ {Marker})]
  <2>1. \A k \in DOMAIN es : es[k] \in E
    <3>1. es \in Seq(E)
      BY <1>1
    <3> HIDE DEF E
    <3> QED BY <3>1
  <2> QED BY <2>1
<1> SUFFICES ASSUME NEW i \in {es[k].id : k \in DOMAIN es}
             PROVE  i \in Nat /\ Insert(es)[i].value \in Seq(Symbols \ {Marker})
  BY DEF Insert
<1> DEFINE T == {k \in DOMAIN es : es[k].id = i}
           k == CHOOSE k \in DOMAIN es : es[k].id = i /\ \A j \in DOMAIN es : es[j].id = i => j <= k
<1>4. T # {} /\ T \in SUBSET (0 .. Len(es))
  BY <1>2
<1>5. \E x \in T : \A y \in T : y <= x
  <2> HIDE DEF T
  <2> QED BY <1>2, <1>4, Greatest
<1>6. \E x \in DOMAIN es : es[x].id = i /\ \A j \in DOMAIN es : es[j].id = i => j <= x
  BY <1>5
<1>7. k \in DOMAIN es
  <2> HIDE DEF T
  <2> QED BY <1>6
<1>8. Insert(es)[i] = [label |-> es[k].label, value |-> es[k].value]
  BY DEF Insert
<1> HIDE DEF k
<1> QED BY <1>3, <1>7, <1>8

\* What a redactor registers are secrets.
LEMMA RegisterIs ==
  ASSUME NEW st, \A i \in DOMAIN st : st[i].value \in Seq(Symbols \ {Marker})
  PROVE  Register(st) \in SUBSET Secret
BY DEF Register, Secret

\* What Unbordered and OneLine say of the registered secrets.
LEMMA UnborderedIs ==
  ASSUME SecretsShape
  PROVE  /\ Unbordered => Apart(needles)
         /\ OneLine => \A n \in needles : \A k \in 1 .. Len(n) : n[k] # Newline
<1>1. ASSUME Unbordered, NEW m \in needles, NEW n \in needles, NEW k \in 1 .. Len(m) - 1,
             Len(m) - k <= Len(n), \A i \in 1 .. Len(m) - k : n[i] = m[k + i]
      PROVE  FALSE
  <2> DEFINE D == Len(m)
             u == SubSeq(m, k + 1, D)
  <2>1. D \in Nat /\ k \in Nat /\ k >= 1 /\ k <= D - 1 /\ m \in Seq(Symbols) /\ n \in Seq(Symbols) /\ Len(n) \in Nat
    BY SecretIs DEF SecretsShape
  <2>2. u \in Seq(Symbols) /\ Len(u) = D - k /\ \A i \in 1 .. D - k : u[i] = m[k + i]
    <3> HIDE DEF D
    <3>1. k + 1 \in Int /\ D \in Int /\ k + 1 <= D /\ D - (k + 1) + 1 = D - k
      BY <2>1
    <3>2. \A i \in k + 1 .. D : i \in 1 .. D
      BY <2>1
    <3>3. \A i \in k + 1 .. D : m[i] \in Symbols
      BY <2>1, <3>2 DEF D
    <3>4. /\ u \in Seq(Symbols) /\ Len(u) = D - (k + 1) + 1
          /\ \A i \in 1 .. D - (k + 1) + 1 : u[i] = m[(k + 1) + i - 1]
      BY <3>1, <3>3, SubSeqProperties
    <3>5. \A i \in 1 .. D - k : i \in 1 .. D - (k + 1) + 1 /\ (k + 1) + i - 1 = k + i
      BY <2>1
    <3> HIDE DEF u
    <3> QED BY <3>1, <3>4, <3>5
  <2> HIDE DEF u
  <2>3. Len(u) <= Len(n) /\ Len(u) \in Nat
    BY <1>1, <2>2
  <2>4. SubSeq(u, 1, Len(u)) = SubSeq(n, 1, Len(u))
    <3> DEFINE z == Len(u)
    <3>1. SubSeq(u, 1, z) \in Seq(Symbols) /\ Len(SubSeq(u, 1, z)) = z /\ \A i \in 1 .. z : SubSeq(u, 1, z)[i] = u[i]
      BY <2>2, <2>3
    <3>2. SubSeq(n, 1, z) \in Seq(Symbols) /\ Len(SubSeq(n, 1, z)) = z /\ \A i \in 1 .. z : SubSeq(n, 1, z)[i] = n[i]
      BY <2>1, <2>3
    <3>3. \A i \in 1 .. z : u[i] = n[i]
      BY <1>1, <2>2
    <3>4. \A i \in 1 .. Len(SubSeq(u, 1, z)) : SubSeq(u, 1, z)[i] = SubSeq(n, 1, z)[i]
      BY <3>1, <3>2, <3>3
    <3> HIDE DEF z
    <3>5. SubSeq(u, 1, z) = SubSeq(n, 1, z)
      BY <3>1, <3>2, <3>4, SeqEqual
    <3> QED BY <3>5 DEF z
  <2>5. IsPrefix(u, n)
    BY <2>3, <2>4 DEF IsPrefix
  <2> QED BY <1>1, <2>5 DEF Unbordered, u
<1>2. OneLine => \A n \in needles : \A k \in 1 .. Len(n) : n[k] # Newline
  <2>1. \A n \in needles : DOMAIN n = 1 .. Len(n)
    BY SecretIs DEF SecretsShape
  <2> QED BY <2>1 DEF OneLine
<1> QED BY <1>1, <1>2 DEF Apart

\* Nothing is shown and nothing registered at the start.
LEMMA SecretsStart ==
  ASSUME SecretsInit
  PROVE  SecretsInv
<1> USE DEF SecretsInit
<1>1. SecretsShape
  BY DEF SecretsShape, NoStore
<1>2. BrokerFirst
  BY DEF BrokerFirst
<1>3. StreamHolds
  BY DEF StreamHolds, Held, Clean
<1> QED BY <1>1, <1>2, <1>3 DEF SecretsInv

\* A step before the broker, or beside the stream.
LEMMA BesideStream ==
  ASSUME SecretsInv, SecretsShape', BrokerFirst',
         UNCHANGED <<needles, shown, buffer, ended, split>>
  PROVE  SecretsInv'
<1>1. Unbordered' = Unbordered /\ OneLine' = OneLine /\ split' = split
  BY DEF Unbordered, OneLine
<1>2. StreamHolds'
  BY <1>1 DEF SecretsInv, StreamHolds
<1> QED BY <1>2 DEF SecretsInv

\* Sealing, opening and loading a store leave the stream alone.
LEMMA VaultSteps ==
  ASSUME SecretsInv, NEW es \in Entries, NEW pass,
         SealVault(es, pass) \/ LoadKeychain(es) \/ OpenVault(pass)
  PROVE  SecretsInv'
<1> USE DEF SecretsInv
<1>1. needles = {} /\ UNCHANGED <<needles, views, lent, buffer, said, shown, ended, split, clock>>
  BY DEF SealVault, LoadKeychain, OpenVault, brokerVars
<1>2. vault' = vault \/ vault' = [form |-> "torn"] \/ vault' = [form |-> "sealed", pass |-> pass, entries |-> es]
  BY DEF SealVault, LoadKeychain, OpenVault
<1>3. vault'.form = "sealed" => vault'.entries \in Entries
  BY <1>2 DEF SecretsShape
<1>4. store' = store \/ \E x \in Entries : store' = Insert(x)
  BY DEF SealVault, LoadKeychain, OpenVault, Decrypts, SecretsShape
<1>5. \A i \in DOMAIN store' : i \in Nat /\ store'[i].value \in Seq(Symbols \ {Marker})
  BY <1>4, InsertIs DEF SecretsShape
<1>6. SecretsShape'
  BY <1>1, <1>3, <1>5 DEF SecretsShape
<1>7. BrokerFirst'
  <2>1. views = <<>>
    BY <1>1 DEF BrokerFirst
  <2> QED BY <1>1, <2>1 DEF BrokerFirst
<1> QED BY <1>1, <1>6, <1>7, BesideStream

\* A broker starts with its redactor and an empty stream.
LEMMA NewBrokerKeeps ==
  ASSUME SecretsInv, NewBroker
  PROVE  SecretsInv'
<1> USE DEF SecretsInv, NewBroker
<1>1. SecretsShape'
  <2>1. Register(store) \in SUBSET Secret
    BY RegisterIs DEF SecretsShape
  <2>2. (needles = Register(store))'
    BY DEF Register
  <2> QED BY <2>1, <2>2 DEF SecretsShape
<1>2. BrokerFirst'
  <2>1. views = <<>> /\ \A k \in 1 .. Len(lent) : lent[k].value = <<>>
    BY DEF BrokerFirst
  <2>2. shown = <<>> /\ buffer = <<>> /\ needles = {}
    BY DEF BrokerFirst
  <2> QED BY <2>1, <2>2 DEF BrokerFirst
<1>3. StreamHolds'
  <2>1. shown = <<>>
    BY DEF BrokerFirst
  <2>2. \A ns : Clean(ns, <<>>)
    BY DEF Clean, Occurs
  <2>3. \A ns, buf : Held(ns, <<>>, buf)
    BY DEF Held, EndsWith
  <2> QED BY <2>1, <2>2, <2>3 DEF StreamHolds
<1> QED BY <1>1, <1>2, <1>3

\* Authorizing, exposing and the passing of time leave the stream alone.
LEMMA BrokerSteps ==
  ASSUME SecretsInv, SecretTick \/ (\E id \in DOMAIN store : Authorize(id)) \/ (\E v \in DOMAIN views : Expose(v))
  PROVE  SecretsInv'
<1> USE DEF SecretsInv
<1>1. CASE SecretTick
  <2>1. SecretsShape'
    BY <1>1 DEF SecretTick, SecretsShape, brokerVars, Register
  <2>2. BrokerFirst'
    BY <1>1 DEF SecretTick, BrokerFirst, brokerVars
  <2>3. UNCHANGED <<needles, shown, buffer, ended, split>>
    BY <1>1 DEF SecretTick, brokerVars
  <2> QED BY <2>1, <2>2, <2>3, BesideStream
<1>2. ASSUME NEW id \in DOMAIN store, Authorize(id) PROVE SecretsInv'
  <2> DEFINE x == [id |-> id, expires |-> clock + Ttl, consumed |-> FALSE]
  <2>1. x \in View /\ views \in Seq(View)
    <3>1. id \in Nat /\ clock + Ttl \in Nat
      BY SecretsAssumption DEF SecretsShape
    <3> QED BY <3>1 DEF View, SecretsShape
  <2>2. views' = Append(views, x) /\ needles # {}
    BY <1>2 DEF Authorize, Serving
  <2>3. x.id = id
    OBVIOUS
  <2> HIDE DEF x
  <2>4. views' \in Seq(View) /\ \A v \in 1 .. Len(views') :
         (v \in 1 .. Len(views) /\ views'[v] = views[v]) \/ views'[v] = x
    <3>1. /\ views' \in Seq(View) /\ Len(views') = Len(views) + 1
          /\ \A v \in 1 .. Len(views) : views'[v] = views[v]
          /\ views'[Len(views) + 1] = x
      BY <2>1, <2>2, AppendProperties
    <3>2. \A v \in 1 .. Len(views) + 1 : v \in 1 .. Len(views) \/ v = Len(views) + 1
      BY <2>1
    <3> QED BY <3>1, <3>2
  <2>5. UNCHANGED <<vault, store, needles, lent, clock, buffer, said, shown, ended, split>>
    BY <1>2 DEF Authorize
  <2>6. SecretsShape'
    BY <2>4, <2>5 DEF SecretsShape, Register
  <2>7. BrokerFirst'
    BY <2>2, <2>3, <2>4, <2>5 DEF BrokerFirst
  <2> QED BY <2>5, <2>6, <2>7, BesideStream
<1>3. ASSUME NEW v \in DOMAIN views, Expose(v) PROVE SecretsInv'
  <2> DEFINE x == [view |-> v, value |-> store[views[v].id].value, at |-> clock]
  <2>1. /\ views \in Seq(View) /\ v \in 1 .. Len(views) /\ v \in Nat /\ views[v].id \in DOMAIN store
        /\ views # <<>> /\ needles # {}
    <3>1. views \in Seq(View)
      BY DEF SecretsShape
    <3>2. v \in 1 .. Len(views) /\ v \in Nat /\ views # <<>>
      BY <3>1
    <3> QED BY <3>1, <3>2 DEF BrokerFirst
  <2>2. x \in Lent /\ lent \in Seq(Lent) /\ (x.value # <<>> => x.value \in needles)
    <3>1. store[views[v].id].value \in Seq(Symbols \ {Marker})
      BY <2>1 DEF SecretsShape
    <3>2. needles = Register(store)
      BY <2>1 DEF SecretsShape
    <3> QED BY <2>1, <3>1, <3>2 DEF Lent, SecretsShape, Register
  <2>3. lent' = Append(lent, x) /\ views' = [views EXCEPT ![v].consumed = TRUE]
    BY <1>3 DEF Expose
  <2> HIDE DEF x
  <2>4. lent' \in Seq(Lent) /\ \A k \in 1 .. Len(lent') :
         (k \in 1 .. Len(lent) /\ lent'[k] = lent[k]) \/ lent'[k] = x
    <3>1. /\ lent' \in Seq(Lent) /\ Len(lent') = Len(lent) + 1
          /\ \A k \in 1 .. Len(lent) : lent'[k] = lent[k]
          /\ lent'[Len(lent) + 1] = x
      BY <2>2, <2>3, AppendProperties
    <3>2. \A k \in 1 .. Len(lent) + 1 : k \in 1 .. Len(lent) \/ k = Len(lent) + 1
      BY <2>2
    <3> QED BY <3>1, <3>2
  <2>5. views' \in Seq(View) /\ Len(views') = Len(views) /\ \A w \in 1 .. Len(views) : views'[w].id = views[w].id
    <3> DEFINE y == [views[v] EXCEPT !.consumed = TRUE]
    <3>1. views[v] \in View
      BY <2>1
    <3>2. y \in View /\ y.id = views[v].id
      BY <3>1 DEF View
    <3>3. views' = [views EXCEPT ![v] = y]
      BY <2>3
    <3> HIDE DEF y
    <3> QED BY <2>1, <3>2, <3>3
  <2>6. UNCHANGED <<vault, store, needles, clock, buffer, said, shown, ended, split>>
    BY <1>3 DEF Expose
  <2>7. SecretsShape'
    BY <2>4, <2>5, <2>6 DEF SecretsShape, Register
  <2>8. BrokerFirst'
    BY <2>1, <2>2, <2>4, <2>5, <2>6 DEF BrokerFirst
  <2> QED BY <2>6, <2>7, <2>8, BesideStream
<1> QED BY <1>1, <1>2, <1>3

\* Nothing shown ends as no secret begins.
LEMMA NothingEndsEmpty ==
  ASSUME NEW ns, NEW q
  PROVE  Held(ns, <<>>, q)
BY DEF Held, EndsWith

\* A token shows the part of the buffer that no secret can reach into.
LEMMA AcceptTokenKeeps ==
  ASSUME SecretsInv, NEW t \in Tokens, AcceptToken(t)
  PROVE  SecretsInv'
<1> USE DEF SecretsInv
<1> DEFINE b == buffer \o t
           newlines == {i \in DOMAIN b : b[i] = Newline}
           d == LongestDanglingPrefix(needles, b)
           c == IF newlines # {} THEN CHOOSE i \in newlines : \A j \in newlines : j <= i
                ELSE IF Len(b) >= MaxBuffer THEN Len(b) - d ELSE 0
           p == SubSeq(b, 1, c)
           q == SubSeq(b, c + 1, Len(b))
<1>1. /\ shown' = shown \o Redact(needles, p) /\ buffer' = q /\ said' = said \o t
      /\ UNCHANGED <<vault, store, opened, needles, views, lent, clock, ended>> /\ needles # {} /\ ~ended
      /\ split' = (split \/ (newlines = {} /\ 0 < c /\ c < Len(b)))
  BY DEF AcceptToken, Emit, Serving
<1>2. /\ t \in Seq(Symbols) /\ buffer \in Seq(Symbols) /\ said \in Seq(Symbols) /\ shown \in Seq(Visible)
      /\ needles \in SUBSET Secret
  BY SecretsAssumption DEF SecretsShape
<1>3. /\ b \in Seq(Symbols) /\ Len(b) \in Nat /\ DOMAIN b = 1 .. Len(b) /\ Len(buffer) <= Len(b)
      /\ \A i \in 1 .. Len(buffer) : b[i] = buffer[i]
  <2>1. /\ b \in Seq(Symbols) /\ Len(b) = Len(buffer) + Len(t)
        /\ \A i \in 1 .. Len(buffer) + Len(t) : b[i] = IF i <= Len(buffer) THEN buffer[i] ELSE t[i - Len(buffer)]
    BY <1>2, ConcatProperties
  <2>2. Len(buffer) \in Nat /\ Len(t) \in Nat
    BY <1>2
  <2>3. \A i \in 1 .. Len(buffer) : i \in 1 .. Len(buffer) + Len(t) /\ i <= Len(buffer)
    BY <2>2
  <2> HIDE DEF b
  <2> QED BY <2>1, <2>2, <2>3
<1> HIDE DEF b
<1>4. d \in 0 .. Len(b)
  <2>1. IsDangling(needles, b, d)
    BY <1>2, <1>3, DanglingIs, Zenon
  <2> HIDE DEF d, b
  <2> QED BY <2>1, Zenon DEF IsDangling
<1>5. newlines # {} => c \in newlines /\ c \in 1 .. Len(b)
  <2> SUFFICES ASSUME newlines # {} PROVE c \in newlines /\ c \in 1 .. Len(b)
    OBVIOUS
  <2>1. newlines \in SUBSET (0 .. Len(b))
    BY <1>3
  <2>2. \E i \in newlines : \A j \in newlines : j <= i
    <3> HIDE DEF newlines
    <3> QED BY <1>3, <2>1, Greatest
  <2>3. c \in newlines
    <3> HIDE DEF newlines
    <3> QED BY <2>2
  <2> HIDE DEF c
  <2> QED BY <1>3, <2>3
<1>6. c \in 0 .. Len(b)
  <2>1. CASE newlines # {}
    <3> HIDE DEF c, newlines
    <3> QED BY <1>3, <1>5, <2>1
  <2>2. CASE newlines = {}
    <3>1. c = Len(b) - d \/ c = 0
      BY <2>2
    <3> HIDE DEF c, d
    <3> QED BY <1>3, <1>4, <3>1
  <2> QED BY <2>1, <2>2
<1> HIDE DEF d
<1>7. /\ p \in Seq(Symbols) /\ q \in Seq(Symbols) /\ Len(p) = c /\ Len(q) = Len(b) - c
      /\ \A i \in 1 .. c : p[i] = b[i]
      /\ \A i \in 1 .. Len(b) - c : q[i] = b[c + i]
  <2>1. IsCut(b, c, p, q)
    BY DEF IsCut
  <2> HIDE DEF c, p, q, newlines
  <2>2. c \in Nat /\ c <= Len(b)
    BY <1>3, <1>6
  <2>3. b \in Seq(Symbols)
    BY <1>3
  <2>4. IsSplit(b, c, p, q)
    BY Zenon, <2>1, <2>2, <2>3, CutInTwo
  <2> QED BY <2>4 DEF IsSplit
<1> HIDE DEF p, q
<1>8. shown' \in Seq(Visible)
  BY <1>1, <1>2, <1>7, RedactType, ConcatProperties
<1>9. SecretsShape'
  <2>1. said \o t \in Seq(Symbols)
    BY <1>2
  <2> QED BY <1>1, <1>7, <1>8, <2>1 DEF SecretsShape, Register
<1>10. BrokerFirst'
  BY <1>1 DEF BrokerFirst
<1>11. StreamHolds'
  <2>1. Unbordered' = Unbordered /\ OneLine' = OneLine /\ (~split' => ~split)
    BY <1>1 DEF Unbordered, OneLine
  <2> SUFFICES ASSUME OneLine, Unbordered \/ ~split'
               PROVE  /\ Clean(needles, shown \o Redact(needles, p))
                      /\ Held(needles, shown \o Redact(needles, p), q)
    BY <1>1, <2>1 DEF StreamHolds
  <2>2. /\ Clean(needles, shown)
        /\ Held(needles, shown, buffer)
    BY <1>1, <2>1 DEF StreamHolds
  <2>3. (Unbordered => Apart(needles)) /\ \A n \in needles : \A k \in 1 .. Len(n) : n[k] # Newline
    BY UnborderedIs
  <2>4. Len(buffer) \in Nat /\ c \in Nat /\ c <= Len(b)
    <3> HIDE DEF c
    <3> QED BY <1>2, <1>3, <1>6
  <2>5. Held(needles, p, q)
    <3>1. CASE newlines # {}
      <4>1. c \in 1 .. Len(b) /\ b[c] = Newline
        <5> HIDE DEF c
        <5> QED BY <1>5, <3>1
      <4> HIDE DEF c
      <4>2. p[c] = Newline /\ c \in Nat /\ c >= 1
        BY <1>7, <2>4, <4>1
      <4>3. ASSUME NEW n \in needles, NEW j \in 1 .. Len(n) - 1, EndsWith(p, n, j) PROVE FALSE
        <5>1. Len(n) \in Nat
          BY <1>2, SecretIs
        <5>2. j \in 1 .. j /\ c - j + j = c /\ j \in 1 .. Len(n)
          BY <2>4, <5>1
        <5>3. p[c - j + j] = n[j]
          BY <1>7, <4>3, <5>2 DEF EndsWith
        <5> QED BY <2>3, <4>2, <5>2, <5>3
      <4> QED BY <4>3 DEF Held
    <3>2. CASE newlines = {} /\ Len(b) >= MaxBuffer
      <4>1. c = Len(b) - d
        BY <3>2
      <4> HIDE DEF c
      <4>2. Len(q) = d /\ Len(p) = Len(b) - d /\ d \in Nat /\ Len(b) - c = d
        <5> DEFINE B == Len(b)
        <5>1. B \in Nat /\ d \in 0 .. B /\ c = B - d /\ Len(p) = c /\ Len(q) = B - c
          BY <1>3, <1>4, <1>7, <4>1
        <5> HIDE DEF B
        <5>2. d \in Nat /\ B - c = d
          BY <5>1
        <5> QED BY <5>1, <5>2 DEF B
      <4>3. IsCut(b, Len(b) - d, p, q)
        BY <4>1 DEF IsCut, p, q
      <4>4. CASE Unbordered
        BY <1>2, <1>3, <1>7, <2>3, <4>3, <4>4, DanglingHolds DEF d
      <4>5. CASE ~split' /\ c = 0
        <5>1. p \in Seq(Symbols) /\ Len(p) = 0
          BY <1>7, <4>5
        <5>2. p = <<>>
          BY <5>1
        <5> QED BY <5>2, NothingEndsEmpty
      <4>6. CASE ~split' /\ c = Len(b)
        <5>1. d = 0
          BY <1>3, <1>4, <4>1, <4>6
        <5>2. IsDangling(needles, b, 0)
          BY <1>2, <1>3, <5>1, DanglingIs DEF d
        <5> QED BY <1>2, <1>3, <1>7, <4>6, <5>2, NothingDangles
      <4>7. CASE ~split'
        <5> DEFINE B == Len(b)
        <5>1. B \in Nat /\ c \in Nat /\ c <= B
          BY <1>3, <2>4
        <5>2. ~(0 < c /\ c < B)
          BY <1>1, <3>2, <4>7
        <5> HIDE DEF B
        <5>3. c = 0 \/ c = B
          BY <5>1, <5>2
        <5> QED BY <4>5, <4>6, <4>7, <5>3 DEF B
      <4> QED BY <4>4, <4>7
    <3>3. CASE newlines = {} /\ ~(Len(b) >= MaxBuffer)
      <4>1. c = 0
        BY <3>3
      <4> HIDE DEF c, newlines
      <4>2. p \in Seq(Symbols) /\ Len(p) = 0
        BY <1>7, <4>1
      <4>3. p = <<>>
        BY <4>2
      <4> QED BY <4>3, NothingEndsEmpty
    <3> QED BY <3>1, <3>2, <3>3
  <2> HIDE DEF c
  <2>6. Agree(buffer, p)
    <3>1. \A i \in Nat : i >= 1 /\ i <= Len(p) /\ i <= Len(buffer) => p[i] = buffer[i]
      <4>1. \A i \in Nat : i >= 1 /\ i <= Len(p) /\ i <= Len(buffer) => i \in 1 .. c /\ i \in 1 .. Len(buffer)
        BY <1>7, <2>4
      <4> QED BY <1>3, <1>7, <4>1
    <3> QED BY <1>7, <2>4, <3>1 DEF Agree
  <2>7. GoesOn(buffer, p, q)
    <3> SUFFICES ASSUME NEW i \in 1 .. Len(buffer), i > c PROVE i - c <= Len(q) /\ q[i - c] = buffer[i]
      BY <1>7 DEF GoesOn
    <3>1. i \in Nat /\ i - c \in 1 .. Len(b) - c /\ c + (i - c) = i /\ i - c <= Len(b) - c
      <4> DEFINE B == Len(b)
      <4>1. B \in Nat /\ i \in Nat /\ i <= B /\ c \in Nat
        BY <1>3, <2>4
      <4> HIDE DEF B
      <4>2. i - c \in 1 .. B - c /\ c + (i - c) = i /\ i - c <= B - c
        BY <4>1
      <4> QED BY <4>1, <4>2 DEF B
    <3>2. q[i - c] = b[i]
      BY <1>7, <3>1
    <3>3. b[i] = buffer[i]
      BY <1>3
    <3>4. Len(q) = Len(b) - c
      BY <1>7
    <3> QED BY Zenon, <3>1, <3>2, <3>3, <3>4
  <2>8. Clean(needles, shown \o Redact(needles, p))
    BY <1>2, <1>7, <2>2, <2>6, EmitIsClean
  <2>9. Held(needles, shown \o Redact(needles, p), q)
    BY <1>2, <1>7, <2>2, <2>5, <2>6, <2>7, EmitHolds
  <2> QED BY <2>8, <2>9
<1> QED BY <1>9, <1>10, <1>11

\* A flush shows the rest.
LEMMA FlushKeeps ==
  ASSUME SecretsInv, Flush
  PROVE  SecretsInv'
<1> USE DEF SecretsInv
<1>1. /\ shown' = shown \o Redact(needles, buffer) /\ buffer' = <<>> /\ ended' = TRUE /\ ~ended /\ needles # {}
      /\ UNCHANGED <<vault, store, opened, needles, views, lent, clock, said, split>>
  BY DEF Flush, Emit, Serving
<1>2. buffer \in Seq(Symbols) /\ shown \in Seq(Visible) /\ needles \in SUBSET Secret
  BY DEF SecretsShape
<1>3. shown' \in Seq(Visible)
  BY <1>1, <1>2, RedactType, ConcatProperties
<1>4. SecretsShape'
  BY <1>1, <1>3 DEF SecretsShape, Register
<1>5. BrokerFirst'
  BY <1>1 DEF BrokerFirst
<1>6. StreamHolds'
  <2>1. Unbordered' = Unbordered /\ OneLine' = OneLine
    BY <1>1 DEF Unbordered, OneLine
  <2>2. ASSUME OneLine, Unbordered \/ ~split PROVE Clean(needles, shown \o Redact(needles, buffer))
    <3>1. Clean(needles, shown) /\ Held(needles, shown, buffer)
      BY <1>1, <2>2 DEF StreamHolds
    <3>2. Agree(buffer, buffer)
      BY DEF Agree
    <3> QED BY <1>2, <3>1, <3>2, EmitIsClean
  <2> QED BY <1>1, <2>1, <2>2 DEF StreamHolds
<1> QED BY <1>4, <1>5, <1>6

\* Every step preserves the invariant.
LEMMA SecretsStep ==
  ASSUME SecretsInv, [SecretsNext]_secretVars
  PROVE  SecretsInv'
<1>1. CASE UNCHANGED secretVars
  <2>1. SecretsShape' /\ BrokerFirst' /\ UNCHANGED <<needles, shown, buffer, ended, split>>
    BY <1>1 DEF secretVars, SecretsInv, SecretsShape, BrokerFirst, Register
  <2> QED BY <2>1, BesideStream
<1>2. ASSUME NEW es \in Entries, SealVault(es, "pw") \/ LoadKeychain(es) PROVE SecretsInv'
  BY <1>2, VaultSteps
<1>3. ASSUME NEW pass, OpenVault(pass) PROVE SecretsInv'
  <2> USE DEF SecretsInv
  <2>1. needles = {} /\ UNCHANGED <<vault, needles, views, lent, buffer, said, shown, ended, split, clock>>
    BY <1>3 DEF OpenVault, brokerVars
  <2>2. store' = store \/ \E x \in Entries : store' = Insert(x)
    BY <1>3 DEF OpenVault, Decrypts, SecretsShape
  <2>3. \A i \in DOMAIN store' : i \in Nat /\ store'[i].value \in Seq(Symbols \ {Marker})
    BY <2>2, InsertIs DEF SecretsShape
  <2>4. SecretsShape'
    BY <2>1, <2>3 DEF SecretsShape
  <2>5. BrokerFirst'
    BY <2>1 DEF BrokerFirst
  <2> QED BY <2>1, <2>4, <2>5, BesideStream
<1>4. CASE SecretTick \/ (\E id \in DOMAIN store : Authorize(id)) \/ (\E v \in DOMAIN views : Expose(v))
  BY <1>4, BrokerSteps
<1>5. ASSUME NEW t \in Tokens, AcceptToken(t) PROVE SecretsInv'
  BY <1>5, AcceptTokenKeeps
<1> QED BY <1>1, <1>2, <1>3, <1>4, <1>5, NewBrokerKeeps, FlushKeeps DEF SecretsNext

\* The invariant gives the property.
LEMMA SecretsInvShows ==
  ASSUME SecretsInv
  PROVE  NoSecretIsShown
<1> USE DEF SecretsInv
<1>1. RedactedTextIsClean
  BY RedactIsClean, RedactLeaves DEF RedactedTextIsClean, SecretsShape
<1>2. ASSUME Serving, OneLine, Unbordered \/ ~split, NEW i \in DOMAIN store, store[i].value # <<>>
      PROVE  ~Occurs(store[i].value, shown)
  <2>1. needles = Register(store)
    BY <1>2 DEF SecretsShape, Serving
  <2>2. store[i].value \in needles
    BY <1>2, <2>1 DEF Register
  <2> QED BY <1>2, <2>2 DEF StreamHolds, Clean
<1>3. \A k \in DOMAIN lent : lent[k].value # <<>> => lent[k].value \in needles
  BY DEF BrokerFirst, SecretsShape
<1> QED BY <1>1, <1>2, <1>3 DEF StreamShowsNoSecret, NoSecretIsShown

\* No registered secret is shown in a text redacted as a whole; and in a stream
\* of tokens no secret of one line is, as long as no secret begins as itself or
\* another ends, or no forced emit cut its buffer in two; for any tokens and
\* bounds (Redactor::redact, accept_token, flush).
THEOREM SecretsStaySecret == SecretsSpec => []NoSecretIsShown
<1>1. SecretsInit => SecretsInv
  BY SecretsStart
<1>2. SecretsInv /\ [SecretsNext]_secretVars => SecretsInv'
  BY SecretsStep
<1>3. SecretsInv => NoSecretIsShown
  BY SecretsInvShows
<1> QED BY <1>1, <1>2, <1>3, PTL DEF SecretsSpec

=============================================================================
