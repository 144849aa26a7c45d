------------------------------ MODULE EventLog ------------------------------
(***************************************************************************)
(* The hash-chained event log (crates/crustcore-eventlog): one writer that *)
(* appends frames in memory and persists the log with store_atomic, and    *)
(* the readers that verify, inspect and export the file.                   *)
(*                                                                         *)
(* A file is an inode: its bytes, and whether they have been synced.  The  *)
(* directory entry a crash may bring back until the directory is synced is *)
(* the variable durable.  Storage may damage a file at rest; the readers   *)
(* are what the chain protects.                                            *)
(*                                                                         *)
(* The bytes are abstracted to the sequence of frames they hold.  Garbage  *)
(* stands for a run of bytes that decode_at rejects, whatever the reason   *)
(* (wrong magic, version or discriminant, truncation).                     *)
(***************************************************************************)
EXTENDS Integers, Sequences, FiniteSetsExt

CONSTANTS
  Metas,       \* the FrameMeta values callers append
  Payloads,    \* the payloads callers append
  None,        \* no value
  MaxFrames,   \* bound on the frames of a log
  MaxFaults    \* bound on the storage faults of a behaviour

VARIABLES
  mem,      \* the writer's log: a sequence of frames, its head last
  path,     \* the inode at the log's path
  temp,     \* the inode at the temporary path
  durable,  \* the inode a crash may restore at the log's path
  pc,       \* the next step of store_atomic, or "idle", or "down"
  result,   \* what the last store_atomic returned
  faults,   \* number of storage faults so far
  stored    \* history: the logs store_atomic set out to persist

vars == <<mem, path, temp, durable, pc, result, faults, stored>>

\* What verify can say of a frame.
Reasons ==
  {"Undecodable", "PayloadHashMismatch", "FrameHashMismatch", "PrevHashMismatch", "NonMonotonicSeq"}
\* What export_jsonl shows in place of a payload.
Masks == {"<redacted>", "<internal>"}

ASSUME LogAssumption ==
  /\ MaxFrames \in Nat /\ MaxFaults \in Nat
  /\ None \notin Reasons \union {"HeadMismatch"}
  /\ Payloads \intersect Masks = {}

-----------------------------------------------------------------------------
(* Frames.                                                                 *)

\* Bytes that are no frame, and the lack of a file.
Garbage == [undecodable |-> TRUE]
NoFile == [absent |-> TRUE]

\* SHA-256, taken to be collision free: a digest is the value hashed.
Hash(x) == <<"sha256", x>>

\* GENESIS_PREV_HASH.
Genesis == <<"sha256">>

HeadHash(log) == IF log = << >> THEN Genesis ELSE log[Len(log)].frame_hash

\* The frame append writes for meta and payload behind the head `prev`.
Frame(meta, payload, prev) ==
  LET body == [meta |-> meta, payload |-> payload,
               payload_hash |-> Hash(payload), prev_hash |-> prev]
  IN  [body |-> body, frame_hash |-> Hash(body)]

-----------------------------------------------------------------------------
(* Readers.                                                                *)

\* Bug: the frame hash is not recomputed.
BreakReasonTrustingFrameHash(bytes, i) ==
  IF bytes[i] = Garbage THEN "Undecodable"
  ELSE IF Hash(bytes[i].body.payload) # bytes[i].body.payload_hash THEN "PayloadHashMismatch"
  ELSE IF bytes[i].body.prev_hash # HeadHash(SubSeq(bytes, 1, i - 1)) THEN "PrevHashMismatch"
  ELSE None

\* The first failing check of walk on frame i, or None.
BreakReason(bytes, i) ==
  IF bytes[i] = Garbage THEN "Undecodable"
  ELSE IF Hash(bytes[i].body.payload) # bytes[i].body.payload_hash THEN "PayloadHashMismatch"
  ELSE IF Hash(bytes[i].body) # bytes[i].frame_hash THEN "FrameHashMismatch"
  ELSE IF bytes[i].body.prev_hash # HeadHash(SubSeq(bytes, 1, i - 1)) THEN "PrevHashMismatch"
  ELSE IF i > 1 /\ bytes[i].body.meta.seq <= bytes[i - 1].body.meta.seq THEN "NonMonotonicSeq"
  ELSE None

\* The frames that verify: the longest prefix without a break.
Walk(bytes) ==
  LET good == {n \in 0 .. Len(bytes) :
                 \A i \in 1 .. n : BreakReason(bytes, i) = None}
  IN  SubSeq(bytes, 1, Max(good))

\* The ChainStatus of a walk; an intact chain has no reason.
Verify(bytes) ==
  LET n == Len(Walk(bytes))
  IN  [frames |-> n,
       reason |-> IF n = Len(bytes) THEN None ELSE BreakReason(bytes, n + 1)]

IsIntact(status) == status.reason = None

\* Bug: the anchor is not compared.
VerifyToHeadUnanchored(bytes, expected_head) == Verify(bytes)

VerifyToHead(bytes, expected_head) ==
  LET status == Verify(bytes)
  IN  IF IsIntact(status) /\ HeadHash(bytes) # expected_head
        THEN [status EXCEPT !.reason = "HeadMismatch"]
        ELSE status

TerminalKind == {"TaskCompleted", "TaskFailed", "TaskKilled"}

\* inspect: one summary per task with a verified frame.
Summaries(walk) ==
  LET Of(t) == {i \in 1 .. Len(walk) : walk[i].body.meta.task = t}
      Ends(t) == {i \in Of(t) : walk[i].body.meta.kind \in TerminalKind}
  IN  {[task_id |-> t,
        frames |-> Cardinality(Of(t)),
        first_seq |-> walk[Min(Of(t))].body.meta.seq,
        last_seq |-> walk[Max(Of(t))].body.meta.seq,
        terminal |-> IF Ends(t) = {} THEN None
                     ELSE walk[Max(Ends(t))].body.meta.kind] :
       t \in {walk[i].body.meta.task : i \in 1 .. Len(walk)} \ {None}}
Inspect(bytes) == Summaries(Walk(bytes))

\* Bug: the visibility gate is missing.
ShownIgnoringVisibility(f) ==
  IF f.body.meta.redacted THEN "<redacted>" ELSE f.body.payload

\* export_jsonl: what each line shows of the payload.
Shown(f) ==
  IF f.body.meta.redacted THEN "<redacted>"
  ELSE IF f.body.meta.visible THEN f.body.payload
  ELSE "<internal>"
Lines(walk) ==
  [i \in 1 .. Len(walk) |->
    [meta |-> walk[i].body.meta, payload |-> Shown(walk[i]),
     payload_hash |-> walk[i].body.payload_hash]]
ExportJsonl(bytes) == Lines(Walk(bytes))

-----------------------------------------------------------------------------
(* The writer.                                                             *)

Inode(bytes, synced) == [bytes |-> bytes, synced |-> synced]

Init ==
  /\ mem = << >>
  /\ path = NoFile /\ temp = NoFile /\ durable = NoFile
  /\ pc = "idle" /\ result = None
  /\ faults = 0 /\ stored = {}

\* Bug: the head is not advanced.
AppendFrameKeepingHead(meta, payload) ==
  /\ pc = "idle" /\ Len(mem) < MaxFrames
  /\ mem' = Append(mem, Frame(meta, payload, Genesis))
  /\ UNCHANGED <<path, temp, durable, pc, result, faults, stored>>

\* append takes whatever sequence number the caller gives it.
AppendFrame(meta, payload) ==
  /\ pc = "idle" /\ Len(mem) < MaxFrames
  /\ mem' = Append(mem, Frame(meta, payload, HeadHash(mem)))
  /\ UNCHANGED <<path, temp, durable, pc, result, faults, stored>>

\* A broken in-memory chain is refused.
StoreRefuse ==
  /\ pc = "idle" /\ ~ IsIntact(Verify(mem))
  /\ result' = "refused"
  /\ UNCHANGED <<mem, path, temp, durable, pc, faults, stored>>

\* Check the chain and remove whatever an earlier store left behind; the
\* removal is best effort.
StoreBegin ==
  /\ pc = "idle" /\ IsIntact(Verify(mem))
  /\ pc' = "create" /\ result' = None
  /\ temp' \in {temp, NoFile}
  /\ stored' = stored \union {mem}
  /\ UNCHANGED <<mem, path, durable, faults>>

\* create_new fails on an existing file.
StoreCreate ==
  /\ pc = "create" /\ temp = NoFile
  /\ temp' = Inode(<< >>, FALSE)
  /\ pc' = "write"
  /\ UNCHANGED <<mem, path, durable, result, faults, stored>>

StoreWrite ==
  /\ pc = "write"
  /\ temp' = Inode(mem, FALSE)
  /\ pc' = "sync"
  /\ UNCHANGED <<mem, path, durable, result, faults, stored>>

\* Bug: the rename does not wait for the data.
StoreSyncSkipped ==
  /\ pc = "sync"
  /\ pc' = "rename"
  /\ UNCHANGED <<mem, path, temp, durable, result, faults, stored>>

StoreSync ==
  /\ pc = "sync"
  /\ temp' = [temp EXCEPT !.synced = TRUE]
  /\ pc' = "rename"
  /\ UNCHANGED <<mem, path, durable, result, faults, stored>>

\* Bug: a rename that succeeded is tried again.
StoreRenameAgain ==
  /\ pc = "rename"
  /\ path' = temp /\ temp' = NoFile
  /\ pc' \in {"syncdir", "rename"}
  /\ UNCHANGED <<mem, durable, result, faults, stored>>

StoreRename ==
  /\ pc = "rename"
  /\ path' = temp /\ temp' = NoFile
  /\ pc' = "syncdir"
  /\ UNCHANGED <<mem, durable, result, faults, stored>>

\* The directory sync is best effort too.
StoreSyncDir ==
  /\ pc = "syncdir"
  /\ durable' \in {durable, path}
  /\ pc' = "idle" /\ result' = "ok"
  /\ UNCHANGED <<mem, path, temp, faults, stored>>

\* An I/O error before the rename: remove the temporary, best effort.
StoreFail ==
  /\ pc \in {"create", "write", "sync", "rename"}
  /\ temp' \in {temp, NoFile}
  /\ pc' = "idle" /\ result' = "error"
  /\ UNCHANGED <<mem, path, durable, faults, stored>>

Store ==
  \/ StoreRefuse \/ StoreBegin \/ StoreCreate \/ StoreWrite
  \/ StoreSync \/ StoreRename \/ StoreSyncDir \/ StoreFail

-----------------------------------------------------------------------------
(* The environment.                                                        *)

\* What a crash may leave of an inode: all of it once it is synced, else some
\* of the frames and perhaps part of the next one.
TornBytes(b) ==
  UNION {{SubSeq(b, 1, n), Append(SubSeq(b, 1, n), Garbage)} : n \in 0 .. Len(b)}

Torn(inode) ==
  IF inode = NoFile \/ inode.synced THEN {inode}
  ELSE {Inode(b, TRUE) : b \in TornBytes(inode.bytes)}

\* The process dies.  A run writes one file and a later run another, so
\* nobody stores this log again.
Crash ==
  /\ pc # "down"
  /\ pc' = "down" /\ mem' = << >> /\ result' = None
  /\ path' \in Torn(path) \union Torn(durable)
  /\ durable' = path'
  /\ temp' \in Torn(temp)
  /\ UNCHANGED <<faults, stored>>

\* A frame with another body under its old digest.
Rewritten(f, meta, payload, payload_hash, prev) ==
  [body |-> [meta |-> meta, payload |-> payload, payload_hash |-> payload_hash, prev_hash |-> prev],
   frame_hash |-> f.frame_hash]
\* One field of one frame, or the frame's framing, changed in place.
Edited(f) ==
  LET b == f.body
  IN  {Garbage, [body |-> b, frame_hash |-> Genesis], Rewritten(f, b.meta, b.payload, b.payload_hash, Genesis)}
      \union {Rewritten(f, meta, b.payload, b.payload_hash, b.prev_hash) : meta \in Metas}
      \union {Rewritten(f, b.meta, p, Hash(q), b.prev_hash) : p \in Payloads, q \in Payloads}

\* Bytes after one fault: a frame edited, lost or repeated, two neighbours
\* exchanged, the tail cut on or inside a frame.
Damaged(b) ==
  LET Cut(i) == SubSeq(b, 1, i - 1)
      Rest(i) == SubSeq(b, i + 1, Len(b))
      Frames == {i \in 1 .. Len(b) : b[i] # Garbage}
  IN  {Cut(i) \o Rest(i) : i \in Frames} \union {Cut(i) : i \in Frames}
      \union {Append(Cut(i), Garbage) : i \in Frames}
      \union {Cut(i) \o <<b[i], b[i]>> \o Rest(i) : i \in Frames}
      \union (UNION {{Cut(i) \o <<f>> \o Rest(i) : f \in Edited(b[i])} : i \in Frames})
      \union {Cut(i) \o <<b[i + 1], b[i]>> \o Rest(i + 1) : i \in 1 .. Len(b) - 1}

Fault ==
  /\ faults < MaxFaults
  /\ path # NoFile /\ pc \in {"idle", "down"}
  /\ \E b \in Damaged(path.bytes) : path' = Inode(b, TRUE)
  /\ durable' = path' /\ faults' = faults + 1
  /\ UNCHANGED <<mem, temp, pc, result, stored>>

Next ==
  \/ \E meta \in Metas, payload \in Payloads : AppendFrame(meta, payload)
  \/ Store
  \/ Crash
  \/ Fault

Spec == Init /\ [][Next]_vars

-----------------------------------------------------------------------------
(* Properties.                                                             *)

Whole(inode) ==
  inode = NoFile \/ (inode.synced /\ inode.bytes \in stored)

\* The log, the steps of store_atomic and the inodes are well formed, and the
\* steps between create and rename have a temporary file to work on.
TypeOK ==
  /\ \A f \in {mem[i] : i \in 1 .. Len(mem)} :
       f.body.meta \in Metas /\ f.body.payload \in Payloads
  /\ pc \in {"idle", "create", "write", "sync", "rename", "syncdir", "down"}
  /\ result \in {None, "ok", "error", "refused"}
  /\ faults \in 0 .. MaxFaults
  /\ pc \in {"write", "sync", "rename"} => temp # NoFile
  /\ \A inode \in {path, temp, durable} \ {NoFile} :
       DOMAIN inode = {"bytes", "synced"} /\ inode.synced \in BOOLEAN

\* store_atomic's promise: however a store is cut short by an I/O error or a
\* crash, the file at the log's path (or the one a crash may bring back) is
\* one whole, intact log the writer set out to persist.
StoredIsWhole ==
  faults = 0 =>
    \A inode \in {path, durable} \ {NoFile} :
      Whole(inode) /\ IsIntact(Verify(inode.bytes))

\* The only refusal of a store is a sequence number that does not increase:
\* append never writes a frame whose hashes or link are wrong.
RefusedOnlyForSequence ==
  Verify(mem).reason \in {None, "NonMonotonicSeq"}

\* Whatever happened to the file, inspect and export report a prefix of one
\* log the writer persisted: nothing edited, reordered, repeated or spliced.
ReportsOnlyWritten ==
  path # NoFile =>
    \E log \in stored : \E n \in 0 .. Len(log) :
      LET written == SubSeq(log, 1, n)
      IN  /\ ExportJsonl(path.bytes) = ExportJsonl(written)
          /\ Inspect(path.bytes) = Inspect(written)

\* export shows a payload only if the writer framed it clean and
\* model-visible, even after the redaction or visibility byte was damaged.
ExportRespectsGates ==
  path # NoFile =>
    \A i \in 1 .. Len(ExportJsonl(path.bytes)) :
      LET shown == ExportJsonl(path.bytes)[i].payload
      IN  shown \in Payloads =>
            \E log \in stored : \E j \in 1 .. Len(log) :
              /\ log[j].body.payload = shown
              /\ ~ log[j].body.meta.redacted /\ log[j].body.meta.visible

\* An intact verdict against the head of a persisted log means the file is
\* that log, frame for frame: the anchor also catches a clean cut.
AnchorIsExact ==
  path # NoFile =>
    \A log \in stored :
      IsIntact(VerifyToHead(path.bytes, HeadHash(log))) => path.bytes = log

\* The log tells what it holds: shapes, refusals, reports, exports and anchors
\* agree with the frames that were written (EventLog::append, verify_to_head,
\* inspect, export_jsonl).
LogIsHonest ==
  TypeOK /\ RefusedOnlyForSequence /\ ReportsOnlyWritten /\ ExportRespectsGates /\ AnchorIsExact

=============================================================================
