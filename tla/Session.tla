------------------------------ MODULE Session ------------------------------
(***************************************************************************)
(* crustcore-session (view.rs, snapshot.rs, resume.rs, lease.rs,           *)
(* compact.rs, service.rs): sessions read back from the event log. The     *)
(* daemon appends frames; a snapshot is derived and kept on disk; later    *)
(* the log and the snapshot are read again, and in between a crash may     *)
(* have cut the log short or a hand may have changed either file. The hash *)
(* of a frame, which has no key, is the frames it covers.                  *)
(***************************************************************************)
EXTENDS Integers, Sequences, FiniteSets, SequencesExt

CONSTANTS
  Appended,     \* frames the daemon writes: [task, job, kind, visible, owner, size]
  MaxFrames,    \* bound on frames
  Policies,     \* CompactionMode: [mode, n]
  TurnsMax,     \* MAX_COMPACT_TURNS
  BytesMax,     \* MAX_COMPACT_BYTES
  TurnMax,      \* MAX_TURN_BYTES
  Sessions

(* A policy that drops the history keeps no turn. *)
ASSUME SessionAssumption ==
  /\ MaxFrames \in Nat /\ TurnsMax \in Nat \ {0} /\ BytesMax \in Nat /\ TurnMax \in Nat
  /\ Appended \subseteq [task : Sessions, job : Nat, kind : STRING, visible : BOOLEAN, owner : Seq(Nat), size : Nat]
  /\ Policies \subseteq [mode : {"drop", "keep", "summarize"}, n : Nat]
  /\ \A p \in Policies : p.mode = "drop" => p.n = 0

VARIABLES
  onDisk,     \* the frames of the log as it is read
  hashes,     \* and the hash that stands in each
  appended,   \* history: what the daemon wrote
  rewritten,  \* history: the log was changed and its hashes made anew
  saved,      \* the snapshot file: <<>> or <<[session, at, head, turns]>>
  resumed,    \* the view in hand: <<>> or <<[session, frames, anchor, lease]>>
  compacted   \* the last compaction: <<>> or <<[turns, policy, lines]>>

sessionVars == <<onDisk, hashes, appended, rewritten, saved, resumed, compacted>>

SessionInit ==
  /\ onDisk = <<>> /\ hashes = <<>> /\ appended = <<>> /\ rewritten = FALSE
  /\ saved = <<>> /\ resumed = <<>> /\ compacted = <<>>

(* EventLog::verify: every frame's hash is that of the frame and of the    *)
(* hash before it, and the numbers rise; verify_to_head also asks for the  *)
(* last of the hashes.                                                     *)
HashAt(i) == IF i = 0 THEN <<>> ELSE hashes[i]
Intact ==
  \A i \in DOMAIN onDisk :
    /\ hashes[i] = Append(HashAt(i - 1), onDisk[i])
    /\ i > 1 => onDisk[i - 1].seq < onDisk[i].seq
IntactTo(head) == Intact /\ HashAt(Len(onDisk)) = head

(***************************************************************************)
(* Views, leases and snapshots.                                            *)
(***************************************************************************)
Selects(session, range, f) == f.task = session /\ f.seq <= range
(* The frames at some indices, in their order. *)
KeptTo(log, at) ==
  LET kept[n \in 0..Len(log)] ==
        IF n = 0 THEN <<>> ELSE IF n \in at THEN Append(kept[n - 1], log[n]) ELSE kept[n - 1]
  IN  kept
Kept(log, at) == KeptTo(log, at)[Len(log)]
Frames(log, session, range) == Kept(log, {i \in DOMAIN log : Selects(session, range, log[i])})
HeadSeq(log, session) == LET fs == Frames(log, session, MaxFrames) IN IF fs = <<>> THEN 0 ELSE Last(fs).seq

FromEvent(kind) ==
  CASE kind \in {"UserMessageQueued", "UserSteerReceived"} -> <<"user">>
    [] kind = "ModelOutputReceived" -> <<"model">> [] kind = "ToolCallCompleted" -> <<"tool">> [] OTHER -> <<>>

(* Bug: whatever is a turn is shown. *)
TurnsOfAll(frames) == Kept(frames, {i \in DOMAIN frames : FromEvent(frames[i].kind) # <<>>})

TurnsOf(frames) == Kept(frames, {i \in DOMAIN frames : frames[i].visible /\ FromEvent(frames[i].kind) # <<>>})
Derive(log, session, at) ==
  LET fs == Frames(log, session, at)
  IN  IF fs = <<>> THEN <<>>
      ELSE <<[session |-> session, at |-> Last(fs).seq, head |-> HashAt(Len(log)), turns |-> TurnsOf(fs)]>>

(* LeaseView::derive: the last lease, the first end. *)
LeaseOf(frames) ==
  LET leases == Kept(frames, {i \in DOMAIN frames : frames[i].kind = "JobLeased" /\ frames[i].owner # <<>>})
      ends == Kept(frames, {i \in DOMAIN frames : frames[i].kind \in {"TaskKilled", "TaskFailed"}})
  IN  [owner |-> IF leases = <<>> THEN <<>> ELSE Last(leases).owner,
       state |-> IF ends = <<>> THEN "Live" ELSE ends[1].kind]

(* verify_against_log: every receipt is a completed call of its own job. *)
Joined(receipts, log) ==
  \A r \in receipts : \E i \in DOMAIN log :
    log[i].seq = r.seq /\ log[i].kind = "ToolCallCompleted" /\ log[i].task = r.task /\ log[i].job = r.job

(***************************************************************************)
(* Compaction.                                                             *)
(***************************************************************************)
RenderTurn(t) == [is |-> "turn", of |-> t.seq, size |-> IF t.size > TurnMax THEN TurnMax ELSE t.size]
Note(is) == [is |-> is, of |-> 0, size |-> 1]
(* Bug: the lines are cut with no word of it. *)
CapLinesSilently(lines) == SubSeq(lines, 1, IF Len(lines) > TurnsMax THEN TurnsMax ELSE Len(lines))

(* Over the cap, the last line kept gives way to a marker. *)
CapLines(lines) ==
  IF Len(lines) <= TurnsMax THEN lines ELSE Append(SubSeq(lines, 1, TurnsMax - 1), Note("capped"))
(* Where each line ends in the text, and how long the text is. *)
Ends(lines) ==
  LET end[i \in 0..Len(lines)] == IF i = 0 THEN 0 ELSE end[i - 1] + lines[i].size
  IN  end
Bytes(lines) == Ends(lines)[Len(lines)]
(* The text is cut at its end: a line there is cut short or gone. *)
CapBytes(lines) ==
  LET end == Ends(lines)
  IN  [i \in {i \in DOMAIN lines : end[i - 1] < BytesMax} |->
         IF end[i] > BytesMax THEN [lines[i] EXCEPT !.size = BytesMax - end[i - 1], !.is = "cut"] ELSE lines[i]]
Compact(turns, policy) ==
  LET n == IF policy.n > TurnsMax THEN TurnsMax ELSE policy.n
      from == IF Len(turns) > n THEN Len(turns) - n ELSE 0
      kept == [i \in 1..(Len(turns) - from) |-> RenderTurn(turns[from + i])]
      lines == CASE policy.mode = "drop" -> IF turns = <<>> THEN <<>> ELSE <<Note("dropped")>>
                 [] policy.mode = "summarize" /\ from > 0 -> <<Note("summary")>> \o kept
                 [] OTHER -> kept
  IN  CapBytes(CapLines(lines))

(***************************************************************************)
(* Actions.                                                                *)
(***************************************************************************)
AppendFrame ==
  /\ onDisk = appended /\ Len(appended) < MaxFrames
  /\ \E f \in Appended :
       appended' = Append(appended, [seq |-> Len(appended) + 1, task |-> f.task, job |-> f.job, kind |-> f.kind,
                                     visible |-> f.visible, owner |-> f.owner, size |-> f.size])
  /\ hashes' = Append(hashes, Append(HashAt(Len(onDisk)), Last(appended')))
  /\ onDisk' = appended' /\ resumed' = <<>> /\ compacted' = <<>> /\ UNCHANGED <<rewritten, saved>>

(* SessionService::snapshot, and the file it is written to. *)
TakeSnapshot ==
  /\ \E s \in Sessions, at \in 1..MaxFrames :
       Derive(onDisk, s, at) # <<>> /\ saved' = Derive(onDisk, s, at)
  /\ saved = <<>> /\ onDisk = appended /\ UNCHANGED <<onDisk, hashes, appended, rewritten, resumed, compacted>>

(* A crash, or a hand: the log loses its end or has a frame changed, with  *)
(* or without the hashes from there on, and the snapshot has its turns     *)
(* changed.                                                                *)
CutLog ==
  /\ onDisk = appended /\ onDisk # <<>>
  /\ onDisk' = Front(onDisk) /\ hashes' = Front(hashes)
  /\ resumed' = <<>> /\ compacted' = <<>> /\ UNCHANGED <<appended, rewritten, saved>>
AlterLog ==
  /\ onDisk = appended
  /\ \E i \in DOMAIN onDisk : onDisk' = [onDisk EXCEPT ![i].size = 0]
  /\ rewritten' \in BOOLEAN
  /\ hashes' = IF rewritten' THEN [i \in DOMAIN onDisk |-> SubSeq(onDisk', 1, i)] ELSE hashes
  /\ resumed' = <<>> /\ compacted' = <<>> /\ UNCHANGED <<appended, saved>>
AlterSnapshot ==
  /\ saved # <<>> /\ onDisk = appended /\ saved[1].turns # <<>>
  /\ saved' = [saved EXCEPT ![1].turns = Tail(@)]
  /\ UNCHANGED <<onDisk, hashes, appended, rewritten, resumed, compacted>>

Receipts == UNION {{[seq |-> q, task |-> s, job |-> j] : q \in 1..MaxFrames, j \in {1, 2}} : s \in Sessions}
(* Bug: the anchor given is not the one checked. *)
VerifiedLoose(anchor) == Intact

Verified(anchor) == IF anchor = <<>> THEN Intact ELSE IntactTo(anchor[1])
(* resume and resume_to_head: the receipts first, then the chain. *)
Resume ==
  \E s \in Sessions, anchored \in BOOLEAN, rs \in {{}} \cup {{r} : r \in Receipts} :
    LET anchor == IF anchored THEN <<saved[1].head>> ELSE <<>>
        fs == Frames(onDisk, s, MaxFrames)
    IN  /\ resumed = <<>> /\ compacted = <<>> /\ (anchored => saved # <<>>)
        /\ Joined(rs, onDisk) /\ Verified(anchor)
        /\ resumed' = <<[session |-> s, frames |-> fs, anchor |-> anchor, lease |-> LeaseOf(fs)]>>
        /\ UNCHANGED <<onDisk, hashes, appended, rewritten, saved, compacted>>

(* Derive-only, so it is looked at where nothing else is in hand. *)
CompactHistory ==
  /\ compacted = <<>> /\ resumed = <<>> /\ saved = <<>>
  /\ \E s \in Sessions, p \in Policies :
       LET snap == Derive(onDisk, s, HeadSeq(onDisk, s))
           turns == IF snap = <<>> THEN <<>> ELSE snap[1].turns
       IN  compacted' = <<[turns |-> turns, policy |-> p, lines |-> Compact(turns, p)]>>
  /\ UNCHANGED <<onDisk, hashes, appended, rewritten, saved, resumed>>

SessionNext ==
  AppendFrame \/ TakeSnapshot \/ CutLog \/ AlterLog \/ AlterSnapshot \/ Resume \/ CompactHistory

SessionSpec == SessionInit /\ [][SessionNext]_sessionVars

(***************************************************************************)
(* Properties.                                                             *)
(***************************************************************************)
(* Whatever happened to the log since, a view that was resumed without an  *)
(* anchor holds only frames the daemon wrote, in their order, unless the   *)
(* log was given new hashes: they have no key, so such a log is taken for  *)
(* the daemon's. Anchored in a snapshot, a view holds every frame that the *)
(* snapshot was taken over whatever was done to the log, and a run that    *)
(* had ended by then reads as ended (EventLog::verify, verify_to_head,     *)
(* resume, resume_to_head, LeaseView::derive).                             *)
ResumedViewsAreTrue ==
  \A i \in DOMAIN resumed :
    LET r == resumed[i]
        then == Frames(r.anchor[1], r.session, MaxFrames)
    IN  /\ ~rewritten => IsPrefix(r.frames, Frames(appended, r.session, MaxFrames))
        /\ r.anchor # <<>> =>
             /\ IsPrefix(r.anchor[1], appended) /\ r.frames = then
             /\ (\E k \in DOMAIN then : then[k].kind \in {"TaskKilled", "TaskFailed"}) => r.lease.state # "Live"

(* No projection shows a turn that was not marked for the model, nor one   *)
(* of another session; and a history that lacks a turn its policy keeps    *)
(* says so, or is as long as it may be (Snapshot::derive, compact).        *)
ProjectionsAreHonest ==
  /\ \A i \in DOMAIN saved : \A k \in DOMAIN saved[i].turns :
       saved[i].turns[k].visible /\ saved[i].turns[k].task = saved[i].session
  /\ \A i \in DOMAIN compacted :
       LET c == compacted[i]
           shown == {c.lines[k].of : k \in DOMAIN c.lines}
           promised == {k \in DOMAIN c.turns : k > Len(c.turns) - (IF c.policy.n > TurnsMax THEN TurnsMax ELSE c.policy.n)}
           bytes == Bytes(c.lines)
       IN  /\ Len(c.lines) <= TurnsMax /\ bytes <= BytesMax
           /\ \A k \in DOMAIN c.turns : c.turns[k].visible
           /\ \/ {c.turns[k].seq : k \in promised} \subseteq shown
              \/ bytes = BytesMax \/ \E k \in DOMAIN c.lines : c.lines[k].is = "capped"

\* A resumed session and every projection of it show what was logged, as far as
\* hashes without a key can tell (SessionService::resume, compact).
SessionsAreFaithful == ResumedViewsAreTrue /\ ProjectionsAreHonest

=============================================================================
