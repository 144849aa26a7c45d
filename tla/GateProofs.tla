----------------------------- MODULE GateProofs -----------------------------
(***************************************************************************)
(* What stands between a chat message and an effect, for every value of    *)
(* the constants: the approval gate, the run of one task, and the guards   *)
(* around its worker.                                                      *)
(***************************************************************************)
EXTENDS
  PrGate, TaskRun, Worker, Paths, FiniteSetTheorems, SequenceTheorems, WellFoundedInduction,
  TLAPS

-----------------------------------------------------------------------------
(* The approval gate.  An approval is used once, a button starts what it   *)
(* showed, and a task starts only for what was asked, in time.             *)
(*                                                                         *)
(* No property is inductive.  That a number is settled once rests on a     *)
(* settled number being gone from the engine and never given again in this *)
(* life; that a button starts what it showed rests on the engine's         *)
(* operation being the parked one; that a launch was asked for rests on    *)
(* every entry of the engine having been put to the operators.             *)

Settlement ==
  [life : Nat, id : Nat, via : {"button", "command"}, at : Nat,
   launched : Prompt \union {NoPrompt}, meant : Prompt \union {NoPrompt}]

GateShapes ==
  /\ now \in Nat /\ life \in Nat /\ next_approval_id \in Nat
  /\ pending_task \in {NoPrompt} \union [prompt : Prompt, approval_id : Nat]
  /\ \A id \in DOMAIN approvals : id \in Nat
  /\ asked \subseteq [life : Nat, id : Nat, op : Prompt, at : Nat, sent : BOOLEAN]
  /\ settled \in Seq(Settlement)

\* Numbers in use were given by this daemon.
NumbersGiven == \A id \in DOMAIN approvals : id < next_approval_id

\* What this daemon settled is no longer pending and will not be given again.
SettledIsGone ==
  \A i \in 1 .. Len(settled) :
    /\ settled[i].life <= life
    /\ settled[i].life = life =>
         /\ settled[i].id < next_approval_id
         /\ settled[i].id \notin DOMAIN approvals

\* What the engine will grant is what the loop will start.
ParkedMatchesEngine ==
  pending_task # NoPrompt /\ pending_task.approval_id \in DOMAIN approvals =>
    approvals[pending_task.approval_id].op = pending_task.prompt

\* What the engine holds was asked in this life, and runs out a lifetime after.
PendingWasAsked ==
  \A id \in DOMAIN approvals :
    \E m \in asked :
      /\ m.life = life /\ m.id = id /\ m.op = approvals[id].op
      /\ approvals[id].expires_at = m.at + ApprovalTtl

GateInv ==
  /\ GateShapes
  /\ NumbersGiven
  /\ SettledIsGone
  /\ ParkedMatchesEngine
  /\ SettledOnce
  /\ ButtonStartsWhatItShowed
  /\ PendingWasAsked
  /\ LaunchWasAsked

-----------------------------------------------------------------------------

\* The numbers of a settlement on record.
LEMMA SettlementAt ==
  ASSUME GateShapes, NEW i \in 1 .. Len(settled)
  PROVE  settled[i].life \in Nat /\ settled[i].id \in Nat
<1>1. settled[i] \in Settlement
  BY DEF GateShapes
<1> QED
  BY <1>1 DEF Settlement

\* The invariant holds of a daemon that starts with nothing pending.
LEMMA GateInitially == GateInit => GateInv
  BY DEF GateInit, GateInv, GateShapes, NumbersGiven, SettledIsGone, ParkedMatchesEngine,
         SettledOnce, ButtonStartsWhatItShowed, Launches, PendingWasAsked,
         LaunchWasAsked

\* Parking a launch takes a number that nothing settled and nothing pending
\* has.
LEMMA AskKeeps ==
  ASSUME GateInv, NEW prompt \in Prompt, NEW sent \in BOOLEAN, Ask(prompt, sent)
  PROVE  GateInv'
<1> DEFINE id == next_approval_id
<1> USE DEF GateInv
<1>1. GateShapes'
  BY DEF Ask, GateShapes
<1>2. NumbersGiven'
  BY DEF Ask, GateShapes, NumbersGiven
<1>3. SettledIsGone'
  <2>1. DOMAIN approvals' = DOMAIN approvals \union {id}
    BY DEF Ask
  <2>2. UNCHANGED <<settled, life>> /\ next_approval_id' = id + 1
    BY DEF Ask
  <2> SUFFICES ASSUME NEW i \in 1 .. Len(settled)
               PROVE  /\ settled[i].life <= life
                      /\ settled[i].life = life =>
                           /\ settled[i].id < id + 1
                           /\ settled[i].id \notin DOMAIN approvals \union {id}
    BY <2>1, <2>2 DEF SettledIsGone
  <2>3. settled[i].id \in Nat /\ id \in Nat
    BY SettlementAt DEF GateShapes
  <2> QED
    BY <2>3 DEF SettledIsGone
<1>4. ParkedMatchesEngine'
  BY DEF Ask, ParkedMatchesEngine
<1>5. SettledOnce' /\ ButtonStartsWhatItShowed'
  BY DEF Ask, SettledOnce, ButtonStartsWhatItShowed, Launches
<1>6. PendingWasAsked'
  <2> DEFINE new == [life |-> life, id |-> id, op |-> prompt, at |-> now, sent |-> sent]
  <2>1. new \in asked' /\ asked \subseteq asked' /\ life' = life
    BY DEF Ask
  <2>2. /\ DOMAIN approvals' = DOMAIN approvals \union {id}
        /\ approvals'[id] = [op |-> prompt, expires_at |-> now + ApprovalTtl]
        /\ \A i \in DOMAIN approvals : i # id => approvals'[i] = approvals[i]
    BY DEF Ask
  <2>3. \A i \in DOMAIN approvals : i # id
    BY DEF NumbersGiven, GateShapes
  <2> SUFFICES ASSUME NEW i \in DOMAIN approvals'
               PROVE  \E m \in asked' :
                        /\ m.life = life' /\ m.id = i /\ m.op = approvals'[i].op
                        /\ approvals'[i].expires_at = m.at + ApprovalTtl
    BY DEF PendingWasAsked
  <2>4. CASE i = id
    BY <2>1, <2>2, <2>4
  <2>5. CASE i \in DOMAIN approvals
    BY <2>1, <2>2, <2>3, <2>5 DEF PendingWasAsked
  <2> QED
    BY <2>2, <2>4, <2>5
<1>7. LaunchWasAsked'
  BY DEF Ask, LaunchWasAsked, Launches
<1> QED
  BY <1>1, <1>2, <1>3, <1>4, <1>5, <1>6, <1>7

\* An approval event either settles a pending number, which leaves the engine,
\* or settles nothing.
LEMMA SettleKeeps ==
  ASSUME GateInv, NEW id \in Nat, NEW decision \in Decision,
         NEW callback_op \in Prompt \union {NoPrompt}, NEW via \in {"button", "command"},
         NEW has_slot \in BOOLEAN,
         via = "button" => callback_op \in Prompt,
         Settle(id, decision, callback_op, via, has_slot)
  PROVE  GateInv'
<1> DEFINE verdict == Outcome(id, decision, callback_op)
           parked == pending_task # NoPrompt /\ pending_task.approval_id = id
           starts == parked /\ verdict = "approve" /\ has_slot
           new == [life |-> life, id |-> id, via |-> via, at |-> now,
                   launched |-> IF starts THEN pending_task.prompt ELSE NoPrompt,
                   meant |-> callback_op]
<1> USE DEF GateInv
<1>1. /\ id \in Nat /\ new \in Settlement
      /\ parked => pending_task.prompt \in Prompt
  BY DEF GateShapes, Settlement
<1>2. /\ pending_task' = IF parked THEN NoPrompt ELSE pending_task
      /\ UNCHANGED <<now, next_approval_id, life, asked>>
      /\ settled' = IF verdict \notin Decision THEN settled
                    ELSE Append(settled, new)
      /\ approvals' = IF Consumes(verdict)
                        THEN [i \in DOMAIN approvals \ {id} |-> approvals[i]]
                        ELSE approvals
  BY DEF Settle
<1>3. /\ DOMAIN approvals' \subseteq DOMAIN approvals
      /\ \A i \in DOMAIN approvals' : approvals'[i] = approvals[i]
  BY <1>2
<1>4. settled' \in Seq(Settlement)
  BY <1>1, <1>2 DEF GateShapes
<1>5. GateShapes'
  BY <1>2, <1>3, <1>4 DEF GateShapes
<1>6. NumbersGiven'
  BY <1>2, <1>3 DEF NumbersGiven
<1>7. ParkedMatchesEngine'
  BY <1>2, <1>3 DEF ParkedMatchesEngine
<1>p. PendingWasAsked'
  BY <1>2, <1>3 DEF PendingWasAsked
<1>8. CASE verdict \notin Decision
  BY <1>2, <1>3, <1>5, <1>6, <1>7, <1>p, <1>8
  DEF SettledIsGone, SettledOnce, ButtonStartsWhatItShowed, LaunchWasAsked, Launches
<1>9. CASE verdict \in Decision
  <2>1. /\ id \in DOMAIN approvals
        /\ DOMAIN approvals' = DOMAIN approvals \ {id}
    BY <1>2, <1>9 DEF Outcome, Consumes, Decision
  <2>2. /\ settled' = Append(settled, new)
        /\ Len(settled') = Len(settled) + 1 /\ Len(settled) \in Nat
        /\ settled'[Len(settled) + 1] = new
        /\ \A i \in 1 .. Len(settled) : settled'[i] = settled[i]
    BY <1>1, <1>2, <1>9 DEF GateShapes
  <2>3. SettledIsGone'
    <3>1. \A i \in 1 .. Len(settled) : settled'[i].life <= life'
      BY <1>2, <2>2 DEF SettledIsGone
    <3>2. ASSUME NEW i \in 1 .. Len(settled), settled'[i].life = life'
          PROVE  /\ settled'[i].id < next_approval_id'
                 /\ settled'[i].id \notin DOMAIN approvals'
      BY <1>2, <1>3, <2>2, <3>2 DEF SettledIsGone
    <3>3. /\ settled'[Len(settled) + 1].life <= life'
          /\ settled'[Len(settled) + 1].id < next_approval_id'
          /\ settled'[Len(settled) + 1].id \notin DOMAIN approvals'
      BY <1>2, <2>1, <2>2 DEF NumbersGiven, GateShapes
    <3> QED
      BY <2>2, <3>1, <3>2, <3>3 DEF SettledIsGone
  <2>4. \A i \in 1 .. Len(settled) :
          ~ (settled[i].life = new.life /\ settled[i].id = new.id)
    BY <2>1 DEF SettledIsGone
  <2>5. SettledOnce'
    BY <2>2, <2>4 DEF SettledOnce
  <2>6. new.via = "button" /\ new.launched # NoPrompt => new.launched = new.meant
    BY <1>1, <1>9, <2>1, PromptAssumption
    DEF Outcome, Decision, ParkedMatchesEngine
  <2>7. ButtonStartsWhatItShowed'
    BY <2>2, <2>6 DEF ButtonStartsWhatItShowed, Launches
  <2>8. new.launched # NoPrompt =>
          \E x \in asked : /\ x.life = new.life /\ x.id = new.id
                           /\ x.op = new.launched
                           /\ new.at <= x.at + ApprovalTtl
    <3> SUFFICES ASSUME starts
                 PROVE  \E x \in asked :
                          /\ x.life = life /\ x.id = id
                          /\ x.op = pending_task.prompt
                          /\ now <= x.at + ApprovalTtl
      OBVIOUS
    <3>1. PICK x \in asked : /\ x.life = life /\ x.id = id
                             /\ x.op = approvals[id].op
                             /\ approvals[id].expires_at = x.at + ApprovalTtl
      BY <2>1 DEF PendingWasAsked
    <3>2. now \in Nat /\ x.at \in Nat
      BY DEF GateShapes
    <3>3. ~ (now > approvals[id].expires_at)
      BY <2>1 DEF Outcome
    <3>4. approvals[id].op = pending_task.prompt
      BY <2>1 DEF ParkedMatchesEngine
    <3> QED
      BY <3>1, <3>2, <3>3, <3>4, TtlAssumption
  <2>9. LaunchWasAsked'
    <3> HIDE DEF new
    <3> QED
      BY <1>2, <2>2, <2>8 DEF LaunchWasAsked, Launches
  <2> QED
    BY <1>5, <1>6, <1>7, <1>p, <2>3, <2>5, <2>7, <2>9
<1> QED
  BY <1>8, <1>9

\* A restart forgets the numbers and begins another life.
LEMMA RestartKeeps == GateInv /\ Restart => GateInv'
<1> SUFFICES ASSUME GateInv, Restart PROVE GateInv'
  OBVIOUS
<1> USE DEF GateInv
<1>1. /\ life' = life + 1 /\ life \in Nat /\ UNCHANGED <<now, asked, settled>>
      /\ pending_task' = NoPrompt /\ approvals' = << >> /\ next_approval_id' = 1
  BY DEF Restart, GateShapes
<1>2. GateShapes' /\ NumbersGiven' /\ ParkedMatchesEngine'
  BY <1>1 DEF GateShapes, NumbersGiven, ParkedMatchesEngine
<1>3. SettledIsGone'
  <2>1. \A i \in 1 .. Len(settled) : settled[i].life \in Nat
    BY SettlementAt
  <2> QED
    BY <1>1, <2>1 DEF SettledIsGone
<1>4. SettledOnce' /\ ButtonStartsWhatItShowed' /\ LaunchWasAsked' /\ PendingWasAsked'
  BY <1>1 DEF SettledOnce, ButtonStartsWhatItShowed, LaunchWasAsked, Launches,
              PendingWasAsked
<1> QED
  BY <1>2, <1>3, <1>4

\* Every step preserves the invariant.
LEMMA GateStepKeeps == GateInv /\ [GateNext]_gateVars => GateInv'
<1> SUFFICES ASSUME GateInv, [GateNext]_gateVars PROVE GateInv'
  OBVIOUS
<1>1. CASE \E prompt \in Prompt, sent \in BOOLEAN : Ask(prompt, sent)
  BY <1>1, AskKeeps
<1>2. CASE \E decision \in Decision, has_slot \in BOOLEAN :
             \/ \E m \in asked : m.sent /\ Tap(m, decision, has_slot)
             \/ \E id \in 1 .. MaxApprovals : Command(id, decision, has_slot)
  <2>1. PICK decision \in Decision, has_slot \in BOOLEAN :
          \/ \E m \in asked : Settle(m.id, decision, m.op, "button", has_slot)
          \/ \E id \in 1 .. MaxApprovals : Settle(id, decision, NoPrompt, "command", has_slot)
    BY <1>2 DEF Tap, Command
  <2>2. ASSUME NEW m \in asked, Settle(m.id, decision, m.op, "button", has_slot) PROVE GateInv'
    <3>1. m.id \in Nat /\ m.op \in Prompt
      BY DEF GateInv, GateShapes
    <3> QED
      BY <2>2, <3>1, SettleKeeps
  <2>3. ASSUME NEW id \in 1 .. MaxApprovals, Settle(id, decision, NoPrompt, "command", has_slot)
        PROVE  GateInv'
    BY <2>3, SettleKeeps
  <2> QED
    BY <2>1, <2>2, <2>3
<1>3. CASE NewRound
  BY <1>3 DEF NewRound, GateInv, GateShapes, NumbersGiven, SettledIsGone,
              ParkedMatchesEngine, SettledOnce, ButtonStartsWhatItShowed, Launches,
              PendingWasAsked, LaunchWasAsked
<1>4. CASE Restart
  BY <1>4, RestartKeeps
<1>5. CASE UNCHANGED gateVars
  BY <1>5 DEF gateVars, GateInv, GateShapes, NumbersGiven, SettledIsGone,
              ParkedMatchesEngine, SettledOnce, ButtonStartsWhatItShowed, Launches,
              PendingWasAsked, LaunchWasAsked
<1> QED
  BY <1>1, <1>2, <1>3, <1>4, <1>5 DEF GateNext

\* No approval number is granted or denied twice between two starts of the
\* daemon (ApprovalEngine::resolve consumes what it settles).
THEOREM ApprovalIsSingleUse == GateSpec => []SettledOnce
<1>1. GateInv => SettledOnce
  BY DEF GateInv
<1> QED
  BY <1>1, GateInitially, GateStepKeeps, PTL DEF GateSpec

\* A tap on an approval button starts the task its message showed and no
\* other, also when the button is older than the daemon.
THEOREM ButtonIsOperationBound == GateSpec => []ButtonStartsWhatItShowed
<1>1. GateInv => ButtonStartsWhatItShowed
  BY DEF GateInv
<1> QED
  BY <1>1, GateInitially, GateStepKeeps, PTL DEF GateSpec

\* A task starts only for the operation this daemon put to the operators under
\* that number, whether or not its message arrived, and before the lifetime of
\* the approval has passed since (handle_action numbers and sends it,
\* ApprovalEngine::resolve checks it).
THEOREM LaunchIsAskedAndTimely == GateSpec => []LaunchWasAsked
<1>1. GateInv => LaunchWasAsked
  BY DEF GateInv
<1> QED
  BY <1>1, GateInitially, GateStepKeeps, PTL DEF GateSpec

-----------------------------------------------------------------------------
(* The run of one task.  No effect of a task leaves the machine before the *)
(* evidence for it is in the persisted audit log, and however a task ends  *)
(* its numbers, summary, log and worktree agree.                           *)
(*                                                                         *)
(* EvidenceIsPersisted alone is not inductive: the log is stored anew  *)
(* after the effects, so the log in memory must hold the evidence whenever *)
(* they may have happened, and no effect may precede the evidence.         *)

Kind ==
  {"TaskCreated", "JobQueued", "JobLeased", "PatchProposed", "ToolCallStarted",
   "ToolCallCompleted", "PatchVerified", "CommandCompleted", "PatchRejected",
   "GitHubOperationCompleted", "TaskCompleted", "TaskFailed", "TaskKilled"}

Frame == [seq : Nat, kind : Kind]

Evidence(l) == {"ToolCallCompleted", "PatchVerified"} \subseteq Kinds(l)

Before == {"resolve", "create", "check1", "work", "check2", "verify"}
Integrating == {"intent", "lease", "push", "pull"}

RunShapes == log \in Seq(Frame) /\ file \in Seq(Frame)

\* Nothing has left the machine before the evidence is persisted.
NoEffectYet ==
  pc \in Before \union {"persist", "complete"} => ~ helper /\ remote = "none"

\* The log in memory holds the evidence once the verifier has passed ...
LogHasEvidence == pc = "persist" => Evidence(log)

\* ... and so does the file once the integration has begun.
FileHasEvidence == pc \in Integrating => pr /\ Evidence(log) /\ Evidence(file)

RunInv ==
  /\ RunShapes /\ NoEffectYet /\ LogHasEvidence /\ FileHasEvidence
  /\ EvidenceIsPersisted

\* Appending frames keeps the kinds there were, which is why a later store of
\* the audit log never loses evidence.
LEMMA KindsGrow ==
  ASSUME NEW l \in Seq(Frame), NEW more \in Seq(Frame)
  PROVE  /\ l \o more \in Seq(Frame)
         /\ Kinds(l) \subseteq Kinds(l \o more)
         /\ Kinds(more) \subseteq Kinds(l \o more)
<1>1. l \o more \in Seq(Frame)
  OBVIOUS
<1>2. Kinds(l) \subseteq Kinds(l \o more)
  <2> SUFFICES ASSUME NEW i \in 1 .. Len(l)
               PROVE  l[i].kind \in Kinds(l \o more)
    BY DEF Kinds
  <2>1. i \in 1 .. Len(l \o more) /\ (l \o more)[i] = l[i]
    OBVIOUS
  <2> QED  BY <2>1 DEF Kinds
<1>3. Kinds(more) \subseteq Kinds(l \o more)
  <2> SUFFICES ASSUME NEW i \in 1 .. Len(more)
               PROVE  more[i].kind \in Kinds(l \o more)
    BY DEF Kinds
  <2>1. /\ Len(l) + i \in 1 .. Len(l \o more)
        /\ (l \o more)[Len(l) + i] = more[i]
    OBVIOUS
  <2> QED  BY <2>1 DEF Kinds
<1> QED  BY <1>1, <1>2, <1>3

\* One appended frame, as a concatenation.
LEMMA AppendGrows ==
  ASSUME NEW l \in Seq(Frame), NEW f \in Frame
  PROVE  /\ Append(l, f) \in Seq(Frame)
         /\ Kinds(l) \subseteq Kinds(Append(l, f))
<1>1. Append(l, f) = l \o <<f>> /\ <<f>> \in Seq(Frame)
  OBVIOUS
<1> QED  BY <1>1, KindsGrow

\* A task that ends before its evidence is persisted has had no effect, and
\* may store whatever it recorded.
LEMMA ConcludeKeeps ==
  ASSUME RunInv, NEW frames \in Seq(Frame), NEW line, NEW next,
         pc \in Before, next \in {"teardown", "done"},
         Conclude(frames, line, next)
  PROVE  RunInv'
<1>1. log' \in Seq(Frame)
  BY KindsGrow DEF RunInv, RunShapes, Conclude
<1>2. file' \in Seq(Frame)
  BY <1>1 DEF RunInv, RunShapes, Conclude, Store
<1>3. ~ helper' /\ remote' = "none" /\ pc' \in {"teardown", "done"}
  BY DEF RunInv, NoEffectYet, Conclude
<1> QED
  BY <1>1, <1>2, <1>3 DEF RunInv, RunShapes, NoEffectYet, LogHasEvidence,
     FileHasEvidence, EvidenceIsPersisted, Before, Integrating

\* A failed integration stores a log that still holds the evidence.
LEMMA IntegrationFailedKeeps ==
  ASSUME RunInv, pc \in Integrating, NEW leftover, NEW seen,
         IntegrationFailed(leftover, seen)
  PROVE  RunInv'
<1>1. pr' = pr /\ pr /\ Evidence(log) /\ Evidence(file)
  BY DEF RunInv, FileHasEvidence, IntegrationFailed, inputs
<1>2. /\ log' \in Seq(Frame) /\ Kinds(log) \subseteq Kinds(log')
  BY AppendGrows DEF F, Frame, Kind, RunInv, RunShapes, IntegrationFailed
<1>3. file' \in {log', file}
  BY DEF IntegrationFailed, Store
<1>4. file' \in Seq(Frame) /\ Evidence(file')
  BY <1>1, <1>2, <1>3 DEF Evidence, RunInv, RunShapes
<1>5. pc' = "teardown"
  BY DEF IntegrationFailed
<1> QED
  BY <1>1, <1>2, <1>4, <1>5 DEF RunInv, RunShapes, NoEffectYet, LogHasEvidence,
     FileHasEvidence, EvidenceIsPersisted, Before, Integrating, Evidence,
     Persisted

LEMMA RunInitially == Init => RunInv
BY DEF Init, RunInv, RunShapes, NoEffectYet, LogHasEvidence, FileHasEvidence,
   EvidenceIsPersisted, Integrating

\* Steps that leave the log, the file and the effects alone, and lead to where
\* nothing new is claimed.
LEMMA QuietKeeps ==
  ASSUME RunInv, log' \in Seq(Frame), file' = file, pr' = pr,
         helper' = helper, remote' = remote,
         \/ pc' \in {"teardown", "done", "crashed"}
         \/ pc \in Before /\ pc' \in Before
         \/ pc' = pc /\ log' = log
  PROVE  RunInv'
BY DEF RunInv, RunShapes, NoEffectYet, LogHasEvidence, FileHasEvidence,
   EvidenceIsPersisted, Before, Integrating, Evidence, Persisted, Kinds

\* Every step of the task, of the operator and of time keeps the invariant.
LEMMA RunKeeps == RunInv /\ [Next]_vars => RunInv'
<1> SUFFICES ASSUME RunInv, [Next]_vars PROVE RunInv'
  OBVIOUS
<1>0. log \in Seq(Frame)
  BY DEF RunInv, RunShapes
<1>1. CASE Resolve
  <2>0. <<F(1, "TaskCreated"), F(2, "JobQueued")>> \in Seq(Frame)
    BY DEF F, Frame, Kind
  <2>1. log' \in Seq(Frame)
    BY <1>0, <1>1, <2>0 DEF Resolve, Return, Proceed
  <2> QED
    BY <1>1, <2>1, QuietKeeps DEF Resolve, Return, Proceed, inputs, Before
<1>2. CASE Create
  <2>1. CASE Conclude(<<F(3, "TaskFailed")>>, "failed", "done")
    <3>1. <<F(3, "TaskFailed")>> \in Seq(Frame) /\ pc \in Before
      BY <1>2 DEF F, Frame, Kind, Create, Before
    <3> QED  BY <2>1, <3>1, ConcludeKeeps
  <2>2. CASE /\ log' = Append(log, F(3, "JobLeased"))
             /\ worktree' = "present" /\ Proceed("check1")
    <3>1. log' \in Seq(Frame)
      BY <1>0, <2>2, AppendGrows DEF F, Frame, Kind
    <3> QED  BY <1>2, <2>2, <3>1, QuietKeeps DEF Create, Proceed, inputs, Before
  <2> QED  BY <1>2, <2>1, <2>2 DEF Create
<1>3. CASE CheckBeforeWork
  <2>0. <<F(4, "TaskKilled")>> \in Seq(Frame) /\ pc \in Before
    BY <1>3 DEF F, Frame, Kind, CheckBeforeWork, Before
  <2>1. CASE cancel # None
    BY <1>3, <2>0, <2>1, ConcludeKeeps DEF CheckBeforeWork
  <2>2. CASE cancel = None
    BY <1>0, <1>3, <2>2, QuietKeeps DEF CheckBeforeWork, Proceed, inputs, Before
  <2> QED  BY <2>1, <2>2
<1>4. CASE Work
  <2>0. <<F(4, "TaskFailed")>> \in Seq(Frame) /\ pc \in Before
    BY <1>4 DEF F, Frame, Kind, Work, Before
  <2>1. CASE Conclude(<<F(4, "TaskFailed")>>, "failed", "teardown")
    BY <2>0, <2>1, ConcludeKeeps
  <2>2. CASE Proceed("check2") /\ UNCHANGED <<log, worktree>>
    BY <1>0, <2>0, <2>2, QuietKeeps DEF Proceed, inputs, Before
  <2> QED  BY <1>4, <2>1, <2>2 DEF Work
<1>5. CASE CheckBeforeVerify
  <2>0. /\ <<F(4, "PatchProposed"), F(5, "TaskKilled")>> \in Seq(Frame)
        /\ <<F(4, "PatchProposed"), F(5, "ToolCallStarted")>> \in Seq(Frame)
        /\ pc \in Before
    BY <1>5 DEF F, Frame, Kind, CheckBeforeVerify, Before
  <2>1. CASE cancel # None
    BY <1>5, <2>0, <2>1, ConcludeKeeps DEF CheckBeforeVerify
  <2>2. CASE cancel = None
    <3>1. log' \in Seq(Frame)
      BY <1>0, <1>5, <2>0, <2>2, KindsGrow DEF CheckBeforeVerify
    <3> QED
      BY <1>5, <2>0, <2>2, <3>1, QuietKeeps
         DEF CheckBeforeVerify, Proceed, inputs, Before
  <2> QED  BY <2>1, <2>2
<1>6. CASE VerifyPassed
  <2> DEFINE new == <<F(6, "ToolCallCompleted"), F(7, "PatchVerified")>>
  <2>1. new \in Seq(Frame) /\ Evidence(new)
    <3>1. /\ F(6, "ToolCallCompleted") \in Frame
          /\ F(6, "ToolCallCompleted").kind = "ToolCallCompleted"
          /\ F(7, "PatchVerified") \in Frame
          /\ F(7, "PatchVerified").kind = "PatchVerified"
      BY DEF F, Frame, Kind
    <3>2. new[1] = F(6, "ToolCallCompleted") /\ new[2] = F(7, "PatchVerified")
          /\ 1 \in 1 .. Len(new) /\ 2 \in 1 .. Len(new)
      OBVIOUS
    <3>3. {new[1].kind, new[2].kind} \subseteq Kinds(new)
      BY <3>2 DEF Kinds
    <3> HIDE DEF new
    <3>4. Evidence(new)
      BY <3>1, <3>2, <3>3 DEF Evidence
    <3> QED  BY <3>1, <3>4 DEF new
  <2>2. log' = log \o new
    BY <1>6 DEF VerifyPassed
  <2> HIDE DEF new
  <2>3. log' \in Seq(Frame) /\ Kinds(new) \subseteq Kinds(log')
    BY <1>0, <2>1, <2>2, KindsGrow
  <2>4. Evidence(log')
    BY <2>1, <2>3 DEF Evidence
  <2>5. ~ helper /\ remote = "none"
    BY <1>6 DEF VerifyPassed, RunInv, NoEffectYet, Before
  <2> QED
    BY <1>6, <2>3, <2>4, <2>5 DEF VerifyPassed, inputs, RunInv, RunShapes,
       NoEffectYet, LogHasEvidence, FileHasEvidence, EvidenceIsPersisted,
       Integrating, Before
<1>7. CASE VerifyNotPassed
  <2>0. /\ <<F(6, "CommandCompleted"), F(7, "PatchRejected"),
            F(8, "TaskFailed")>> \in Seq(Frame)
        /\ <<F(6, "TaskFailed")>> \in Seq(Frame)
        /\ pc \in Before
    BY <1>7 DEF F, Frame, Kind, VerifyNotPassed, Before
  <2> QED  BY <1>7, <2>0, ConcludeKeeps DEF VerifyNotPassed
<1>8. CASE Persist
  <2>0. Evidence(log) /\ ~ helper /\ remote = "none" /\ log' = log /\ pr' = pr
    BY <1>8 DEF Persist, RunInv, LogHasEvidence, NoEffectYet, inputs
  <2>1. PICK ok \in BOOLEAN :
          /\ Store(log, ok)
          /\ IF ok THEN pc' = (IF pr THEN "intent" ELSE "complete")
                   ELSE pc' = "teardown"
    BY <1>8 DEF Persist, StoreOutcome
  <2>2. helper' = helper /\ remote' = remote
    BY <1>8 DEF Persist
  <2>3. file' \in Seq(Frame)
    BY <1>0, <2>1 DEF Store, RunInv, RunShapes
  <2>4. pc' \in Integrating => pr /\ file' = log
    BY <2>1 DEF Store, Integrating
  <2>5. pc' \in {"intent", "complete", "teardown"}
    BY <2>1
  <2>6. FileHasEvidence'
    BY <2>0, <2>4 DEF FileHasEvidence, Evidence, Kinds
  <2> QED
    BY <1>0, <2>0, <2>2, <2>3, <2>5, <2>6 DEF RunInv, RunShapes, NoEffectYet,
       LogHasEvidence, EvidenceIsPersisted
<1>9. CASE Complete
  <2>1. ~ helper /\ remote = "none"
    BY <1>9 DEF Complete, RunInv, NoEffectYet
  <2>2. log' \in Seq(Frame)
    BY <1>0, <1>9, AppendGrows DEF F, Frame, Kind, Complete
  <2>3. file' \in Seq(Frame)
    BY <1>9, <2>2 DEF Complete, Store, RunInv, RunShapes
  <2>4. pc' \in {"teardown", "done"} /\ helper' = helper /\ remote' = remote
    BY <1>9 DEF Complete
  <2> QED
    BY <2>1, <2>2, <2>3, <2>4 DEF RunInv, RunShapes, NoEffectYet, LogHasEvidence,
       FileHasEvidence, EvidenceIsPersisted, Before, Integrating
<1>10. CASE Intent
  <2>1. pc \in Integrating
    BY <1>10 DEF Intent, Integrating
  <2>2. CASE IntegrationFailed(FALSE, {remote})
    BY <2>1, <2>2, IntegrationFailedKeeps
  <2>3. CASE Proceed("lease") /\ UNCHANGED <<log, worktree>>
    BY <2>1, <2>3 DEF Proceed, inputs, RunInv, RunShapes, NoEffectYet, Before,
       LogHasEvidence, FileHasEvidence, EvidenceIsPersisted, Integrating,
       Evidence, Persisted, Kinds
  <2> QED  BY <1>10, <2>2, <2>3 DEF Intent
<1>11. CASE Lease \/ Push
  <2>1. pc \in Integrating
    BY <1>11 DEF Lease, Push, Integrating
  <2>3. CASE /\ pc' \in {"push", "pull"} /\ UNCHANGED <<inputs, audit>>
    BY <2>1, <2>3 DEF inputs, audit, RunInv, RunShapes, NoEffectYet, Before,
       LogHasEvidence, FileHasEvidence, EvidenceIsPersisted, Integrating,
       Evidence, Persisted, Kinds
  <2>4. Lease => \/ \E leftover \in BOOLEAN : IntegrationFailed(leftover, {remote})
                 \/ pc' = "push" /\ UNCHANGED <<inputs, audit>>
    BY DEF Lease
  <2>5. Push => \/ IntegrationFailed(FALSE, {remote, "pushed"})
                \/ pc' = "pull" /\ UNCHANGED <<inputs, audit>>
    BY DEF Push
  <2> QED  BY <1>11, <2>1, <2>3, <2>4, <2>5, IntegrationFailedKeeps
<1>12. CASE CreatePull
  <2>1. pc \in Integrating
    BY <1>12 DEF CreatePull, Integrating
  <2>2. CASE IntegrationFailed(FALSE, {remote, "opened"})
    BY <2>1, <2>2, IntegrationFailedKeeps
  <2>3. CASE /\ log' = log \o <<F(8, "GitHubOperationCompleted"),
                                F(9, "TaskCompleted")>>
             /\ \E ok \in StoreOutcome(log') : Store(log', ok)
             /\ pc' = "teardown" /\ UNCHANGED inputs
    <3>1. <<F(8, "GitHubOperationCompleted"), F(9, "TaskCompleted")>> \in Seq(Frame)
      BY DEF F, Frame, Kind
    <3>2. log' \in Seq(Frame) /\ Kinds(log) \subseteq Kinds(log')
      BY <1>0, <2>3, <3>1, KindsGrow
    <3>3. file' \in {log', file} /\ pr' = pr
      BY <2>3 DEF Store, inputs
    <3>4. pr /\ Evidence(log) /\ Evidence(file)
      BY <2>1 DEF RunInv, FileHasEvidence
    <3>5. file' \in Seq(Frame) /\ Evidence(file')
      BY <3>2, <3>3, <3>4 DEF Evidence, RunInv, RunShapes
    <3> QED
      BY <2>3, <3>2, <3>3, <3>4, <3>5 DEF RunInv, RunShapes, NoEffectYet,
         LogHasEvidence, FileHasEvidence, EvidenceIsPersisted, Before,
         Integrating, Evidence, Persisted
  <2> QED  BY <1>12, <2>2, <2>3 DEF CreatePull
<1>13. CASE Teardown \/ Crash
  BY <1>0, <1>13, QuietKeeps DEF Teardown, Crash, inputs, audit
<1>14. CASE RequestCancel \/ ApprovalExpires \/ UNCHANGED vars
  BY <1>0, <1>14, QuietKeeps DEF RequestCancel, ApprovalExpires, vars, audit
<1> QED
  BY <1>1, <1>2, <1>3, <1>4, <1>5, <1>6, <1>7, <1>8, <1>9, <1>10, <1>11,
     <1>12, <1>13, <1>14 DEF Next, Task

\* Nothing has left the machine when open_pr looks at the approval, and past it
\* the approval was in time.
Timely ==
  /\ pc \in Before \union {"persist", "complete", "intent", "lease", "push", "pull",
                          "teardown", "done", "crashed"}
  /\ pc \in Before \union {"persist", "complete", "intent"} => ~ helper /\ remote = "none"
  /\ pc \in {"lease", "push", "pull"} => lapsed # "early"
  /\ ApprovalWasInTime

\* A step that ends the task, or has no effect and does not pass open_pr.
LEMMA EndKeepsTimely ==
  ASSUME Timely, lapsed' = lapsed,
         \/ pc' \in {"teardown", "done", "crashed"} /\ helper' = helper /\ remote' = remote
         \/ pc' \in {"teardown", "done", "crashed"} /\ pc \in {"lease", "push", "pull"}
         \/ /\ pc \in Before \union {"persist"}
            /\ pc' \in Before \union {"persist", "complete", "intent"}
            /\ helper' = helper /\ remote' = remote
  PROVE  Timely'
BY DEF Timely, ApprovalWasInTime, Before

\* Every step keeps it: the approval may run out at any of them.
LEMMA TimelyKeeps == Timely /\ [Next]_vars => Timely'
<1> SUFFICES ASSUME Timely, [Next]_vars PROVE Timely'
  OBVIOUS
<1>1. CASE Resolve
  BY <1>1, EndKeepsTimely DEF Resolve, Return, Proceed, inputs, Before
<1>2. CASE Create \/ CheckBeforeWork \/ Work
  BY <1>2, EndKeepsTimely DEF Create, CheckBeforeWork, Work, Conclude, Proceed, inputs, Before
<1>3. CASE CheckBeforeVerify \/ VerifyNotPassed
  BY <1>3, EndKeepsTimely DEF CheckBeforeVerify, VerifyNotPassed, Conclude, Proceed, inputs, Before
<1>4. CASE VerifyPassed
  BY <1>4, EndKeepsTimely DEF VerifyPassed, inputs, Before
<1>5. CASE Persist
  BY <1>5, EndKeepsTimely DEF Persist, inputs, Before
<1>6. CASE Complete
  BY <1>6, EndKeepsTimely DEF Complete, inputs
<1>7. CASE Intent
  <2>1. CASE IntegrationFailed(FALSE, {remote})
    <3>1. pc' = "teardown" /\ helper' = FALSE /\ remote' = remote /\ remote = "none"
      BY <1>7, <2>1 DEF Intent, IntegrationFailed, Timely
    <3> QED  BY <3>1 DEF Timely, ApprovalWasInTime, Before
  <2>2. CASE lapsed = None /\ Proceed("lease")
    BY <1>7, <2>2, NoneAssumption DEF Intent, Proceed, inputs, Timely, ApprovalWasInTime, Before
  <2> QED  BY <1>7, <2>1, <2>2 DEF Intent
<1>8. CASE Lease \/ Push \/ CreatePull
  <2>1. pc \in {"lease", "push", "pull"} /\ lapsed' = lapsed
    BY <1>8 DEF Lease, Push, CreatePull, IntegrationFailed, inputs
  <2>2. pc' \in {"push", "pull", "teardown"}
    BY <1>8 DEF Lease, Push, CreatePull, IntegrationFailed
  <2> QED  BY <2>1, <2>2 DEF Timely, ApprovalWasInTime, Before
<1>9. CASE Teardown \/ Crash
  BY <1>9, EndKeepsTimely DEF Teardown, Crash, inputs
<1>10. CASE RequestCancel \/ UNCHANGED vars
  BY <1>10 DEF RequestCancel, vars, Timely, ApprovalWasInTime
<1>11. CASE ApprovalExpires
  <2>1. /\ UNCHANGED <<pc, helper, remote>>
        /\ lapsed' = IF pc \in {"lease", "push", "pull", "teardown"} THEN "late" ELSE "early"
        /\ pc \notin {"done", "crashed"}
    BY <1>11 DEF ApprovalExpires, Running
  <2> QED  BY <2>1, NoneAssumption DEF Timely, ApprovalWasInTime, Before
<1> QED
  BY <1>1, <1>2, <1>3, <1>4, <1>5, <1>6, <1>7, <1>8, <1>9, <1>10, <1>11 DEF Next, Task

\* Whatever fails, is cancelled, expires or dies, a task hands the token to the
\* credential helper and reaches GitHub only after the verifier's evidence is
\* in its persisted audit log, and only with an approved capability whose approval
\* had not run out when the integration began (run_one_task stores the log before open_draft_pr, and only appends later).
THEOREM EvidenceFirst == Spec => []EvidencePrecedesEffects
<1>1. RunInv /\ Timely => EvidencePrecedesEffects
  BY DEF RunInv, Timely, EvidencePrecedesEffects
<1>2. Init => Timely
  BY DEF Init, Timely, ApprovalWasInTime, Before
<1> QED  BY RunInitially, RunKeeps, TimelyKeeps, <1>1, <1>2, PTL DEF Spec

-----------------------------------------------------------------------------
(* However a task ends, its numbers, its summary, its audit and its        *)
(* worktree agree.  The strengthening says, for every step, how far the    *)
(* hand-written numbers have come and what the file may hold.              *)

Sorted(l) == \A i, j \in 1 .. Len(l) : i < j => l[i].seq < l[j].seq

\* A log whose numbers increase and reach at most n.
Numbered(l, n) ==
  l \in Seq(Frame) /\ Sorted(l) /\ \A i \in 1 .. Len(l) : l[i].seq <= n

\* The last number run_one_task has used when it reaches a step.
Top(p) ==
  IF p = "resolve" THEN 0
  ELSE IF p = "create" THEN 2
  ELSE IF p \in {"check1", "work", "check2"} THEN 3
  ELSE IF p = "verify" THEN 5
  ELSE IF p \in {"persist", "complete"} \union Integrating THEN 7
  ELSE 9

Ended == {"teardown", "done", "crashed"}

ReceiptJoins ==
  /\ receipt # None =>
       receipt = 6 /\ \E i \in 1 .. Len(log) : log[i] = F(6, "ToolCallCompleted")
  /\ pc \in Before => receipt = None /\ remote = "none"

EarlyStops ==
  cancel = "early" =>
    /\ pc \in (Before \ {"verify"}) \union Ended
    /\ receipt = None /\ remote = "none"

\* What the log and the file hold before the task has an outcome.
NoOutcomeYet ==
  /\ pc \notin Ended => Kinds(log) \intersect Terminal = {}
  /\ pc = "persist" => "PatchVerified" \in Kinds(log)
  /\ pc \in Before \union {"persist"} => Persisted = {}
  /\ pc \in {"complete"} \union Integrating =>
       "PatchVerified" \in Persisted /\ Persisted \intersect Terminal = {}

\* What the outcome told, from the moment it is decided.
Told ==
  pc \in {"teardown", "done"} =>
    /\ summary # None
    /\ summary \in {"completed", "PR opened"} <=> "TaskCompleted" \in Persisted
    /\ summary = "PR opened, not audited" =>
         remote = "opened" /\ Persisted \intersect Terminal = {}
    /\ "TaskKilled" \in Persisted => summary = "cancelled"

Trees ==
  /\ pc \in {"resolve", "create"} => worktree = "none"
  /\ WorktreeKeptOnlyUnrecorded

Accounted ==
  /\ TypeOK /\ file \in Seq(Frame) /\ Numbered(log, Top(pc))
  /\ ReceiptJoins /\ EarlyStops /\ NoOutcomeYet /\ Told /\ Trees

\* One more frame with a larger number.
LEMMA OneMore ==
  ASSUME NEW n \in Nat, NEW l, Numbered(l, n), NEW f \in Frame, n < f.seq
  PROVE  /\ Numbered(Append(l, f), f.seq)
         /\ Kinds(Append(l, f)) = Kinds(l) \union {f.kind}
         /\ \A g : (\E i \in 1 .. Len(l) : l[i] = g) =>
                     \E i \in 1 .. Len(Append(l, f)) : Append(l, f)[i] = g
         /\ \E i \in 1 .. Len(Append(l, f)) : Append(l, f)[i] = f
<1> DEFINE m == Append(l, f)
<1>1. l \in Seq(Frame) /\ Sorted(l) /\ \A i \in 1 .. Len(l) : l[i].seq <= n
  BY DEF Numbered
<1>2. /\ m \in Seq(Frame) /\ Len(m) = Len(l) + 1 /\ Len(l) \in Nat
      /\ m[Len(l) + 1] = f /\ \A i \in 1 .. Len(l) : m[i] = l[i]
  BY <1>1
<1>3. f.seq \in Nat /\ \A i \in 1 .. Len(l) : l[i].seq \in Nat
  <2>1. \A i \in 1 .. Len(l) : l[i] \in Frame
    BY <1>1
  <2> QED
    BY <2>1 DEF Frame
<1> HIDE DEF m
<1>4. \A i \in 1 .. Len(m) : m[i].seq <= f.seq
  BY <1>1, <1>2, <1>3
<1>5. Sorted(m)
  <2> SUFFICES ASSUME NEW i \in 1 .. Len(m), NEW j \in 1 .. Len(m), i < j
      PROVE  m[i].seq < m[j].seq
    BY DEF Sorted
  <2>1. CASE j \in 1 .. Len(l)
    <3>1. i \in 1 .. Len(l)
      BY <1>2, <2>1
    <3> QED
      BY <1>1, <1>2, <2>1, <3>1 DEF Sorted
  <2>2. CASE j = Len(l) + 1
    <3>1. i \in 1 .. Len(l)
      BY <1>2, <2>2
    <3> QED
      BY <1>1, <1>2, <1>3, <2>2, <3>1
  <2> QED
    BY <1>2, <2>1, <2>2
<1>6. Kinds(m) = Kinds(l) \union {f.kind}
  <2>1. 1 .. Len(m) = (1 .. Len(l)) \union {Len(l) + 1}
    BY <1>2
  <2> QED
    BY <1>2, <2>1 DEF Kinds
<1>7. /\ \A g : (\E i \in 1 .. Len(l) : l[i] = g) => \E i \in 1 .. Len(m) : m[i] = g
      /\ \E i \in 1 .. Len(m) : m[i] = f
  BY <1>2
<1> QED
  BY <1>2, <1>4, <1>5, <1>6, <1>7 DEF Numbered, m

\* Frames appended together are appended one by one.
LEMMA OneByOne ==
  ASSUME NEW l \in Seq(Frame), NEW x \in Frame
  PROVE  /\ l \o <<x>> = Append(l, x)
         /\ \A y \in Frame :
              /\ l \o <<x, y>> = Append(Append(l, x), y)
              /\ \A z \in Frame :
                   l \o <<x, y, z>> = Append(Append(Append(l, x), y), z)
  OBVIOUS

\* Holds(l, g): the log has the frame g.
Holds(l, g) == \E i \in 1 .. Len(l) : l[i] = g

\* A frame with the next number, as the paths of run_one_task append it.
LEMMA NextFrame ==
  ASSUME NEW n \in Nat, NEW l, Numbered(l, n), NEW s \in Nat, n < s, NEW k \in Kind
  PROVE  /\ Numbered(Append(l, F(s, k)), s)
         /\ Kinds(Append(l, F(s, k))) = Kinds(l) \union {k}
         /\ \A g : Holds(l, g) => Holds(Append(l, F(s, k)), g)
         /\ Holds(Append(l, F(s, k)), F(s, k))
<1> DEFINE f == F(s, k)
<1>1. f \in Frame /\ f.seq = s /\ f.kind = k
  BY DEF F, Frame
<1> HIDE DEF f
<1>3. n < f.seq
  BY <1>1
<1>4. /\ Numbered(Append(l, f), s) /\ Kinds(Append(l, f)) = Kinds(l) \union {k}
      /\ \A g : Holds(l, g) => Holds(Append(l, f), g)
      /\ Holds(Append(l, f), f)
  BY <1>1, <1>3, OneMore DEF Holds
<1> QED
  BY <1>4 DEF f

\* A bound on the numbers may be raised.
LEMMA NumberedUpTo ==
  ASSUME NEW l, NEW n \in Nat, NEW m \in Nat, n <= m, Numbered(l, n)
  PROVE  Numbered(l, m)
<1>1. \A i \in 1 .. Len(l) : l[i] \in Frame /\ l[i].seq <= n
  BY DEF Numbered
<1>2. \A i \in 1 .. Len(l) : l[i].seq \in Nat
  BY <1>1 DEF Frame
<1> QED
  BY <1>1, <1>2 DEF Numbered

\* A log with increasing numbers is storable, and a number in it names one
\* frame.
LEMMA NumberedIsSound ==
  ASSUME NEW l, NEW n, Numbered(l, n)
  PROVE  /\ Increasing(l)
         /\ (\E i \in 1 .. Len(l) : l[i] = F(6, "ToolCallCompleted")) => Joined(l, 6)
<1>1. l \in Seq(Frame) /\ Sorted(l)
  BY DEF Numbered
<1>2. Increasing(l)
  <2> SUFFICES ASSUME NEW i \in 1 .. Len(l) - 1 PROVE l[i].seq < l[i + 1].seq
    BY DEF Increasing
  <2>1. i \in 1 .. Len(l) /\ i + 1 \in 1 .. Len(l) /\ i < i + 1
    BY <1>1
  <2> QED
    BY <1>1, <2>1 DEF Sorted
<1>3. ASSUME NEW i \in 1 .. Len(l), l[i] = F(6, "ToolCallCompleted")
      PROVE  Joined(l, 6)
  <2>1. l[i].seq = 6 /\ l[i].kind = "ToolCallCompleted"
    BY <1>3 DEF F
  <2>2. ASSUME NEW j \in 1 .. Len(l), l[j].seq = 6 PROVE i <= j
    BY <1>1, <2>1, <2>2 DEF Sorted
  <2> QED
    BY <2>1, <2>2 DEF Joined
<1> QED
  BY <1>2, <1>3

\* Before it runs, a task accounts for nothing.
LEMMA AccountedInitially == Init => Accounted
<1> SUFFICES ASSUME Init PROVE Accounted
  OBVIOUS
<1>1. Numbered(<< >>, 0) /\ Kinds(<< >>) = {}
  BY DEF Numbered, Sorted, Kinds
<1>2. TypeOK
  BY DEF Init, TypeOK
<1>3. file \in Seq(Frame) /\ Numbered(log, Top(pc))
  BY <1>1 DEF Init, Top
<1>4. ReceiptJoins /\ EarlyStops /\ NoOutcomeYet /\ Told /\ Trees
  BY <1>1, NoneAssumption
     DEF Init, ReceiptJoins, EarlyStops, NoOutcomeYet, Told, Trees,
         WorktreeKeptOnlyUnrecorded, Ended, Integrating, Persisted, Before
<1> QED
  BY <1>2, <1>3, <1>4 DEF Accounted

\* The steps that record an outcome before anything was verified: the file
\* keeps nothing, or the whole log, which tells of the failure or the cancel.
LEMMA ConcludeAccounts ==
  ASSUME Accounted, pc \in Before, NEW frames, NEW line, NEW next,
         Conclude(frames, line, next), Numbered(log', 9),
         "TaskCompleted" \notin Kinds(log'), line \in {"failed", "cancelled"},
         "TaskKilled" \in Kinds(log') => line = "cancelled",
         \/ next = "teardown" \/ (next = "done" /\ worktree = "none")
  PROVE  Accounted'
<1>1. /\ pc' = next /\ summary' = line /\ receipt = None /\ receipt' = None
      /\ remote = "none" /\ remote' = "none" /\ worktree' = worktree
      /\ native' = native /\ pr' = pr /\ cancel' = cancel /\ lapsed' = lapsed
      /\ helper' = helper
  BY DEF Conclude, inputs, Accounted, ReceiptJoins
<1>2. file' = log' \/ file' = file
  BY DEF Conclude, Store
<1>3. file' \in Seq(Frame)
  BY <1>2 DEF Accounted, Numbered
<1>4. Kinds(log) \intersect Terminal = {} /\ Kinds(file) = {}
  BY DEF Accounted, NoOutcomeYet, Before, Ended, Persisted
<1>5. "TaskCompleted" \notin Kinds(file') /\ ("TaskKilled" \in Kinds(file') => line = "cancelled")
  BY <1>2, <1>4 DEF Terminal
<1>6. line # None
  BY NoneAssumption DEF SummaryLines
<1>7. TypeOK'
  BY <1>1, <1>6 DEF Accounted, TypeOK
<1>8. Numbered(log, Top(pc))' /\ ReceiptJoins' /\ EarlyStops' /\ NoOutcomeYet'
  BY <1>1 DEF Accounted, Top, Integrating, ReceiptJoins, Before, EarlyStops,
              Ended, NoOutcomeYet
<1>9. Told'
  BY <1>1, <1>5, <1>6 DEF Told, Persisted
<1>10. Trees'
  BY <1>1, <1>4, <1>5 DEF Accounted, Trees, WorktreeKeptOnlyUnrecorded
<1> QED
  BY <1>3, <1>7, <1>8, <1>9, <1>10 DEF Accounted

\* The steps on the way to the verifier: one or two frames, nothing stored.
LEMMA ProceedAccounts ==
  ASSUME Accounted, pc \in Before, NEW next \in Before, Proceed(next),
         Numbered(log', Top(next)), Kinds(log') \intersect Terminal = {},
         next # "verify" \/ cancel # "early", next \notin {"resolve", "create"}
           \/ worktree' = "none",
         worktree' \in {"none", "present", "removed"}
  PROVE  Accounted'
<1>1. /\ pc' = next /\ summary' = summary /\ receipt = None /\ receipt' = None
      /\ remote = "none" /\ remote' = "none" /\ file' = file
      /\ native' = native /\ pr' = pr /\ cancel' = cancel /\ lapsed' = lapsed
      /\ helper' = helper
  BY DEF Proceed, inputs, Accounted, ReceiptJoins
<1>2. TypeOK'
  BY <1>1 DEF Accounted, TypeOK, Before
<1>3. ReceiptJoins' /\ EarlyStops'
  BY <1>1 DEF Accounted, ReceiptJoins, EarlyStops, Before, Ended
<1>4. NoOutcomeYet' /\ Told' /\ Trees'
  BY <1>1 DEF Accounted, NoOutcomeYet, Told, Trees, WorktreeKeptOnlyUnrecorded,
              Before, Ended, Integrating, Persisted
<1> QED
  BY <1>1, <1>2, <1>3, <1>4 DEF Accounted

\* A failed integration: the file is the evidence, or the evidence and the
\* failure.
LEMMA IntegrationFailedAccounts ==
  ASSUME Accounted, pc \in Integrating, NEW leftover \in BOOLEAN, NEW seen,
         seen \subseteq {"none", "pushed", "opened"},
         IntegrationFailed(leftover, seen)
  PROVE  Accounted'
<1>1. /\ pc' = "teardown" /\ summary' = "integration failed" /\ receipt' = receipt
      /\ remote' \in {"none", "pushed", "opened"} /\ worktree' = worktree
      /\ native' = native /\ pr' = pr /\ cancel' = cancel /\ lapsed' = lapsed
      /\ helper' = leftover /\ log' = Append(log, F(8, "TaskFailed"))
      /\ file' \in {log', file}
  BY DEF IntegrationFailed, inputs, Store
<1>2. F(8, "TaskFailed") \in Frame /\ F(8, "TaskFailed").seq = 8
      /\ F(8, "TaskFailed").kind = "TaskFailed"
  BY DEF F, Frame, Kind
<1>3. Numbered(log, 7) /\ 7 \in Nat /\ 7 < 8
  BY DEF Accounted, Top, Integrating
<1>4. /\ Numbered(log', 8) /\ Kinds(log') = Kinds(log) \union {"TaskFailed"}
      /\ \A g : (\E i \in 1 .. Len(log) : log[i] = g) =>
                  \E i \in 1 .. Len(log') : log'[i] = g
  <2> DEFINE f == F(8, "TaskFailed")
  <2>1. log' = Append(log, f) /\ f \in Frame /\ f.seq = 8 /\ f.kind = "TaskFailed"
    BY <1>1, <1>2
  <2> HIDE DEF f
  <2>2. 7 < f.seq
    BY <2>1
  <2> QED
    BY <1>3, <2>1, <2>2, OneMore
<1>5. Numbered(log', 9)
  <2>1. \A i \in 1 .. Len(log') : log'[i].seq \in Nat
    <3>1. \A i \in 1 .. Len(log') : log'[i] \in Frame
      BY <1>4 DEF Numbered
    <3> QED BY <3>1 DEF Frame
  <2> QED BY <1>4, <2>1 DEF Numbered
<1>6. file' \in Seq(Frame)
  BY <1>1, <1>4 DEF Accounted, Numbered
<1>7. Kinds(log) \intersect Terminal = {} /\ Kinds(file) \intersect Terminal = {}
  BY DEF Accounted, NoOutcomeYet, Integrating, Ended, Persisted
<1>8. "TaskCompleted" \notin Kinds(file') /\ "TaskKilled" \notin Kinds(file')
  <2>1. CASE file' = log'
    BY <1>4, <1>7, <2>1 DEF Terminal
  <2>2. CASE file' = file
    BY <1>7, <2>2 DEF Terminal
  <2> QED
    BY <1>1, <2>1, <2>2
<1>9. cancel # "early"
  BY DEF Accounted, EarlyStops, Integrating, Before, Ended
<1>10. "integration failed" # None
  BY NoneAssumption DEF SummaryLines
<1>11. TypeOK'
  BY <1>1, <1>10 DEF Accounted, TypeOK
<1>12. ReceiptJoins'
  BY <1>1, <1>4 DEF Accounted, ReceiptJoins, Before
<1>13. EarlyStops' /\ NoOutcomeYet' /\ Told' /\ Trees'
  BY <1>1, <1>8, <1>9, <1>10
     DEF EarlyStops, NoOutcomeYet, Told, Trees, WorktreeKeptOnlyUnrecorded,
         Before, Ended, Integrating, Persisted
<1>14. Numbered(log, Top(pc))'
  BY <1>1, <1>5 DEF Top, Integrating
<1> QED
  BY <1>6, <1>11, <1>12, <1>13, <1>14 DEF Accounted

\* Every step of the task, of the operator and of time keeps the account.
LEMMA StepAccounts == Accounted /\ [Next]_vars => Accounted'
<1> SUFFICES ASSUME Accounted, [Next]_vars PROVE Accounted'
  OBVIOUS
<1>0. Numbered(log, Top(pc)) /\ TypeOK
  BY DEF Accounted
<1>b. /\ "TaskCreated" \in Kind /\ "JobQueued" \in Kind /\ "JobLeased" \in Kind
      /\ "PatchProposed" \in Kind /\ "ToolCallStarted" \in Kind
      /\ "ToolCallCompleted" \in Kind /\ "PatchVerified" \in Kind
      /\ "CommandCompleted" \in Kind /\ "PatchRejected" \in Kind
      /\ "GitHubOperationCompleted" \in Kind /\ "TaskCompleted" \in Kind
      /\ "TaskFailed" \in Kind /\ "TaskKilled" \in Kind
  BY DEF Kind
<1>f. /\ \A n \in Nat, k \in Kind : F(n, k) \in Frame
      /\ F(3, "TaskFailed") \in Frame
  BY DEF F, Frame, Kind
<1>l. log \in Seq(Frame)
  BY <1>0 DEF Numbered
<1>t. pc \notin Ended => Kinds(log) \intersect Terminal = {}
  BY DEF Accounted, NoOutcomeYet
<1>1. CASE Resolve
  <2> DEFINE two == <<F(1, "TaskCreated"), F(2, "JobQueued")>>
  <2>0. pc = "resolve" /\ worktree = "none" /\ Kinds(log) = Kinds(log)
    BY <1>1 DEF Resolve, Accounted, Trees
  <2>1. Numbered(two, 2) /\ Kinds(two) \intersect Terminal = {}
    <3> DEFINE none == << >>
               one == Append(none, F(1, "TaskCreated"))
    <3>1. Numbered(none, 0) /\ Kinds(none) = {}
      BY DEF Numbered, Sorted, Kinds
    <3>2. two = Append(one, F(2, "JobQueued"))
      OBVIOUS
    <3> HIDE DEF none
    <3>3. Numbered(one, 1) /\ Kinds(one) = {"TaskCreated"}
      BY <1>b, <3>1, NextFrame
    <3> HIDE DEF one, two
    <3>4. Numbered(two, 2) /\ Kinds(two) = {"TaskCreated", "JobQueued"}
      BY <1>b, <3>2, <3>3, NextFrame
    <3> QED
      BY <3>4 DEF Terminal
  <2>r. \/ Return("refused") /\ log' = log
        \/ Return("no key") /\ log' = two
        \/ Proceed("create") /\ worktree' = worktree /\ log' = two
    BY <1>1, Zenon DEF Resolve
  <2> HIDE DEF two
  <2>2. CASE \/ Return("refused") /\ log' = log
             \/ Return("no key") /\ log' = two
    <3>1. /\ pc' = "done" /\ summary' \in {"refused", "no key"}
          /\ UNCHANGED <<inputs, file, receipt, worktree, helper, remote>>
      BY <2>2 DEF Return
    <3>2. Numbered(log', 9)
      <4>1. Numbered(log, 0)
        BY <1>0, <2>0 DEF Top
      <4>2. QED
        <5>1. Numbered(log, 9) /\ Numbered(two, 9)
          BY <2>1, <4>1, NumberedUpTo
        <5> QED
          BY <2>2, <5>1
    <3>3. receipt = None /\ remote = "none" /\ Kinds(file) = {}
      BY <2>0 DEF Accounted, ReceiptJoins, NoOutcomeYet, Before, Persisted
    <3>4. summary' # None
      BY <3>1, NoneAssumption DEF SummaryLines
    <3>5. TypeOK'
      BY <1>0, <3>1, <3>4 DEF TypeOK, inputs
    <3>6. Numbered(log, Top(pc))' /\ file' \in Seq(Frame)
      BY <3>1, <3>2 DEF Top, Integrating, Accounted
    <3>7. ReceiptJoins' /\ EarlyStops' /\ NoOutcomeYet' /\ Told' /\ Trees'
      BY <2>0, <3>1, <3>3, <3>4
         DEF ReceiptJoins, EarlyStops, NoOutcomeYet, Told, Trees, inputs,
             WorktreeKeptOnlyUnrecorded, Before, Ended, Integrating, Persisted
    <3> QED
      BY <3>5, <3>6, <3>7 DEF Accounted
  <2>3. CASE Proceed("create") /\ worktree' = worktree /\ log' = two
    <3>1. Top("create") = 2
      BY DEF Top
    <3>2. pc \in Before /\ "create" \in Before
      BY <2>0 DEF Before
    <3> QED
      BY <2>0, <2>1, <2>3, <3>1, <3>2, ProceedAccounts
  <2> QED
    BY <2>r, <2>2, <2>3
<1>2. CASE Create
  <2>0. pc = "create" /\ worktree = "none" /\ pc \in Before /\ Numbered(log, 2)
        /\ Kinds(log) \intersect Terminal = {}
    BY <1>0, <1>2, <1>t DEF Create, Accounted, Trees, Before, Top, Ended
  <2>1. CASE Conclude(<<F(3, "TaskFailed")>>, "failed", "done")
    <3>0. log \o <<F(3, "TaskFailed")>> = Append(log, F(3, "TaskFailed"))
      BY <1>f, <1>l, OneByOne
    <3>1. log' = Append(log, F(3, "TaskFailed"))
      BY <2>1, <3>0 DEF Conclude
    <3>2. Numbered(log', 3) /\ Kinds(log') = Kinds(log) \union {"TaskFailed"}
      BY <1>b, <2>0, <3>1, NextFrame
    <3>3. Numbered(log', 9)
      BY <1>b, <3>2, NumberedUpTo
    <3> QED
      BY <2>0, <2>1, <3>2, <3>3, ConcludeAccounts DEF Terminal
  <2>2. CASE /\ log' = Append(log, F(3, "JobLeased"))
             /\ worktree' = "present" /\ Proceed("check1")
    <3>1. Numbered(log', 3) /\ Kinds(log') = Kinds(log) \union {"JobLeased"}
      BY <1>b, <2>0, <2>2, NextFrame
    <3>2. Kinds(log') \intersect Terminal = {} /\ Top("check1") = 3
          /\ "check1" \in Before
      BY <2>0, <3>1 DEF Terminal, Top, Before
    <3> QED
      BY <2>0, <2>2, <3>1, <3>2, ProceedAccounts
  <2> QED
    BY <1>2, <2>1, <2>2 DEF Create
<1>3. ASSUME pc \in {"check1", "work", "check2"}, NEW k \in {"TaskKilled", "TaskFailed"},
             NEW line, Conclude(<<F(4, k)>>, line, "teardown"),
             line = IF k = "TaskKilled" THEN "cancelled" ELSE "failed"
      PROVE  Accounted'
  <2>0. pc \in Before /\ Numbered(log, 3)
    BY <1>0, <1>3 DEF Before, Top
  <2>1. log' = Append(log, F(4, k)) /\ k \in Kind
    <3>1. k \in Kind /\ F(4, k) \in Frame
      BY <1>b, <1>f
    <3>2. log \o <<F(4, k)>> = Append(log, F(4, k))
      BY <1>l, <3>1, OneByOne
    <3> QED
      BY <1>3, <3>1, <3>2 DEF Conclude
  <2>2. Numbered(log', 4) /\ Kinds(log') = Kinds(log) \union {k}
    BY <1>b, <2>0, <2>1, NextFrame
  <2>3. Numbered(log', 9)
    BY <1>b, <2>2, NumberedUpTo
  <2> QED
    BY <1>3, <1>t, <2>0, <2>2, <2>3, ConcludeAccounts DEF Terminal, Before, Ended
<1>4. ASSUME pc \in {"check1", "work"}, NEW next \in {"work", "check2"},
             Proceed(next), UNCHANGED <<log, worktree>>
      PROVE  Accounted'
  <2>0. pc \in Before /\ next \in Before /\ Numbered(log, 3) /\ Top(next) = 3
        /\ Kinds(log) \intersect Terminal = {}
    BY <1>0, <1>4, <1>t DEF Before, Top, Ended
  <2>1. Numbered(log', Top(next)) /\ Kinds(log') \intersect Terminal = {}
    BY <1>4, <2>0
  <2> QED
    BY <1>0, <1>4, <2>0, <2>1, ProceedAccounts DEF TypeOK
<1>5. CASE CheckBeforeWork
  BY <1>3, <1>4, <1>5 DEF CheckBeforeWork
<1>6. CASE Work
  BY <1>3, <1>4, <1>6 DEF Work
<1>7. CASE CheckBeforeVerify
  <2>0. pc = "check2" /\ pc \in Before /\ Numbered(log, 3)
        /\ Kinds(log) \intersect Terminal = {}
    BY <1>0, <1>7, <1>t DEF CheckBeforeVerify, Before, Top, Ended
  <2> DEFINE one == Append(log, F(4, "PatchProposed"))
  <2>1. Numbered(one, 4) /\ Kinds(one) = Kinds(log) \union {"PatchProposed"}
    BY <1>b, <2>0, NextFrame
  <2>2. ASSUME NEW k \in {"TaskKilled", "ToolCallStarted"}
        PROVE  /\ log \o <<F(4, "PatchProposed"), F(5, k)>> = Append(one, F(5, k))
               /\ Numbered(Append(one, F(5, k)), 5)
               /\ Kinds(Append(one, F(5, k))) = Kinds(log) \union {"PatchProposed", k}
    <3>1. F(4, "PatchProposed") \in Frame /\ F(5, k) \in Frame /\ k \in Kind
      BY <1>b, <1>f
    <3>2. log \o <<F(4, "PatchProposed"), F(5, k)>> = Append(one, F(5, k))
      BY <1>l, <3>1, OneByOne
    <3> HIDE DEF one
    <3> QED
      BY <2>1, <3>1, <3>2, NextFrame
  <2> HIDE DEF one
  <2>3. CASE cancel # None
    <3>1. Conclude(<<F(4, "PatchProposed"), F(5, "TaskKilled")>>, "cancelled", "teardown")
      BY <1>7, <2>3 DEF CheckBeforeVerify
    <3>2. log' = Append(one, F(5, "TaskKilled"))
      BY <2>2, <3>1 DEF Conclude
    <3>3. Numbered(log', 9) /\ "TaskCompleted" \notin Kinds(log')
      BY <2>0, <2>2, <3>2, NumberedUpTo DEF Terminal
    <3> QED
      BY <2>0, <3>1, <3>3, ConcludeAccounts
  <2>4. CASE cancel = None
    <3>1. /\ log' = log \o <<F(4, "PatchProposed"), F(5, "ToolCallStarted")>>
          /\ Proceed("verify") /\ UNCHANGED worktree
      BY <1>7, <2>4 DEF CheckBeforeVerify
    <3>2. /\ log' = Append(one, F(5, "ToolCallStarted"))
          /\ Kinds(log') \intersect Terminal = {}
          /\ Numbered(log', 5)
      BY <2>0, <2>2, <3>1 DEF Terminal
    <3>3. Top("verify") = 5 /\ "verify" \in Before /\ cancel # "early"
      BY <2>4, NoneAssumption DEF Top, Before
    <3> QED
      BY <1>0, <2>0, <3>1, <3>2, <3>3, ProceedAccounts DEF TypeOK
  <2> QED
    BY <2>3, <2>4
<1>8. CASE VerifyPassed
  <2>0. /\ pc = "verify" /\ pc \in Before /\ Numbered(log, 5)
        /\ Kinds(log) \intersect Terminal = {} /\ cancel # "early"
        /\ remote = "none" /\ Kinds(file) = {}
    BY <1>0, <1>8, <1>t DEF VerifyPassed, Before, Top, Ended, Accounted, EarlyStops,
       ReceiptJoins, NoOutcomeYet, Persisted
  <2> DEFINE one == Append(log, F(6, "ToolCallCompleted"))
             two == Append(one, F(7, "PatchVerified"))
  <2>1. /\ Numbered(one, 6) /\ Kinds(one) = Kinds(log) \union {"ToolCallCompleted"}
        /\ Holds(one, F(6, "ToolCallCompleted"))
    BY <1>b, <2>0, NextFrame
  <2>2. F(6, "ToolCallCompleted") \in Frame /\ F(7, "PatchVerified") \in Frame
    BY <1>b, <1>f
  <2>3. log \o <<F(6, "ToolCallCompleted"), F(7, "PatchVerified")>> = two
    BY <1>l, <2>2, OneByOne
  <2> HIDE DEF one
  <2>4. /\ Numbered(two, 7) /\ Kinds(two) = Kinds(one) \union {"PatchVerified"}
        /\ Holds(two, F(6, "ToolCallCompleted"))
    BY <1>b, <2>1, NextFrame
  <2> HIDE DEF two
  <2>5. log' = two /\ receipt' = 6
    BY <1>8, <2>3 DEF VerifyPassed
  <2>6. Joined(log', receipt')
    BY <2>4, <2>5, NumberedIsSound DEF Holds
  <2>7. /\ pc' = "persist" /\ summary' = summary
        /\ UNCHANGED <<inputs, file, worktree, helper, remote>>
    BY <1>8, <2>6 DEF VerifyPassed
  <2>8. TypeOK' /\ file' \in Seq(Frame) /\ Numbered(log, Top(pc))'
    BY <1>0, <2>4, <2>5, <2>7 DEF TypeOK, inputs, Top, Accounted
  <2>9. ReceiptJoins'
    BY <2>4, <2>5, <2>7 DEF ReceiptJoins, Holds, Before
  <2>10. EarlyStops' /\ Told' /\ Trees'
    BY <2>0, <2>7 DEF EarlyStops, Told, Trees, WorktreeKeptOnlyUnrecorded, inputs
  <2>11. NoOutcomeYet'
    BY <2>0, <2>1, <2>4, <2>5, <2>7
       DEF NoOutcomeYet, Ended, Terminal, Persisted, Integrating
  <2> QED
    BY <2>8, <2>9, <2>10, <2>11 DEF Accounted
<1>9. CASE VerifyNotPassed
  <2>0. pc = "verify" /\ pc \in Before /\ Numbered(log, 5)
        /\ Kinds(log) \intersect Terminal = {}
    BY <1>0, <1>9, <1>t DEF VerifyNotPassed, Before, Top, Ended
  <2>1. CASE Conclude(<<F(6, "TaskFailed")>>, "failed", "teardown")
    <3>1. F(6, "TaskFailed") \in Frame
      BY <1>b, <1>f
    <3>2. log \o <<F(6, "TaskFailed")>> = Append(log, F(6, "TaskFailed"))
      BY <1>l, <3>1, OneByOne
    <3>3. log' = Append(log, F(6, "TaskFailed"))
      BY <2>1, <3>2 DEF Conclude
    <3>4. Numbered(log', 6) /\ Kinds(log') = Kinds(log) \union {"TaskFailed"}
      BY <1>b, <2>0, <3>3, NextFrame
    <3>5. Numbered(log', 9)
      BY <3>4, NumberedUpTo
    <3> QED
      BY <2>0, <2>1, <3>4, <3>5, ConcludeAccounts DEF Terminal
  <2>2. CASE Conclude(<<F(6, "CommandCompleted"), F(7, "PatchRejected"),
                        F(8, "TaskFailed")>>, "failed", "teardown")
    <3> DEFINE one == Append(log, F(6, "CommandCompleted"))
               two == Append(one, F(7, "PatchRejected"))
               three == Append(two, F(8, "TaskFailed"))
    <3>1. /\ F(6, "CommandCompleted") \in Frame /\ F(7, "PatchRejected") \in Frame
          /\ F(8, "TaskFailed") \in Frame
      BY <1>b, <1>f
    <3>2. log \o <<F(6, "CommandCompleted"), F(7, "PatchRejected"),
                   F(8, "TaskFailed")>> = three
      BY <1>l, <3>1, OneByOne
    <3>3. Numbered(one, 6) /\ Kinds(one) = Kinds(log) \union {"CommandCompleted"}
      BY <1>b, <2>0, NextFrame
    <3> HIDE DEF one
    <3>4. Numbered(two, 7) /\ Kinds(two) = Kinds(one) \union {"PatchRejected"}
      BY <1>b, <3>3, NextFrame
    <3> HIDE DEF two
    <3>5. Numbered(three, 8) /\ Kinds(three) = Kinds(two) \union {"TaskFailed"}
      BY <1>b, <3>4, NextFrame
    <3> HIDE DEF three
    <3>6. log' = three
      BY <2>2, <3>2 DEF Conclude
    <3>7. Numbered(log', 9)
      BY <3>5, <3>6, NumberedUpTo
    <3>8. "TaskCompleted" \notin Kinds(log') /\ "TaskKilled" \notin Kinds(log')
      BY <2>0, <3>3, <3>4, <3>5, <3>6 DEF Terminal
    <3> QED
      BY <2>0, <2>2, <3>7, <3>8, ConcludeAccounts
  <2> QED
    BY <1>9, <2>1, <2>2 DEF VerifyNotPassed
<1>10. CASE Persist
  <2>0. /\ pc = "persist" /\ Kinds(log) \intersect Terminal = {} /\ Kinds(file) = {}
        /\ "PatchVerified" \in Kinds(log) /\ Numbered(log, 7) /\ cancel # "early"
        /\ UNCHANGED <<inputs, log, receipt, worktree, helper, remote>>
    BY <1>0, <1>10, <1>t DEF Persist, Top, Ended, Accounted, EarlyStops,
       NoOutcomeYet, Persisted, Before
  <2>1. \/ /\ file' = log /\ pc' \in {"intent", "complete"} /\ summary' = summary
        \/ file' = file /\ pc' = "teardown" /\ summary' = "not completed"
    BY <1>10 DEF Persist, Store
  <2>2. "not completed" # None
    BY NoneAssumption DEF SummaryLines
  <2>3. TypeOK' /\ file' \in Seq(Frame)
    BY <1>0, <1>l, <2>0, <2>1, <2>2 DEF TypeOK, inputs, Accounted
  <2>4. Numbered(log, Top(pc))'
    <3>1. Numbered(log, 9)
      BY <2>0, NumberedUpTo
    <3> QED
      BY <2>0, <2>1, <3>1 DEF Top, Integrating
  <2>5. ReceiptJoins' /\ EarlyStops'
    BY <2>0, <2>1 DEF Accounted, ReceiptJoins, EarlyStops, Before, inputs
  <2>6. CASE file' = log /\ pc' \in {"intent", "complete"}
    <3>1. NoOutcomeYet' /\ Told' /\ Trees'
      BY <2>0, <2>6 DEF NoOutcomeYet, Told, Trees, WorktreeKeptOnlyUnrecorded,
         Before, Ended, Integrating, Persisted
    <3> QED
      BY <2>3, <2>4, <2>5, <3>1 DEF Accounted
  <2>7. CASE file' = file /\ pc' = "teardown" /\ summary' = "not completed"
    <3>1. NoOutcomeYet' /\ Told' /\ Trees'
      BY <2>0, <2>2, <2>7 DEF NoOutcomeYet, Told, Trees, WorktreeKeptOnlyUnrecorded,
         Before, Ended, Integrating, Persisted
    <3> QED
      BY <2>3, <2>4, <2>5, <3>1 DEF Accounted
  <2> QED
    BY <2>1, <2>6, <2>7
<1>11. CASE Complete
  <2>0. /\ pc = "complete" /\ Kinds(log) \intersect Terminal = {}
        /\ "PatchVerified" \in Kinds(file) /\ Kinds(file) \intersect Terminal = {}
        /\ Numbered(log, 7) /\ cancel # "early"
        /\ UNCHANGED <<inputs, receipt, worktree, helper, remote>>
        /\ log' = Append(log, F(8, "TaskCompleted"))
    BY <1>0, <1>11, <1>t DEF Complete, Top, Ended, Accounted, EarlyStops,
       NoOutcomeYet, Persisted, Before
  <2>1. \/ file' = log' /\ pc' = "teardown" /\ summary' = "completed"
        \/ file' = file /\ pc' = "done" /\ summary' = "not completed"
    BY <1>11 DEF Complete, Store
  <2>2. /\ Numbered(log', 8) /\ Kinds(log') = Kinds(log) \union {"TaskCompleted"}
        /\ \A g : Holds(log, g) => Holds(log', g)
    BY <1>b, <2>0, NextFrame
  <2>3. "not completed" # None /\ "completed" # None
    BY NoneAssumption DEF SummaryLines
  <2>4. TypeOK' /\ file' \in Seq(Frame)
    BY <1>0, <2>0, <2>1, <2>2, <2>3 DEF TypeOK, inputs, Accounted, Numbered
  <2>5. Numbered(log, Top(pc))'
    <3>1. Numbered(log', 9)
      BY <2>2, NumberedUpTo
    <3> QED
      BY <2>1, <3>1 DEF Top, Integrating
  <2>6. ReceiptJoins' /\ EarlyStops'
    BY <2>0, <2>1, <2>2 DEF Accounted, ReceiptJoins, EarlyStops, Before, inputs, Holds
  <2>7. CASE file' = log' /\ pc' = "teardown" /\ summary' = "completed"
    <3>1. "TaskCompleted" \in Kinds(file') /\ "TaskKilled" \notin Kinds(file')
      BY <2>0, <2>2, <2>7 DEF Terminal
    <3>2. NoOutcomeYet' /\ Told' /\ Trees'
      BY <2>3, <2>7, <3>1 DEF NoOutcomeYet, Told, Trees, WorktreeKeptOnlyUnrecorded,
         Before, Ended, Integrating, Persisted
    <3> QED
      BY <2>4, <2>5, <2>6, <3>2 DEF Accounted
  <2>8. CASE file' = file /\ pc' = "done" /\ summary' = "not completed"
    <3>1. NoOutcomeYet'
      BY <2>8 DEF NoOutcomeYet, Before, Ended, Integrating
    <3>2. Told' /\ Trees'
      BY <2>0, <2>3, <2>8 DEF Told, Trees, WorktreeKeptOnlyUnrecorded,
         Terminal, Persisted
    <3> QED
      BY <2>4, <2>5, <2>6, <3>1, <3>2 DEF Accounted
  <2> QED
    BY <2>1, <2>7, <2>8
<1>12. ASSUME pc \in Integrating, NEW next \in Integrating, pc' = next,
             UNCHANGED <<inputs, audit, worktree, summary>>,
             helper' \in BOOLEAN, remote' \in {"none", "pushed", "opened"}
      PROVE  Accounted'
  <2>0. cancel # "early" /\ Top(pc) = 7 /\ Top(next) = 7
    BY <1>12 DEF Accounted, EarlyStops, Integrating, Before, Ended, Top
  <2>1. TypeOK' /\ file' \in Seq(Frame)
    BY <1>0, <1>12 DEF TypeOK, inputs, audit, Accounted, Integrating
  <2>2. Numbered(log, Top(pc))' /\ ReceiptJoins' /\ EarlyStops'
    BY <1>0, <1>12, <2>0 DEF Accounted, ReceiptJoins, EarlyStops, Before,
       inputs, audit, Integrating
  <2>3. NoOutcomeYet' /\ Told' /\ Trees'
    BY <1>12 DEF Accounted, NoOutcomeYet, Told, Trees, WorktreeKeptOnlyUnrecorded,
         Before, Ended, Integrating, Persisted, inputs, audit
  <2> QED
    BY <2>1, <2>2, <2>3 DEF Accounted
<1>r. remote \in {"none", "pushed", "opened"} /\ helper \in BOOLEAN
  BY <1>0 DEF TypeOK
<1>13. CASE Intent
  BY <1>r, <1>12, <1>13, IntegrationFailedAccounts
     DEF Intent, Integrating, Proceed, audit
<1>14. CASE Lease
  BY <1>r, <1>12, <1>14, IntegrationFailedAccounts DEF Lease, Integrating
<1>15. CASE Push
  BY <1>r, <1>12, <1>15, IntegrationFailedAccounts DEF Push, Integrating
<1>16. CASE CreatePull
  <2>0. pc \in Integrating
    BY <1>16 DEF CreatePull, Integrating
  <2>1. CASE IntegrationFailed(FALSE, {remote, "opened"})
    BY <1>r, <2>0, <2>1, IntegrationFailedAccounts
  <2>2. CASE /\ remote' = "opened"
             /\ log' = log \o <<F(8, "GitHubOperationCompleted"),
                                F(9, "TaskCompleted")>>
             /\ \E ok \in StoreOutcome(log') :
                  /\ Store(log', ok)
                  /\ summary' = IF ok THEN "PR opened" ELSE "PR opened, not audited"
             /\ pc' = "teardown" /\ helper' = FALSE
             /\ UNCHANGED <<inputs, receipt, worktree>>
    <3>0. /\ Kinds(log) \intersect Terminal = {} /\ Kinds(file) \intersect Terminal = {}
          /\ Numbered(log, 7) /\ cancel # "early"
      BY <1>0, <1>t, <2>0 DEF Integrating, Top, Ended, Accounted, EarlyStops,
         NoOutcomeYet, Persisted, Before
    <3> DEFINE one == Append(log, F(8, "GitHubOperationCompleted"))
    <3>1. /\ Numbered(one, 8) /\ \A g : Holds(log, g) => Holds(one, g)
          /\ Kinds(one) = Kinds(log) \union {"GitHubOperationCompleted"}
      BY <1>b, <3>0, NextFrame
    <3>2. F(8, "GitHubOperationCompleted") \in Frame /\ F(9, "TaskCompleted") \in Frame
      BY <1>b, <1>f
    <3>3. log' = Append(one, F(9, "TaskCompleted"))
      BY <1>l, <2>2, <3>2, OneByOne
    <3> HIDE DEF one
    <3>4. /\ Numbered(log', 9) /\ Kinds(log') = Kinds(one) \union {"TaskCompleted"}
          /\ \A g : Holds(log, g) => Holds(log', g)
      BY <1>b, <3>1, <3>3, NextFrame
    <3>5. "PR opened" # None /\ "PR opened, not audited" # None
      BY NoneAssumption DEF SummaryLines
    <3>6. \/ file' = log' /\ summary' = "PR opened"
          \/ file' = file /\ summary' = "PR opened, not audited"
      BY <2>2 DEF Store
    <3>7. TypeOK' /\ file' \in Seq(Frame)
      BY <1>0, <2>2, <3>4, <3>6 DEF TypeOK, inputs, Accounted, Numbered
    <3>8. Numbered(log, Top(pc))' /\ ReceiptJoins' /\ EarlyStops' /\ NoOutcomeYet'
      BY <2>2, <3>0, <3>4 DEF Accounted, Top, ReceiptJoins, EarlyStops, Before,
         inputs, Holds, NoOutcomeYet, Ended, Integrating
    <3>9. CASE file' = log' /\ summary' = "PR opened"
      <4>1. "TaskCompleted" \in Kinds(file') /\ "TaskKilled" \notin Kinds(file')
        BY <3>0, <3>1, <3>4, <3>9 DEF Terminal
      <4> QED
        BY <2>2, <3>5, <3>7, <3>8, <3>9, <4>1 DEF Accounted, Told, Trees,
           WorktreeKeptOnlyUnrecorded, Persisted
    <3>10. CASE file' = file /\ summary' = "PR opened, not audited"
      <4>1. Told' /\ Trees'
        BY <2>2, <3>0, <3>5, <3>10 DEF Told, Trees,
           WorktreeKeptOnlyUnrecorded, Persisted, Terminal
      <4> QED
        BY <3>7, <3>8, <4>1 DEF Accounted
    <3> QED
      BY <3>6, <3>9, <3>10
  <2> QED
    BY <1>16, <2>1, <2>2, Zenon DEF CreatePull
<1>n. Numbered(log, 9)
  <2>1. Top(pc) \in Nat /\ Top(pc) <= 9
    BY DEF Top
  <2> QED
    BY <1>0, <2>1, NumberedUpTo
<1>17. CASE Teardown \/ Crash
  <2>1. /\ pc' \in {"done", "crashed"} /\ UNCHANGED <<inputs, audit, helper, remote, summary>>
        /\ pc' = "done" => pc = "teardown" /\ worktree' = "removed"
        /\ worktree' \in {worktree, "removed"}
    BY <1>17 DEF Teardown, Crash
  <2>2. TypeOK' /\ file' \in Seq(Frame)
    BY <1>0, <2>1 DEF TypeOK, inputs, audit, Accounted, Told
  <2>3. Numbered(log, Top(pc))' /\ ReceiptJoins' /\ EarlyStops'
    BY <1>n, <2>1 DEF Accounted, Top, ReceiptJoins, EarlyStops, Before,
         inputs, audit, Ended, Integrating
  <2>4. NoOutcomeYet' /\ Told' /\ Trees'
    BY <2>1 DEF Accounted, NoOutcomeYet, Told, Trees, WorktreeKeptOnlyUnrecorded,
         Before, Ended, Integrating, Persisted, inputs, audit
  <2> QED
    BY <2>2, <2>3, <2>4 DEF Accounted
<1>18. CASE RequestCancel \/ ApprovalExpires \/ UNCHANGED vars
  <2>1. /\ UNCHANGED <<pc, native, pr, audit, worktree, helper, remote, summary>>
        /\ lapsed' \in {None, "early", "late"}
        /\ \/ cancel' = cancel
           \/ cancel' = "late"
           \/ cancel' = "early" /\ pc \in Before \ {"verify"}
    BY <1>0, <1>18 DEF RequestCancel, ApprovalExpires, vars, Before, TypeOK
  <2>2. TypeOK' /\ file' \in Seq(Frame) /\ Numbered(log, Top(pc))'
    BY <1>0, <2>1 DEF TypeOK, audit, Accounted
  <2>3. EarlyStops'
    BY <2>1 DEF Accounted, EarlyStops, ReceiptJoins, audit
  <2>4. ReceiptJoins' /\ NoOutcomeYet' /\ Told' /\ Trees'
    BY <2>1 DEF Accounted, ReceiptJoins, NoOutcomeYet, Told, Trees,
         WorktreeKeptOnlyUnrecorded, Persisted, audit
  <2> QED
    BY <2>2, <2>3, <2>4 DEF Accounted
<1> QED
  BY <1>1, <1>2, <1>5, <1>6, <1>7, <1>8, <1>9, <1>10, <1>11, <1>13, <1>14, <1>15,
     <1>16, <1>17, <1>18 DEF Next, Task

\* However a task ends, its numbers, its summary, its persisted log and its
\* worktree tell the same story, and an early cancel is honoured
\* (run_one_task numbers every path by hand and stores the log on each).
THEOREM TaskEndsAccounted == Spec => []TaskEndsAreAccounted
<1>1. Accounted => TaskEndsAreAccounted
  <2> SUFFICES ASSUME Accounted PROVE TaskEndsAreAccounted
    OBVIOUS
  <2>1. NumberingIsSound
    BY NumberedIsSound DEF Accounted, ReceiptJoins, NumberingIsSound
  <2>2. SummaryMatchesAudit /\ EarlyCancelPreventsEffects /\ WorktreeKeptOnlyUnrecorded
    BY DEF Accounted, Told, EarlyStops, Trees, SummaryMatchesAudit,
           EarlyCancelPreventsEffects
  <2> QED
    BY <2>1, <2>2 DEF Accounted, TaskEndsAreAccounted
<1> QED
  BY AccountedInitially, StepAccounts, <1>1, PTL DEF Spec

-----------------------------------------------------------------------------
(* The worktrees of concurrent tasks.                                      *)

Making == {"create", "neutralize", "neutralizing", "add"}
Restoring == {"restore", "restoring"}
Working == {"worker", "check"}
AtStep == Making \union Restoring \union {"snapshot"} \union Working \union Deriving
            \union {"remove", "done"}
Ending == {"failed", "rejected", "no-changes", "accepted"}
File == {Absent} \union SUBSET {"lfs", "-filter"}

TreesShapes ==
  /\ attrs \in File
  /\ at \in [TreeTask -> AtStep]
  /\ trees \in [TreeTask -> {Absent} \union 0 .. MaxWrites]
  /\ saved \in [TreeTask -> File] /\ buf \in [TreeTask -> File]
  /\ outcome \in [TreeTask -> {Absent} \union Ending]
  /\ wrote \in [TreeTask -> SUBSET TreeTask]
  /\ guard = [t \in TreeTask |-> guard[t]]

\* A tree is there from the add to the remove, which may leave it, and its
\* outcome from then on.
TreeFollowsStep ==
  \A t \in TreeTask :
    /\ at[t] \in Making => trees[t] = Absent /\ outcome[t] = Absent
    /\ at[t] \in Restoring => \/ outcome[t] = "failed" /\ trees[t] = Absent
                              \/ outcome[t] = Absent /\ trees[t] # Absent
    /\ at[t] \in {"snapshot"} \union Working \union Deriving =>
         trees[t] # Absent /\ outcome[t] = Absent
    /\ at[t] = "remove" => trees[t] # Absent /\ outcome[t] # Absent
    /\ at[t] = "done" => outcome[t] # Absent
    /\ buf[t] # Absent <=> at[t] \in Writing

\* A tree that is in a worker's manifest was made before, so it never comes
\* back once it is gone, and it counts on from there; each write the worker
\* makes in it moves it past what the manifest has.
ManifestAges ==
  \A t \in TreeTask : at[t] \in Working =>
    /\ DOMAIN guard[t] = TreeTask \ {t}
    /\ \A o \in TreeTask \ {t} : guard[t][o] # Absent =>
         /\ guard[t][o] \in Nat /\ at[o] \notin Making
         /\ trees[o] # Absent =>
              trees[o] >= guard[t][o] /\ (o \in wrote[t] => trees[o] > guard[t][o])

\* A worker writes only after its manifest is taken, and one that passed the
\* check wrote into no tree its manifest has.
WritesAreSeen ==
  \A t \in TreeTask :
    /\ at[t] \in Making \union Restoring \union {"snapshot"} => wrote[t] = {}
    /\ at[t] \in Deriving \/ outcome[t] = "accepted" =>
         \A o \in wrote[t] \ {t} : guard[t][o] = Absent

TreesInv == TreesShapes /\ TreeFollowsStep /\ ManifestAges /\ WritesAreSeen

LEMMA TreesInitially == TreesInit => TreesInv
<1> SUFFICES ASSUME TreesInit PROVE TreesInv
  OBVIOUS
<1>1. TreesShapes
  BY AbsentAssumption DEF TreesInit, TreesShapes, File, AtStep, Making
<1>2. TreeFollowsStep /\ ManifestAges /\ WritesAreSeen
  BY AbsentAssumption DEF TreesInit, TreeFollowsStep, ManifestAges, WritesAreSeen, Making,
     Restoring, Working, Deriving, Writing
<1> QED
  BY <1>1, <1>2 DEF TreesInv

\* neutralize_attribute_drivers, wherever it is called, is between two steps of
\* the same leg and touches only the shared file.
LEMMA NeutralizeKeeps ==
  ASSUME TreesInv, NEW t \in TreeTask, NEW step, NEW write, NEW next,
         Neutralize(t, step, write, next),
         \/ step = "neutralize" /\ write = "neutralizing" /\ next = "add"
         \/ step = "confine" /\ write = "confining" /\ next = "status"
         \/ step = "status" /\ write = "writing-status" /\ next = "diff"
         \/ step = "diff" /\ write = "writing-diff" /\ next = "judge"
  PROVE  TreesInv'
<1>1. /\ UNCHANGED <<user, trees, saved, guard, wrote, outcome>>
      /\ at[t] \in {step, write}
      /\ at' = [at EXCEPT ![t] = at'[t]]
      /\ \/ at'[t] = next /\ attrs' \in File /\ buf' = [buf EXCEPT ![t] = Absent]
         \/ at'[t] = write /\ attrs' = {} /\ \E lines \in SUBSET {"lfs", "-filter"} : buf' = [buf EXCEPT ![t] = lines]
  <2>1. CASE at[t] = step /\ "-filter" \in Lines(attrs) /\ Goes(t, next) /\ UNCHANGED <<attrs, buf>>
             /\ UNCHANGED <<user, trees, saved, guard, wrote, outcome>>
    <3>1. buf[t] = Absent
      BY <2>1 DEF TreesInv, TreeFollowsStep, Writing
    <3> QED
      BY <2>1, <3>1 DEF Goes, TreesInv, TreesShapes
  <2>2. CASE /\ at[t] = step /\ Goes(t, write) /\ attrs' = {}
             /\ buf' = [buf EXCEPT ![t] = Lines(attrs) \union {"-filter"}]
             /\ UNCHANGED <<user, trees, saved, guard, wrote, outcome>>
    <3>1. Lines(attrs) \union {"-filter"} \in SUBSET {"lfs", "-filter"}
      BY DEF Lines, TreesInv, TreesShapes, File
    <3> QED
      BY <2>2, <3>1 DEF Goes, TreesInv, TreesShapes
  <2>3. CASE /\ at[t] = write /\ Goes(t, next) /\ attrs' = buf[t] /\ buf' = [buf EXCEPT ![t] = Absent]
             /\ UNCHANGED <<user, trees, saved, guard, wrote, outcome>>
    BY <2>3 DEF Goes, TreesInv, TreesShapes
  <2> QED
    BY <2>1, <2>2, <2>3 DEF Neutralize
<1>2. /\ at'[t] \in AtStep
      /\ at[t] \in Making <=> at'[t] \in Making
      /\ at[t] \in Deriving <=> at'[t] \in Deriving
      /\ at[t] \notin Restoring \union Working \union {"snapshot", "remove", "done"}
      /\ at'[t] \notin Restoring \union Working \union {"snapshot", "remove", "done"}
      /\ at'[t] = write => at'[t] \in Writing
      /\ at'[t] = next => at'[t] \notin Writing
  BY <1>1 DEF AtStep, Making, Restoring, Working, Deriving, Writing
<1>3. \A o \in TreeTask : o # t => at'[o] = at[o] /\ buf'[o] = buf[o]
  BY <1>1 DEF TreesInv, TreesShapes
<1>4. TreesShapes'
  BY <1>1, <1>2 DEF TreesInv, TreesShapes, File
<1>5. buf'[t] # Absent <=> at'[t] \in Writing
  BY <1>1, <1>2, AbsentAssumption DEF TreesInv, TreesShapes
<1>6. TreeFollowsStep'
  BY <1>1, <1>2, <1>3, <1>5 DEF TreesInv, TreeFollowsStep
<1>7. ManifestAges'
  BY <1>1, <1>2, <1>3 DEF TreesInv, ManifestAges
<1>8. WritesAreSeen'
  BY <1>1, <1>2, <1>3 DEF TreesInv, WritesAreSeen
<1> QED
  BY <1>4, <1>6, <1>7, <1>8 DEF TreesInv

\* Steps that move one task on and leave trees, writes and manifests alone.
LEMMA MoveKeeps ==
  ASSUME TreesInv, NEW t \in TreeTask,
         UNCHANGED <<trees, buf, guard, wrote>>, attrs' \in File, saved' \in [TreeTask -> File],
         at' = [at EXCEPT ![t] = at'[t]], outcome' = [outcome EXCEPT ![t] = outcome'[t]],
         at'[t] \in AtStep, outcome'[t] \in {Absent} \union Ending,
         at[t] \notin Writing, at'[t] \notin Writing,
         at'[t] \in Making => trees[t] = Absent /\ outcome'[t] = Absent,
         at'[t] \in Restoring => \/ outcome'[t] = "failed" /\ trees[t] = Absent
                                 \/ outcome'[t] = Absent /\ trees[t] # Absent,
         at'[t] \in {"snapshot"} \union Working \union Deriving =>
           trees[t] # Absent /\ outcome'[t] = Absent,
         at'[t] = "remove" => trees[t] # Absent /\ outcome'[t] # Absent,
         at'[t] = "done" => outcome'[t] # Absent,
         at[t] \notin Making => at'[t] \notin Making,
         at'[t] \in Working => at[t] \in Working,
         at'[t] \in Making \union Restoring \union {"snapshot"} => wrote[t] = {},
         at'[t] \in Deriving \/ outcome'[t] = "accepted" =>
           \A o \in wrote[t] \ {t} : guard[t][o] = Absent
  PROVE  TreesInv'
<1>1. /\ \A o \in TreeTask : o # t => at'[o] = at[o] /\ outcome'[o] = outcome[o]
      /\ at' \in [TreeTask -> AtStep] /\ outcome' \in [TreeTask -> {Absent} \union Ending]
  BY DEF TreesInv, TreesShapes
<1>2. TreesShapes'
  BY <1>1 DEF TreesInv, TreesShapes
<1>3. TreeFollowsStep'
  BY <1>1 DEF TreesInv, TreeFollowsStep
<1>4. ManifestAges'
  BY <1>1 DEF TreesInv, ManifestAges
<1>5. WritesAreSeen'
  BY <1>1 DEF TreesInv, WritesAreSeen
<1> QED
  BY <1>2, <1>3, <1>4, <1>5 DEF TreesInv

LEMMA ReadOriginalKeeps ==
  ASSUME TreesInv, NEW t \in TreeTask, ReadOriginal(t)
  PROVE  TreesInv'
<1>1. /\ at[t] = "create" /\ at' = [at EXCEPT ![t] = "neutralize"] /\ saved' = [saved EXCEPT ![t] = attrs]
      /\ UNCHANGED <<attrs, user, trees, buf, guard, wrote, outcome>>
      /\ TreesShapes /\ at'[t] = "neutralize"
  BY DEF ReadOriginal, Goes, TreesInv, TreesShapes
<1>2. /\ trees[t] = Absent /\ outcome[t] = Absent /\ wrote[t] = {} /\ outcome' = [outcome EXCEPT ![t] = outcome'[t]]
      /\ attrs' \in File /\ saved' \in [TreeTask -> File]
  BY <1>1 DEF TreesInv, TreeFollowsStep, WritesAreSeen, TreesShapes, Making
<1>3. "neutralize" \in AtStep /\ "neutralize" \notin Writing /\ "create" \notin Writing
      /\ "neutralize" \notin Restoring \union {"snapshot"} \union Working \union Deriving
      /\ "create" \in Making
  BY DEF AtStep, Making, Restoring, Working, Deriving, Writing
<1> QED
  BY <1>1, <1>2, <1>3, MoveKeeps, AbsentAssumption

LEMMA RestoreKeeps ==
  ASSUME TreesInv, NEW t \in TreeTask, Restore(t)
  PROVE  TreesInv'
<1> DEFINE next == IF outcome[t] = "failed" THEN "done" ELSE "snapshot"
<1>1. /\ at[t] \in Restoring /\ at' = [at EXCEPT ![t] = at'[t]]
      /\ at'[t] = next \/ at'[t] = "restoring"
      /\ attrs' \in File
      /\ UNCHANGED <<user, trees, saved, buf, guard, wrote, outcome>>
  BY DEF Restore, Goes, TreesInv, TreesShapes, Restoring, File
<1>2. /\ wrote[t] = {} /\ outcome' = [outcome EXCEPT ![t] = outcome'[t]] /\ saved' \in [TreeTask -> File]
      /\ outcome[t] \in {Absent} \union Ending
      /\ \/ outcome[t] = "failed" /\ trees[t] = Absent
         \/ outcome[t] = Absent /\ trees[t] # Absent
  BY <1>1 DEF TreesInv, TreeFollowsStep, WritesAreSeen, TreesShapes
<1>3. \A step \in {"done", "snapshot", "restoring"} :
        step \in AtStep /\ step \notin Writing \union Making \union Working \union Deriving
  BY DEF AtStep, Making, Restoring, Working, Deriving, Writing
<1>4. "done" \notin Restoring /\ "snapshot" \notin Restoring /\ at[t] \notin Writing
  BY <1>1 DEF Restoring, Writing
<1>5. \/ at'[t] = "restoring"
      \/ at'[t] = "done" /\ outcome'[t] = "failed" /\ trees[t] = Absent
      \/ at'[t] = "snapshot" /\ outcome'[t] = Absent /\ trees[t] # Absent
  BY <1>1, <1>2, AbsentAssumption
<1>6. /\ outcome'[t] \in {Absent} \union Ending /\ at'[t] \in AtStep
      /\ at'[t] \in Restoring => \/ outcome'[t] = "failed" /\ trees[t] = Absent
                                 \/ outcome'[t] = Absent /\ trees[t] # Absent
      /\ at'[t] = "done" => trees[t] = Absent /\ outcome'[t] # Absent
      /\ at'[t] \notin Writing \union Making \union Working \union Deriving
      /\ outcome'[t] # "accepted" /\ at'[t] # "remove"
  BY <1>1, <1>2, <1>3, <1>5, AbsentAssumption
<1> HIDE DEF next
<1> QED
  BY <1>1, <1>2, <1>4, <1>5, <1>6, MoveKeeps

\* A worker whose manifest still holds wrote into no tree of it: every write
\* moved the tree on, and a tree that went does not come back.
LEMMA CheckKeeps ==
  ASSUME TreesInv, NEW t \in TreeTask, CheckGuard(t)
  PROVE  TreesInv'
<1>1. /\ at[t] = "check" /\ at' = [at EXCEPT ![t] = at'[t]] /\ outcome' = [outcome EXCEPT ![t] = outcome'[t]]
      /\ \/ guard[t] \in TreeManifests(t) /\ at'[t] = "confine" /\ outcome'[t] = outcome[t]
         \/ at'[t] = "remove" /\ outcome'[t] = "rejected"
      /\ UNCHANGED <<attrs, user, trees, saved, buf, guard, wrote>>
  BY DEF CheckGuard, Unchanged, Goes, Ends, TreesInv, TreesShapes
<1>2. /\ outcome[t] = Absent /\ trees[t] # Absent /\ attrs' \in File /\ saved' \in [TreeTask -> File]
      /\ wrote[t] \subseteq TreeTask /\ trees \in [TreeTask -> {Absent} \union 0 .. MaxWrites]
  BY <1>1 DEF TreesInv, TreeFollowsStep, TreesShapes, Working
<1>3. ASSUME guard[t] \in TreeManifests(t), NEW o \in wrote[t] \ {t}
      PROVE  guard[t][o] = Absent
  <2> SUFFICES ASSUME guard[t][o] # Absent PROVE FALSE
    OBVIOUS
  <2>1. o \in TreeTask \ {t} /\ guard[t][o] = trees[o]
    BY <1>2, <1>3 DEF TreeManifests
  <2>2. guard[t][o] \in Nat /\ trees[o] > guard[t][o]
    BY <1>1, <1>3, <2>1 DEF TreesInv, ManifestAges, Working
  <2> QED
    BY <2>1, <2>2
<1>4. /\ "confine" \in AtStep /\ "remove" \in AtStep /\ "check" \notin Writing /\ "rejected" \in Ending
      /\ "confine" \notin Writing \union Making \union Restoring \union Working \union {"snapshot"}
      /\ "remove" \notin Writing \union Making \union Restoring \union Working \union Deriving \union {"snapshot"}
  BY DEF AtStep, Making, Restoring, Working, Deriving, Writing, Ending
<1> QED
  BY <1>1, <1>2, <1>3, <1>4, MoveKeeps, AbsentAssumption

\* exec returns or fails, git fails, or the change is judged.
LEMMA LeaveKeeps ==
  ASSUME TreesInv, NEW t \in TreeTask, WorkerExits(t) \/ DeriveFails(t) \/ Judge(t)
  PROVE  TreesInv'
<1>1. /\ at[t] \in {"worker", "status", "diff", "judge"}
      /\ at' = [at EXCEPT ![t] = at'[t]] /\ outcome' = [outcome EXCEPT ![t] = outcome'[t]]
      /\ \/ at[t] = "worker" /\ at'[t] = "check" /\ outcome'[t] = outcome[t]
         \/ at'[t] = "remove" /\ outcome'[t] = "failed"
         \/ at[t] = "judge" /\ at'[t] = "remove" /\ outcome'[t] \in {"no-changes", "accepted"}
      /\ UNCHANGED <<attrs, user, trees, saved, buf, guard, wrote>>
  <2>1. CASE WorkerExits(t)
    BY <2>1 DEF WorkerExits, Goes, Ends, TreesInv, TreesShapes
  <2>2. CASE DeriveFails(t)
    BY <2>2 DEF DeriveFails, Goes, Ends, TreesInv, TreesShapes
  <2>3. CASE Judge(t)
    BY <2>3 DEF Judge, Goes, Ends, TreesInv, TreesShapes
  <2> QED
    BY <2>1, <2>2, <2>3
<1>2. /\ outcome[t] = Absent /\ trees[t] # Absent /\ attrs' \in File /\ saved' \in [TreeTask -> File]
      /\ at[t] \in {"status", "diff", "judge"} => \A o \in wrote[t] \ {t} : guard[t][o] = Absent
  BY <1>1 DEF TreesInv, TreeFollowsStep, TreesShapes, Working, Deriving, WritesAreSeen
<1>3. /\ "check" \in AtStep /\ "remove" \in AtStep /\ at[t] \notin Writing
      /\ at[t] = "worker" => at[t] \in Working
      /\ {"failed", "no-changes", "accepted"} \subseteq Ending
      /\ "check" \notin Writing \union Making \union Restoring \union Deriving \union {"snapshot"}
      /\ "remove" \notin Writing \union Making \union Restoring \union Working \union Deriving \union {"snapshot"}
  BY <1>1 DEF AtStep, Making, Restoring, Working, Deriving, Writing, Ending
<1> QED
  BY <1>1, <1>2, <1>3, MoveKeeps, AbsentAssumption

LEMMA AddKeeps ==
  ASSUME TreesInv, NEW t \in TreeTask, Add(t)
  PROVE  TreesInv'
<1>1. /\ at[t] = "add" /\ at' = [at EXCEPT ![t] = "restore"]
      /\ \/ trees' = [trees EXCEPT ![t] = 0] /\ outcome' = outcome
         \/ outcome' = [outcome EXCEPT ![t] = "failed"] /\ trees' = trees
      /\ UNCHANGED <<attrs, user, saved, buf, guard, wrote>>
  BY DEF Add, Goes, Ends
<1>2. /\ trees[t] = Absent /\ outcome[t] = Absent /\ wrote[t] = {} /\ buf[t] = Absent
      /\ TreesShapes
  BY <1>1 DEF TreesInv, TreeFollowsStep, WritesAreSeen, Making, Writing
<1>3. /\ at' \in [TreeTask -> AtStep] /\ at'[t] = "restore"
      /\ "restore" \in Restoring
      /\ "restore" \notin Making \union Working \union Deriving \union Writing \union {"snapshot"}
  BY <1>1, <1>2 DEF TreesShapes, AtStep, Making, Restoring, Working, Deriving, Writing
<1>4. /\ \A o \in TreeTask : o # t => at'[o] = at[o] /\ trees'[o] = trees[o] /\ outcome'[o] = outcome[o]
      /\ \/ outcome'[t] = "failed" /\ trees'[t] = Absent
         \/ outcome'[t] = Absent /\ trees'[t] = 0
      /\ trees' \in [TreeTask -> {Absent} \union 0 .. MaxWrites]
      /\ outcome' \in [TreeTask -> {Absent} \union Ending]
  BY <1>1, <1>2, AbsentAssumption DEF TreesShapes, Ending
<1>5. TreesShapes'
  BY <1>1, <1>2, <1>3, <1>4 DEF TreesShapes
<1>6. TreeFollowsStep'
  BY <1>1, <1>2, <1>3, <1>4, AbsentAssumption DEF TreesInv, TreeFollowsStep
<1>7. ManifestAges'
  <2>1. \A u \in TreeTask : at[u] \in Working /\ u # t => guard[u][t] = Absent
    BY <1>1 DEF TreesInv, ManifestAges, Making
  <2> QED
    BY <1>1, <1>3, <1>4, <2>1 DEF TreesInv, ManifestAges
<1>8. WritesAreSeen'
  BY <1>1, <1>2, <1>3, <1>4, AbsentAssumption DEF TreesInv, WritesAreSeen
<1> QED
  BY <1>5, <1>6, <1>7, <1>8 DEF TreesInv

LEMMA SnapshotKeeps ==
  ASSUME TreesInv, NEW t \in TreeTask, Snapshot(t)
  PROVE  TreesInv'
<1> PICK m \in TreeManifests(t) : guard' = [guard EXCEPT ![t] = m]
  BY DEF Snapshot
<1>1. /\ at[t] = "snapshot" /\ at' = [at EXCEPT ![t] = "worker"]
      /\ UNCHANGED <<attrs, user, trees, saved, buf, wrote, outcome>>
      /\ TreesShapes
  BY DEF Snapshot, Goes, TreesInv
<1>2. /\ trees[t] # Absent /\ outcome[t] = Absent /\ wrote[t] = {} /\ buf[t] = Absent
  BY <1>1 DEF TreesInv, TreeFollowsStep, WritesAreSeen, Writing
<1>3. /\ at' \in [TreeTask -> AtStep] /\ at'[t] = "worker"
      /\ "worker" \in Working
      /\ "worker" \notin Making \union Restoring \union Deriving \union Writing \union {"snapshot"}
  BY <1>1 DEF TreesShapes, AtStep, Making, Restoring, Working, Deriving, Writing
<1>4. /\ \A o \in TreeTask : o # t => at'[o] = at[o] /\ guard'[o] = guard[o]
      /\ guard'[t] = m /\ guard' = [u \in TreeTask |-> guard'[u]]
  BY <1>1 DEF TreesShapes
<1>5. TreesShapes'
  BY <1>1, <1>3, <1>4 DEF TreesShapes
<1>6. TreeFollowsStep'
  BY <1>1, <1>2, <1>3, <1>4 DEF TreesInv, TreeFollowsStep
<1>7. ManifestAges'
  <2>1. /\ DOMAIN m = TreeTask \ {t} /\ "snapshot" \notin Making
        /\ \A o \in TreeTask \ {t} : m[o] # Absent => m[o] = trees[o]
    BY DEF TreeManifests, Making
  <2>2. \A o \in TreeTask \ {t} : trees[o] # Absent => trees[o] \in Nat /\ at[o] \notin Making
    BY <1>1 DEF TreesInv, TreeFollowsStep, TreesShapes
  <2> QED
    BY <1>1, <1>2, <1>3, <1>4, <2>1, <2>2 DEF TreesInv, ManifestAges
<1>8. WritesAreSeen'
  BY <1>1, <1>2, <1>3, <1>4, AbsentAssumption DEF TreesInv, WritesAreSeen
<1> QED
  BY <1>5, <1>6, <1>7, <1>8 DEF TreesInv

LEMMA WriteKeeps ==
  ASSUME TreesInv, NEW t \in TreeTask, NEW o \in TreeTask, WorkerWrites(t, o)
  PROVE  TreesInv'
<1>1. /\ at[t] = "worker" /\ trees[o] # Absent /\ trees[o] < MaxWrites
      /\ trees' = [trees EXCEPT ![o] = @ + 1]
      /\ wrote' = [wrote EXCEPT ![t] = @ \union {o}]
      /\ UNCHANGED <<attrs, user, at, saved, buf, guard, outcome>>
      /\ TreesShapes
  BY DEF WorkerWrites, TreesInv
<1>2. /\ "worker" \in Working
      /\ "worker" \notin Making \union Restoring \union Deriving \union Writing \union {"snapshot"}
  BY DEF Making, Restoring, Working, Deriving, Writing
<1>3. /\ trees[o] \in Nat /\ trees'[o] = trees[o] + 1 /\ trees'[o] # Absent
      /\ \A p \in TreeTask : p # o => trees'[p] = trees[p]
      /\ trees' \in [TreeTask -> {Absent} \union 0 .. MaxWrites]
  BY <1>1, AbsentAssumption DEF TreesShapes
<1>4. /\ wrote'[t] = wrote[t] \union {o} /\ \A u \in TreeTask : u # t => wrote'[u] = wrote[u]
      /\ wrote' \in [TreeTask -> SUBSET TreeTask]
  BY <1>1 DEF TreesShapes
<1>5. TreesShapes'
  BY <1>1, <1>3, <1>4 DEF TreesShapes
<1>6. TreeFollowsStep'
  BY <1>1, <1>3 DEF TreesInv, TreeFollowsStep
<1>7. ManifestAges'
  <2> SUFFICES ASSUME NEW u \in TreeTask, at[u] \in Working, NEW p \in TreeTask \ {u}, guard[u][p] # Absent
               PROVE  /\ guard[u][p] \in Nat /\ at[p] \notin Making
                      /\ trees'[p] # Absent => /\ trees'[p] >= guard[u][p]
                                               /\ p \in wrote'[u] => trees'[p] > guard[u][p]
    BY <1>1 DEF TreesInv, ManifestAges
  <2>1. /\ guard[u][p] \in Nat /\ at[p] \notin Making
        /\ trees[p] # Absent => /\ trees[p] >= guard[u][p]
                                /\ p \in wrote[u] => trees[p] > guard[u][p]
    BY DEF TreesInv, ManifestAges
  <2>2. CASE p = o
    BY <1>1, <1>3, <2>1, <2>2
  <2>3. CASE p # o
    BY <1>1, <1>3, <1>4, <2>1, <2>3
  <2> QED
    BY <2>2, <2>3
<1>8. WritesAreSeen'
  <2>1. outcome[t] = Absent
    BY <1>1, <1>2 DEF TreesInv, TreeFollowsStep
  <2> QED
    BY <1>1, <1>2, <1>4, <2>1, AbsentAssumption DEF TreesInv, WritesAreSeen
<1> QED
  BY <1>5, <1>6, <1>7, <1>8 DEF TreesInv

LEMMA RemoveKeeps ==
  ASSUME TreesInv, NEW t \in TreeTask, RemoveTree(t)
  PROVE  TreesInv'
<1> PICK left \in {Absent} \union trees[t] .. MaxWrites : trees' = [trees EXCEPT ![t] = left]
  BY DEF RemoveTree
<1>1. /\ at[t] = "remove" /\ at' = [at EXCEPT ![t] = "done"]
      /\ UNCHANGED <<attrs, user, saved, buf, guard, wrote, outcome>> /\ TreesShapes
  BY DEF RemoveTree, Goes, TreesInv
<1>2. outcome[t] # Absent /\ buf[t] = Absent /\ trees[t] \in 0 .. MaxWrites
  BY <1>1 DEF TreesInv, TreeFollowsStep, TreesShapes, Writing
<1>3. /\ at' \in [TreeTask -> AtStep] /\ at'[t] = "done" /\ trees'[t] = left
      /\ left # Absent => left \in Nat /\ left >= trees[t]
      /\ trees' \in [TreeTask -> {Absent} \union 0 .. MaxWrites]
      /\ \A o \in TreeTask : o # t => at'[o] = at[o] /\ trees'[o] = trees[o]
      /\ "done" \notin Making \union Restoring \union Working \union Deriving \union Writing \union {"snapshot"}
  BY <1>1, <1>2, AbsentAssumption DEF TreesShapes, AtStep, Making, Restoring, Working, Deriving, Writing
<1>4. TreesShapes'
  BY <1>1, <1>3 DEF TreesShapes
<1>5. TreeFollowsStep'
  BY <1>1, <1>2, <1>3 DEF TreesInv, TreeFollowsStep
<1>6. ManifestAges'
  <2> SUFFICES ASSUME NEW u \in TreeTask, at'[u] \in Working, NEW p \in TreeTask \ {u}, guard[u][p] # Absent
               PROVE  /\ guard[u][p] \in Nat /\ at'[p] \notin Making
                      /\ trees'[p] # Absent => /\ trees'[p] >= guard[u][p]
                                               /\ p \in wrote[u] => trees'[p] > guard[u][p]
    BY <1>1, <1>3 DEF TreesInv, ManifestAges
  <2>1. /\ u # t /\ at[u] \in Working
        /\ guard[u][p] \in Nat /\ at[p] \notin Making
        /\ trees[p] # Absent => /\ trees[p] >= guard[u][p]
                                /\ p \in wrote[u] => trees[p] > guard[u][p]
    BY <1>3 DEF TreesInv, ManifestAges
  <2>2. CASE p = t
    BY <1>2, <1>3, <2>1, <2>2, AbsentAssumption
  <2>3. CASE p # t
    BY <1>3, <2>1, <2>3
  <2> QED
    BY <2>2, <2>3
<1>7. WritesAreSeen'
  BY <1>1, <1>3 DEF TreesInv, WritesAreSeen
<1> QED
  BY <1>4, <1>5, <1>6, <1>7 DEF TreesInv

LEMMA TreesStepKeeps == TreesInv /\ [TreesNext]_treesVars => TreesInv'
<1> SUFFICES ASSUME TreesInv, [TreesNext]_treesVars PROVE TreesInv'
  OBVIOUS
<1>1. CASE UNCHANGED treesVars
  BY <1>1 DEF treesVars, TreesInv, TreesShapes, TreeFollowsStep, ManifestAges, WritesAreSeen
<1>2. ASSUME NEW t \in TreeTask, NeutralizeRepo(t) \/ DeriveChange(t) PROVE TreesInv'
  BY <1>2, NeutralizeKeeps DEF NeutralizeRepo, DeriveChange
<1> QED
  BY <1>1, <1>2, ReadOriginalKeeps, AddKeeps, RestoreKeeps, SnapshotKeeps, WriteKeeps, LeaveKeeps,
     CheckKeeps, RemoveKeeps DEF TreesNext

\* However the steps of concurrent tasks fall between each other, a task's tree
\* is there while it works, and a worker that changed a sibling's tree which its
\* manifest recorded is refused, wherever the walks are cut short and whatever
\* removals leave behind (WorktreeManager, GuardManifest).
THEOREM TreesGuarded == TreesSpec => []TreesAreGuarded
<1>1. TreesInv => TreesAreGuarded
  <2> SUFFICES ASSUME TreesInv PROVE TreesAreGuarded
    OBVIOUS
  <2>1. Lines(attrs) \subseteq {"lfs", "-filter"}
    BY DEF TreesInv, TreesShapes, File, Lines
  <2>2. TreesTypeOK
    BY <2>1 DEF TreesInv, TreesShapes, TreeFollowsStep, TreesTypeOK, Ending, Working
  <2>3. EscapeIsRejected
    BY DEF TreesInv, WritesAreSeen, EscapeIsRejected
  <2> QED
    BY <2>2, <2>3 DEF TreesAreGuarded
<1> QED
  BY TreesInitially, TreesStepKeeps, <1>1, PTL DEF TreesSpec

-----------------------------------------------------------------------------
(* What an external worker's tree shows.                                   *)

LEMMA MinOfTwo ==
  ASSUME NEW x \in Int, NEW y \in Int
  PROVE  Min({x, y}) = IF x <= y THEN x ELSE y
<1>1. \E z \in {x, y} : \A w \in {x, y} : z <= w
  OBVIOUS
<1>2. Min({x, y}) \in {x, y} /\ Min({x, y}) <= x /\ Min({x, y}) <= y
  BY <1>1 DEF Min
<1> QED
  BY <1>2

LEMMA LeastOf ==
  ASSUME NEW S, S \subseteq Nat, S # {}
  PROVE  \E x \in S : \A y \in S : x <= y
<1> DEFINE R == {x \in Nat \X Nat : x[1] < x[2]}
<1>1. R = OpToRel(<, Nat)
  BY DEF OpToRel
<1>2. IsWellFoundedOn(R, Nat)
  BY <1>1, NatLessThanWellFounded
<1> HIDE DEF R
<1>3. PICK x \in S : \A y \in S : <<y, x>> \notin R
  BY <1>2, WFMin
<1>4. ASSUME NEW y \in S PROVE x <= y
  <2>1. x \in Nat /\ y \in Nat
    OBVIOUS
  <2>2. y < x => <<y, x>> \in R
    BY <2>1 DEF R
  <2> QED
    BY <1>3, <2>1, <2>2
<1> QED
  BY <1>4

\* The files next to the tree that are there.
There(stamps) == {p \in Nearby : stamps[p] # 0}

\* A file is there only below directories that are.
Rooted(stamps) ==
  \A p \in Nearby : Len(p) > 1 /\ stamps[p] # 0 => stamps[Front(p)] # 0

LEMMA ParentIsShorter ==
  ASSUME NEW p \in Nearby, Len(p) > 1
  PROVE  /\ Front(p) \in Nearby /\ Front(p) \in NearbyDirs /\ Len(p) \in Nat
         /\ Len(Front(p)) = Len(p) - 1 /\ Front(p) # p /\ IsStrictPrefix(Front(p), p)
<1>1. p \in Seq(STRING) /\ Front(p) \in Seq(STRING) /\ Front(p) \in Nearby /\ Front(p) \in NearbyDirs
  BY WorkerAssumption
<1>2. /\ Len(p) \in Nat /\ Front(p) = SubSeq(p, 1, Len(p) - 1)
  BY <1>1 DEF Front
<1>3. /\ Len(Front(p)) = Len(p) - 1
      /\ \A i \in 1 .. Len(p) - 1 : Front(p)[i] = p[i]
  BY <1>1, <1>2
<1>4. SubSeq(Front(p), 1, Len(Front(p))) = SubSeq(p, 1, Len(Front(p)))
  BY <1>1, <1>2, <1>3
<1> QED
  BY <1>1, <1>2, <1>3, <1>4 DEF IsStrictPrefix, IsPrefix

\* A walk that no directory stopped at the depth bound saw every file that is
\* there: the shallowest one beyond the bound would lie in such a directory.
LEMMA NothingBelowTheBound ==
  ASSUME nearby \in [Nearby -> Nat], Rooted(nearby),
         ~ \E p \in Visible \intersect NearbyDirs : Len(p) = MaxGuardDepth + 1
  PROVE  Visible = There(nearby)
<1> DEFINE Deep == {k \in Nat : \E p \in There(nearby) : Len(p) = k /\ k > MaxGuardDepth + 1}
<1>0. MaxGuardDepth \in Nat /\ \A p \in Nearby : Len(p) \in Nat
  <2>1. \A p \in Nearby : p \in Seq(STRING)
    BY WorkerAssumption
  <2> QED
    BY <2>1, WorkerAssumption
<1>1. Deep = {}
  <2> SUFFICES ASSUME Deep # {} PROVE FALSE
    OBVIOUS
  <2>1. PICK k \in Deep : \A j \in Deep : k <= j
    BY LeastOf
  <2>2. PICK p \in There(nearby) : Len(p) = k /\ k > MaxGuardDepth + 1
    OBVIOUS
  <2>3. p \in Nearby /\ nearby[p] # 0 /\ Len(p) > 1
    BY <1>0, <2>2 DEF There
  <2>4. /\ Front(p) \in Nearby /\ Front(p) \in NearbyDirs /\ Len(Front(p)) = Len(p) - 1
        /\ nearby[Front(p)] # 0
    BY <2>3, ParentIsShorter DEF Rooted
  <2>5. CASE Len(p) - 1 > MaxGuardDepth + 1
    <3>1. k - 1 \in Deep
      BY <1>0, <2>2, <2>3, <2>4, <2>5 DEF There
    <3> QED
      BY <2>1, <3>1
  <2>6. CASE ~(Len(p) - 1 > MaxGuardDepth + 1)
    <3>1. Len(Front(p)) = MaxGuardDepth + 1
      BY <1>0, <2>2, <2>3, <2>4, <2>6
    <3> QED
      BY <1>0, <2>4, <3>1 DEF Visible
  <2> QED
    BY <2>5, <2>6
<1> QED
  BY <1>0, <1>1 DEF Visible, There

\* A manifest that was not cut short has every file that is there.
Shows(m, stamps) == ~m.truncated => m.entries = [p \in There(stamps) |-> stamps[p]]

LEMMA WholeWalkShowsAll ==
  ASSUME nearby \in [Nearby -> Nat], Rooted(nearby), NEW m \in Manifests
  PROVE  Shows(m, nearby)
<1> SUFFICES ASSUME ~m.truncated PROVE m.entries = [p \in There(nearby) |-> nearby[p]]
  BY DEF Shows
<1>1. PICK seen \in {s \in SUBSET Visible : WalkPrefix(s)}, cut \in WalkTruncated :
        m = [entries |-> [p \in seen |-> nearby[p]], truncated |-> cut]
  BY DEF Manifests
<1>2. ~cut /\ m.entries = [p \in seen |-> nearby[p]]
  BY <1>1
<1>3. IsFiniteSet(Visible) /\ Cardinality(Visible) \in Nat /\ MaxGuardEntries \in Nat
  <2>1. Visible \subseteq Nearby
    BY DEF Visible
  <2> QED
    BY <2>1, WorkerAssumption, FS_Subset, FS_CardinalityType
<1>4. /\ ~(Cardinality(Visible) > MaxGuardEntries)
      /\ ~ \E p \in Visible \intersect NearbyDirs : Len(p) = MaxGuardDepth + 1
  BY <1>1, <1>2 DEF WalkTruncated
<1>5. Cardinality(seen) = Cardinality(Visible)
  <2>1. Cardinality(seen) = Min({MaxGuardEntries, Cardinality(Visible)})
    BY <1>1 DEF WalkPrefix
  <2>2. Min({MaxGuardEntries, Cardinality(Visible)}) = Cardinality(Visible)
    BY <1>3, <1>4, MinOfTwo
  <2> QED
    BY <2>1, <2>2
<1>6. seen = Visible
  BY <1>1, <1>3, <1>5, FS_Subset
<1> QED
  BY <1>2, <1>4, <1>6, NothingBelowTheBound

\* When the guard holds between two such manifests, nothing next to the tree
\* came, went or changed.
LEMMA GuardSeesEverything ==
  ASSUME NEW before, NEW after, NEW from \in [Nearby -> Nat], NEW to \in [Nearby -> Nat],
         before = [p \in There(from) |-> from[p]], after = [p \in There(to) |-> to[p]],
         GuardHolds(before, after)
  PROVE  from = to
<1>1. There(from) = There(to) /\ \A p \in There(from) : from[p] = to[p]
  BY DEF GuardHolds
<1>2. \A p \in Nearby : from[p] = to[p]
  BY <1>1 DEF There
<1> QED
  BY <1>2

WorkerShapes ==
  /\ nearby \in [Nearby -> Nat] /\ atStart \in [Nearby -> Nat] /\ Rooted(nearby)
  /\ edits \in Nat /\ survivor \in BOOLEAN /\ DOMAIN tree = ToSet(Names)
  /\ wstep \in {"guard", "exec", "check", "confine", "status", "diff", "made", "refused"}

\* What each step of the supervisor has found out; of a worker that left
\* nothing running it is still so at the next one.
Looked ==
  /\ wstep # "guard" => Shows(manifest[1], atStart)
  /\ ~survivor =>
       /\ wstep \in {"confine", "status", "diff", "made"} =>
            Shows(rewalk[1], nearby) /\ GuardHolds(manifest[1].entries, rewalk[1].entries)
       /\ wstep \in {"status", "diff", "made"} =>
            listed \in StatusAll /\ \A n \in listed : ~Escapes(n)
       /\ wstep \in {"diff", "made"} => status \in StatusAll
       /\ wstep = "made" =>
            /\ listed # {}
            /\ product = <<[address |-> <<status, WorktreeDiff>>, risks |-> Risks(listed)]>>

WorkerInv == WorkerShapes /\ Looked

LEMMA WorkerInitially == WorkerInit => WorkerInv
<1> SUFFICES ASSUME WorkerInit PROVE WorkerInv
  OBVIOUS
<1>1. WorkerShapes
  <2>1. nearby \in [Nearby -> Nat] /\ atStart \in [Nearby -> Nat] /\ edits \in Nat
    BY DEF WorkerInit
  <2>2. Rooted(nearby) /\ survivor \in BOOLEAN /\ DOMAIN tree = ToSet(Names) /\ wstep = "guard"
    BY DEF WorkerInit, Rooted
  <2> QED
    BY <2>1, <2>2 DEF WorkerShapes
<1>2. Looked
  BY DEF WorkerInit, Looked
<1> QED
  BY <1>1, <1>2 DEF WorkerInv

\* The worker's own steps: before exec returns, or after it by what it left.
LEMMA EditKeeps ==
  ASSUME WorkerInv, MayEdit,
         UNCHANGED <<survivor, wstep, manifest, atStart>>,
         nearby' \in [Nearby -> Nat], Rooted(nearby'), edits' \in Nat, DOMAIN tree' = DOMAIN tree
  PROVE  WorkerInv'
<1>1. WorkerShapes'
  BY DEF WorkerInv, WorkerShapes, Rooted
<1>2. wstep = "exec" \/ survivor
  BY DEF MayEdit
<1>3. Shows(manifest[1], atStart)' = Shows(manifest[1], atStart)
  BY DEF Shows, There
<1>4. Looked'
  BY <1>2, <1>3 DEF WorkerInv, Looked
<1> QED
  BY <1>1, <1>4 DEF WorkerInv

LEMMA EditNearbyKeeps ==
  ASSUME WorkerInv, NEW p \in Nearby, NEW gone \in BOOLEAN, EditNearby(p, gone)
  PROVE  WorkerInv'
<1>1. /\ nearby \in [Nearby -> Nat] /\ edits \in Nat /\ Rooted(nearby)
  BY DEF WorkerInv, WorkerShapes
<1>2. /\ MayEdit /\ UNCHANGED <<tree, survivor, wstep, manifest, atStart>> /\ edits' = edits + 1
      /\ Len(p) > 1 => nearby[Front(p)] # 0
      /\ gone => \A q \in Nearby : IsStrictPrefix(p, q) => nearby[q] = 0
  BY DEF EditNearby
<1>3. /\ nearby' \in [Nearby -> Nat]
      /\ nearby'[p] = (IF gone THEN 0 ELSE edits + 2)
      /\ \A q \in Nearby : q # p => nearby'[q] \in {nearby[q], edits + 2}
  <2>1. Len(p) > 1 => Front(p) # p
    BY ParentIsShorter
  <2>2. nearby' = [q \in Nearby |->
          IF q = p THEN (IF gone THEN 0 ELSE edits + 2)
          ELSE IF Len(p) > 1 /\ q = Front(p) /\ (gone \/ nearby[p] = 0) THEN edits + 2 ELSE nearby[q]]
    BY <2>1 DEF EditNearby
  <2> QED
    BY <1>1, <2>2
<1>4. ASSUME NEW q \in Nearby, Len(q) > 1, nearby'[q] # 0
      PROVE  nearby'[Front(q)] # 0
  <2>1. Front(q) \in Nearby /\ Front(q) # q /\ IsStrictPrefix(Front(q), q)
    BY <1>4, ParentIsShorter
  <2>2. CASE q = p
    BY <1>1, <1>2, <1>3, <1>4, <2>1, <2>2
  <2>3. CASE q # p
    <3>1. CASE nearby[q] # 0
      <4>1. nearby[Front(q)] # 0
        BY <1>1, <1>4, <3>1 DEF Rooted
      <4>2. Front(q) = p => ~gone
        BY <1>2, <2>1, <3>1
      <4> QED
        BY <1>1, <1>3, <2>1, <4>1, <4>2
    <3>2. CASE nearby[q] = 0
      <4>1. Len(p) > 1 /\ q = Front(p)
        BY <1>1, <1>4, <2>3, <3>2 DEF EditNearby
      <4> QED
        BY <1>2, <3>2, <4>1
    <3> QED
      BY <3>1, <3>2
  <2> QED
    BY <2>2, <2>3
<1>5. Rooted(nearby')
  BY <1>4 DEF Rooted
<1> QED
  BY <1>1, <1>2, <1>3, <1>5, EditKeeps

LEMMA WorkerStepKeeps == WorkerInv /\ [WorkerNext]_workerVars => WorkerInv'
<1> SUFFICES ASSUME WorkerInv, [WorkerNext]_workerVars PROVE WorkerInv'
  OBVIOUS
<1>0. WorkerShapes /\ Looked
  BY DEF WorkerInv
<1>1. CASE GuardTree
  <2>1. PICK m \in Manifests : manifest' = <<m>>
    BY <1>1 DEF GuardTree
  <2>2. Shows(m, nearby) /\ manifest'[1] = m /\ atStart' = nearby /\ wstep' = "exec"
    BY <1>0, <1>1, <2>1, WholeWalkShowsAll DEF GuardTree, WorkerShapes
  <2>3. Shows(manifest[1], atStart)'
    BY <2>2 DEF Shows, There
  <2>4. WorkerShapes'
    BY <1>0, <1>1 DEF GuardTree, WorkerShapes, Rooted
  <2> QED
    BY <2>2, <2>3, <2>4 DEF WorkerInv, Looked
<1>2. CASE ExecReturns
  <2>1. Shows(manifest[1], atStart)' /\ wstep' \in {"check", "refused"}
    BY <1>0, <1>2 DEF ExecReturns, Looked, Shows, There
  <2>2. WorkerShapes'
    BY <1>0, <1>2 DEF ExecReturns, WorkerShapes, Rooted
  <2> QED
    BY <2>1, <2>2 DEF WorkerInv, Looked
<1>3. CASE CheckNearby
  <2>1. PICK m \in Manifests :
          /\ rewalk' = <<m>>
          /\ wstep' = IF GuardHolds(manifest[1].entries, m.entries) THEN "confine" ELSE "refused"
    BY <1>3 DEF CheckNearby
  <2>2. Shows(m, nearby) /\ rewalk'[1] = m /\ wstep = "check"
        /\ UNCHANGED <<nearby, tree, edits, survivor, manifest, atStart>>
    BY <1>0, <1>3, <2>1, WholeWalkShowsAll DEF CheckNearby, WorkerShapes
  <2>3. Shows(manifest[1], atStart)' /\ Shows(rewalk[1], nearby)'
    BY <1>0, <2>2 DEF Shows, There, Looked
  <2>4. wstep' = "confine" => GuardHolds(manifest[1].entries, rewalk[1].entries)'
    BY <2>1, <2>2 DEF GuardHolds
  <2>5. WorkerShapes' /\ wstep' \in {"confine", "refused"}
    BY <1>0, <2>1, <2>2 DEF WorkerShapes, Rooted
  <2> QED
    BY <2>3, <2>4, <2>5 DEF WorkerInv, Looked
<1>4. CASE ListChanges \/ ExtractStatus \/ ExtractDiff \/ GitFails \/ UNCHANGED workerVars
  <2>1. /\ UNCHANGED <<nearby, tree, edits, survivor, manifest, rewalk, atStart>>
        /\ wstep' \in {"refused", "status", "diff", "made"} \/ wstep' = wstep
    BY <1>4 DEF ListChanges, ExtractStatus, ExtractDiff, GitFails, workerVars
  <2>2. /\ StatusAll' = StatusAll /\ WorktreeDiff' = WorktreeDiff
        /\ \A n : Escapes(n)' = Escapes(n)
        /\ Shows(manifest[1], atStart)' = Shows(manifest[1], atStart)
        /\ Shows(rewalk[1], nearby)' = Shows(rewalk[1], nearby)
        /\ GuardHolds(manifest[1].entries, rewalk[1].entries)' =
             GuardHolds(manifest[1].entries, rewalk[1].entries)
    BY <2>1 DEF StatusAll, WorktreeDiff, FirstChanged, Changed, Escapes, Shows, There, GuardHolds
  <2>3. WorkerShapes'
    BY <1>0, <2>1 DEF WorkerShapes, Rooted
  <2>4. CASE ListChanges
    BY <1>0, <2>1, <2>2, <2>3, <2>4 DEF ListChanges, WorkerInv, Looked
  <2>5. CASE ExtractStatus
    BY <1>0, <2>1, <2>2, <2>3, <2>5 DEF ExtractStatus, WorkerInv, Looked
  <2>6. CASE ExtractDiff
    BY <1>0, <2>1, <2>2, <2>3, <2>6 DEF ExtractDiff, WorkerInv, Looked
  <2>7. CASE GitFails
    BY <1>0, <2>1, <2>2, <2>3, <2>7 DEF GitFails, WorkerInv, Looked
  <2>8. CASE UNCHANGED workerVars
    BY <1>0, <2>1, <2>2, <2>3, <2>8 DEF workerVars, WorkerInv, Looked
  <2> QED
    BY <1>4, <2>4, <2>5, <2>6, <2>7, <2>8
<1>5. ASSUME NEW n \in ToSet(Names), NEW version \in Versions, EditTree(n, version) PROVE WorkerInv'
  <2>1. /\ MayEdit /\ UNCHANGED <<nearby, survivor, wstep, manifest, atStart>>
        /\ edits' = edits + 1 /\ DOMAIN tree' = DOMAIN tree
    BY <1>5 DEF EditTree
  <2> QED
    BY <1>0, <2>1, EditKeeps DEF WorkerShapes
<1> QED
  BY <1>1, <1>2, <1>3, <1>4, <1>5, EditNearbyKeeps DEF WorkerNext

\* A status that fits the bound has exactly the names that changed; any has
\* none when nothing did.
LEMMA StatusIsWhole ==
  /\ Changed = {} => \A all \in StatusAll : all = {}
  /\ Cardinality(Changed) <= MaxGitOutput => \A all \in StatusAll : all = NamesAt(Changed)
<1>1. IsFiniteSet(Changed)
  <2>1. Names \in Seq([place : STRING, base : STRING, ignored : BOOLEAN, head : Nat])
    BY WorkerAssumption
  <2>2. DOMAIN Names = 1 .. Len(Names) /\ Len(Names) \in Nat
    BY <2>1
  <2>3. IsFiniteSet(1 .. Len(Names)) /\ Changed \subseteq 1 .. Len(Names)
    BY <2>2, FS_Interval DEF Changed
  <2> QED
    BY <2>3, FS_Subset
<1>2. ASSUME Changed = {} PROVE \A all \in StatusAll : all = {}
  BY <1>2 DEF StatusAll, FirstChanged, NamesAt
<1>3. ASSUME Cardinality(Changed) <= MaxGitOutput
      PROVE  \A all \in StatusAll : all = NamesAt(Changed)
  <2>1. Cardinality(Changed) \in Nat /\ MaxGitOutput \in Nat
    BY <1>1, WorkerAssumption, FS_CardinalityType
  <2>2. ASSUME NEW i \in Changed PROVE Cardinality({j \in Changed : j <= i}) <= MaxGitOutput
    <3>1. {j \in Changed : j <= i} \in SUBSET Changed
      OBVIOUS
    <3>2. /\ IsFiniteSet({j \in Changed : j <= i})
          /\ Cardinality({j \in Changed : j <= i}) <= Cardinality(Changed)
      BY <1>1, <3>1, FS_Subset
    <3>3. Cardinality({j \in Changed : j <= i}) \in Nat
      BY <3>2, FS_CardinalityType
    <3> QED
      BY <1>3, <2>1, <3>2, <3>3
  <2>3. FirstChanged(MaxGitOutput) = Changed
    BY <2>2 DEF FirstChanged
  <2> QED
    BY <2>3 DEF StatusAll
<1> QED
  BY <1>2, <1>3

\* Of a worker that left nothing running, a product is of what its tree shows:
\* nothing next to it moved, and each file the patch is addressed by was
\* looked at and, where it is sensitive, named (run_external_worker_with).
LEMMA ShownIsTaken == WorkerInv => WorkIsWhatTheTreeShows
<1> SUFFICES ASSUME WorkerInv, wstep = "made", ~survivor
             PROVE  /\ \E n \in ToSet(Names) : tree[n] # n.head
                    /\ ~manifest[1].truncated /\ ~rewalk[1].truncated => nearby = atStart
                    /\ Cardinality(Changed) <= MaxGitOutput =>
                         \A n \in product[1].address[1] \union {h.name : h \in product[1].address[2]} :
                           /\ tree[n] # LeadsOut
                           /\ n.place = "workflows" \/ n.base \in {"manifest", "credential"}
                                => \E r \in product[1].risks : r[2] = n
  BY DEF WorkIsWhatTheTreeShows
<1>1. /\ Shows(manifest[1], atStart) /\ Shows(rewalk[1], nearby)
      /\ GuardHolds(manifest[1].entries, rewalk[1].entries)
      /\ listed \in StatusAll /\ status \in StatusAll /\ listed # {}
      /\ \A n \in listed : ~Escapes(n)
      /\ product = <<[address |-> <<status, WorktreeDiff>>, risks |-> Risks(listed)]>>
      /\ WorkerShapes
  BY DEF WorkerInv, Looked
<1>2. \E n \in ToSet(Names) : tree[n] # n.head
  <2>1. PICK i \in Changed : TRUE
    BY <1>1, StatusIsWhole
  <2> QED
    BY <2>1 DEF Changed, ToSet
<1>3. ASSUME ~manifest[1].truncated, ~rewalk[1].truncated PROVE nearby = atStart
  <2>1. /\ manifest[1].entries = [p \in There(atStart) |-> atStart[p]]
        /\ rewalk[1].entries = [p \in There(nearby) |-> nearby[p]]
    BY <1>1, <1>3 DEF Shows
  <2> QED
    BY <1>1, <2>1, GuardSeesEverything DEF WorkerShapes
<1>4. /\ product[1].address[1] = status /\ product[1].address[2] = WorktreeDiff
      /\ product[1].risks = Risks(listed)
  BY <1>1
<1>5. ASSUME Cardinality(Changed) <= MaxGitOutput,
             NEW n \in status \union {h.name : h \in WorktreeDiff}
      PROVE  /\ tree[n] # LeadsOut
             /\ n.place = "workflows" \/ n.base \in {"manifest", "credential"}
                  => \E r \in Risks(listed) : r[2] = n
  <2>1. status = NamesAt(Changed) /\ listed = NamesAt(Changed)
    BY <1>1, <1>5, StatusIsWhole
  <2>2. n \in listed
    <3>1. ASSUME NEW h \in WorktreeDiff PROVE h.name \in NamesAt(Changed)
      <4>1. PICK i \in FirstChanged(MaxDiff) : h = [name |-> Names[i], version |-> tree[Names[i]]]
        BY DEF WorktreeDiff
      <4>2. i \in Changed /\ h.name = Names[i]
        BY <4>1 DEF FirstChanged
      <4> QED
        BY <4>2 DEF NamesAt
    <3> QED
      BY <1>5, <2>1, <3>1
  <2>3. n \in DOMAIN tree
    <3>1. PICK i \in Changed : n = Names[i]
      BY <2>1, <2>2 DEF NamesAt
    <3> QED
      BY <1>1, <3>1 DEF Changed, ToSet, WorkerShapes
  <2>4. tree[n] # LeadsOut
    BY <1>1, <2>2, <2>3 DEF Escapes
  <2>5. ASSUME n.place = "workflows" \/ n.base \in {"manifest", "credential"}
        PROVE  \E r \in Risks(listed) : r[2] = n
    <3>1. ClassifyPath(n) # "normal"
      BY <2>5 DEF ClassifyPath
    <3>2. <<ClassifyPath(n), n>> \in Risks(listed)
      BY <2>2, <3>1 DEF Risks
    <3> QED
      BY <3>2
  <2> QED
    BY <2>4, <2>5
<1> QED
  BY <1>2, <1>3, <1>4, <1>5

\* Whatever concurrent workers do, no change is taken whose tree does not show
\* it: a change of a sibling's tree that the walk recorded is a refusal, and what
\* is in the patch, and next to the tree unless a walk was cut short, was looked
\* at (WorktreeManager, GuardManifest, run_external_worker_with).
THEOREM WorkersGuarded == TreesSpec /\ WorkerSpec => []WorkersAreGuarded
<1>1. WorkerInv => WorkIsWhatTheTreeShows
  BY ShownIsTaken
<1>2. TreesAreGuarded /\ WorkIsWhatTheTreeShows => WorkersAreGuarded
  BY DEF WorkersAreGuarded
<1> QED
  BY TreesGuarded, WorkerInitially, WorkerStepKeeps, <1>1, <1>2, PTL DEF WorkerSpec

-----------------------------------------------------------------------------
(***************************************************************************)
(* Path confinement. The least of a set of numbers, and with it induction. *)
(***************************************************************************)
Precedes == {ss \in Nat \X Nat : ss[1] < ss[2]}

\* Every set of numbers has a least one.
LEMMA LeastNumber ==
  ASSUME NEW T \in SUBSET Nat, T # {}
  PROVE  \E x \in T : \A y \in T : x <= y
<1>1. IsWellFoundedOn(Precedes, Nat)
  BY NatLessThanWellFounded DEF OpToRel, Precedes
<1>2. T \subseteq Nat
  OBVIOUS
<1>3. PICK x \in T : \A y \in T : <<y, x>> \notin Precedes
  BY <1>1, <1>2, WFMin
<1>4. ASSUME NEW y \in T PROVE x <= y
  <2>1. y \in Nat /\ x \in Nat
    BY <1>2
  <2>2. y < x => <<y, x>> \in Precedes
    BY <2>1 DEF Precedes
  <2> QED BY <1>3, <2>1, <2>2
<1> QED BY <1>3, <1>4

(***************************************************************************)
(* Induction over the numbers, with the set of the good ones as a value,   *)
(* and its use: a function given by its first value and a step exists.     *)
(***************************************************************************)
LEMMA NatSet ==
  ASSUME NEW T, 0 \in T, \A n \in Nat : n \in T => n + 1 \in T
  PROVE  \A n \in Nat : n \in T
<1> DEFINE B == {n \in Nat : n \notin T}
<1> SUFFICES ASSUME B # {} PROVE FALSE
  OBVIOUS
<1>1. PICK n \in B : \A m \in B : n <= m
  BY LeastNumber
<1>2. n \in Nat /\ n # 0 /\ n \notin T
  OBVIOUS
<1>3. n - 1 \in Nat /\ n - 1 \notin B
  <2> HIDE DEF B
  <2> QED BY <1>1, <1>2
<1>4. n - 1 \in T
  BY <1>3
<1>5. (n - 1) + 1 = n
  BY <1>2
<1> QED BY <1>2, <1>3, <1>4, <1>5

\* The same up to a bound.
LEMMA UpTo ==
  ASSUME NEW N \in Nat, NEW T, 0 \in T, \A n \in 1 .. N : n - 1 \in T => n \in T
  PROVE  \A n \in 0 .. N : n \in T
<1> DEFINE U == {n \in Nat : n <= N => n \in T}
<1>1. 0 \in U
  OBVIOUS
<1>2. ASSUME NEW n \in Nat, n \in U PROVE n + 1 \in U
  <2> SUFFICES ASSUME n + 1 <= N PROVE n + 1 \in T
    OBVIOUS
  <2>1. n + 1 \in 1 .. N /\ (n + 1) - 1 = n /\ n \in T
    BY <1>2
  <2> QED BY <2>1
<1>3. \A n \in Nat : n \in U
  <2> HIDE DEF U
  <2> QED BY <1>1, <1>2, NatSet
<1> QED BY <1>3

IsStep(g, N, S) == g \in [1 .. N -> [S -> S]]
Iterates(f, N, S, a, g) ==
  /\ f \in [0 .. N -> S] /\ f[0] = a
  /\ \A n \in 1 .. N : f[n] = g[n][f[n - 1]]

\* A function on 0 .. N is given by its first value and its steps.
LEMMA Recursion ==
  ASSUME NEW N \in Nat, NEW S, NEW a \in S, NEW g, IsStep(g, N, S)
  PROVE  \E f : Iterates(f, N, S, a, g)
<1> USE DEF IsStep
<1> DEFINE Good(k, f) == f[0] = a /\ \A n \in 1 .. k : f[n] = g[n][f[n - 1]]
           T == {k \in Nat : k <= N => \E f \in [0 .. k -> S] : Good(k, f)}
<1>1. 0 \in T
  <2>1. [i \in 0 .. 0 |-> a] \in [0 .. 0 -> S] /\ Good(0, [i \in 0 .. 0 |-> a])
    OBVIOUS
  <2> QED BY <2>1
<1>2. ASSUME NEW k \in Nat, k \in T PROVE k + 1 \in T
  <2> SUFFICES ASSUME k + 1 <= N PROVE \E f \in [0 .. k + 1 -> S] : Good(k + 1, f)
    OBVIOUS
  <2>1. PICK f \in [0 .. k -> S] : Good(k, f)
    BY <1>2
  <2> DEFINE h == [i \in 0 .. k + 1 |-> IF i = k + 1 THEN g[k + 1][f[k]] ELSE f[i]]
  <2>2. f[k] \in S /\ k + 1 \in 1 .. N
    OBVIOUS
  <2>3. g[k + 1][f[k]] \in S
    BY <2>2
  <2>4. h \in [0 .. k + 1 -> S]
    BY <2>3
  <2>5. h[0] = a
    BY <2>1
  <2>6. ASSUME NEW n \in 1 .. k + 1 PROVE h[n] = g[n][h[n - 1]]
    <3>1. CASE n = k + 1
      <4>1. h[n] = g[k + 1][f[k]] /\ h[n - 1] = f[k]
        BY <3>1
      <4> QED BY <3>1, <4>1
    <3>2. CASE n # k + 1
      <4>1. n \in 1 .. k /\ n - 1 \in 0 .. k
        BY <3>2
      <4>2. h[n] = f[n] /\ h[n - 1] = f[n - 1]
        BY <4>1
      <4> QED BY <4>1, <4>2, <2>1
    <3> QED BY <3>1, <3>2
  <2> QED BY <2>4, <2>5, <2>6
<1>3. N \in T
  <2> HIDE DEF T
  <2> QED BY <1>1, <1>2, NatSet
<1>4. PICK f \in [0 .. N -> S] : Good(N, f)
  BY <1>3
<1> QED BY <1>4 DEF Iterates

(***************************************************************************)
(* The file system's answers.                                              *)
(***************************************************************************)
PathNode == [is : {"none", "file", "dir", "link"}, to : Seq(FileNames)]
Answer == [at : Seq(FileNames), how : {"found", "missing", "error"}]
Files == [Locations -> PathNode]

\* Whatever a location, there is a node or nothing at it.
LEMMA NodeType ==
  ASSUME NEW Fs \in Files
  PROVE  \A l : Node(Fs, l) \in PathNode
BY DEF Files, Node, Plain, PathNode

\* The empty path is a path.
LEMMA EmptyPath == <<>> \in Seq(FileNames)
OBVIOUS

\* Following a link ends at a location.
LEMMA FollowType ==
  ASSUME NEW Fs \in Files, NEW l \in Seq(FileNames)
  PROVE  Follow(Fs, l) \in Seq(FileNames)
<1> DEFINE S == Seq(FileNames)
           Succ(l0) == IF IsLink(Node(Fs, l0)) THEN Node(Fs, l0).to ELSE l0
           g == [n \in 1 .. MaxHops |-> [x \in S |-> Succ(x)]]
           Eq(h) == h = [n \in 0 .. MaxHops |-> IF n = 0 THEN l ELSE Succ(h[n - 1])]
           hop == CHOOSE h : Eq(h)
<1>1. \A l0 \in S : Succ(l0) \in S
  BY NodeType DEF PathNode
<1>2. MaxHops \in Nat /\ l \in S
  BY PathsAssumption
<1> HIDE DEF S, Succ
<1>3. IsStep(g, MaxHops, S)
  BY <1>1 DEF IsStep
<1> HIDE DEF g
<1>4. PICK h : Iterates(h, MaxHops, S, l, g)
  <2> HIDE DEF hop, Eq
  <2>1. MaxHops \in Nat
    BY <1>2
  <2>2. l \in S
    BY <1>2
  <2> QED BY <2>1, <2>2, <1>3, Recursion
<1>5. \A n \in 1 .. MaxHops : g[n][h[n - 1]] = Succ(h[n - 1])
  BY <1>2, <1>4 DEF g, Iterates
<1>6. Eq(h)
  <2>1. \A n \in 0 .. MaxHops : h[n] = IF n = 0 THEN l ELSE Succ(h[n - 1])
    BY <1>2, <1>4, <1>5 DEF Iterates
  <2> QED BY <1>4, <2>1 DEF Iterates
<1>7. Eq(hop)
  <2> HIDE DEF Eq
  <2> QED BY <1>6
<1>8. hop \in [0 .. MaxHops -> S]
  <2> HIDE DEF hop
  <2> DEFINE T == {n \in 0 .. MaxHops : hop[n] \in S}
  <2>1. 0 \in T
    BY <1>2, <1>7
  <2>2. ASSUME NEW n \in 1 .. MaxHops, n - 1 \in T PROVE n \in T
    BY <1>1, <1>2, <1>7, <2>2
  <2>3. \A n \in 0 .. MaxHops : n \in T
    <3> HIDE DEF T
    <3> QED BY <1>2, <2>1, <2>2, UpTo
  <2> QED BY <1>7, <2>3
<1>9. Follow(Fs, l) = IF IsLink(Node(Fs, l)) THEN hop[MaxHops] ELSE l
  BY DEF Follow, Succ
<1> QED
  <2> HIDE DEF hop
  <2> QED BY <1>2, <1>8, <1>9 DEF S

\* Descending by a name finds a location or fails.
LEMMA DescendType ==
  ASSUME NEW Fs \in Files, NEW cur \in Seq(FileNames), NEW name \in FileNames
  PROVE  Descend(Fs, cur, name) \in Answer
<1> DEFINE end == Follow(Fs, Append(cur, name))
<1>1. Append(cur, name) \in Seq(FileNames)
  BY AppendProperties
<1>2. end \in Seq(FileNames)
  BY <1>1, FollowType
<1> HIDE DEF end
<1>3. NotFound(end, "error") \in Answer /\ NotFound(end, "missing") \in Answer /\ Found(end) \in Answer
  BY <1>2 DEF NotFound, Found, Answer
<1> QED BY <1>3 DEF Descend, end

(* A name that is no link leads to itself. *)
LEMMA DescendPlain ==
  ASSUME NEW Fs, NEW cur, NEW name, ~IsLink(Node(Fs, Append(cur, name))), ~Is(Fs, cur, "file")
  PROVE  Descend(Fs, cur, name) = IF Is(Fs, Append(cur, name), "none") THEN NotFound(Append(cur, name), "missing")
                            ELSE Found(Append(cur, name))
<1>1. Follow(Fs, Append(cur, name)) = Append(cur, name)
  BY DEF Follow
<1> QED BY <1>1 DEF Descend

\* Trail is the recursive function its definition reads as.
LEMMA TrailIs ==
  ASSUME NEW Fs \in Files, NEW path \in Seq(FileNames)
  PROVE  /\ Trail(Fs, path) \in [0 .. Len(path) -> Answer]
         /\ Trail(Fs, path)[0] = Found(<<>>)
         /\ \A n \in 1 .. Len(path) :
               Trail(Fs, path)[n] = IF Trail(Fs, path)[n - 1].how = "found"
                                THEN Descend(Fs, Trail(Fs, path)[n - 1].at, path[n]) ELSE Trail(Fs, path)[n - 1]
<1> DEFINE N == Len(path)
           Succ(n, w) == IF w.how = "found" THEN Descend(Fs, w.at, path[n]) ELSE w
           g == [n \in 1 .. N |-> [w \in Answer |-> Succ(n, w)]]
           Eq(h) == h = [n \in 0 .. N |-> IF n = 0 THEN Found(<<>>) ELSE Succ(n, h[n - 1])]
           walk == CHOOSE h : Eq(h)
<1>1. \A n \in 1 .. N, w \in Answer : Succ(n, w) \in Answer
  <2> TAKE n \in 1 .. N, w \in Answer
  <2>1. path[n] \in FileNames /\ w.at \in Seq(FileNames)
    BY DEF Answer
  <2>2. Descend(Fs, w.at, path[n]) \in Answer
    BY <2>1, DescendType
  <2> QED BY <2>2
<1>2. N \in Nat /\ Found(<<>>) \in Answer
  BY EmptyPath DEF Found, Answer
<1>3. Trail(Fs, path) = walk
  BY DEF Trail
<1> HIDE DEF N, Succ
<1>4. IsStep(g, N, Answer)
  BY <1>1 DEF IsStep
<1> HIDE DEF g
<1>5. PICK h : Iterates(h, N, Answer, Found(<<>>), g)
  <2> HIDE DEF walk, Eq
  <2> QED BY <1>2, <1>4, Recursion
<1>6. Eq(h)
  <2>1. \A n \in 1 .. N : n - 1 \in 0 .. N /\ n # 0
    BY <1>2
  <2>2. \A n \in 1 .. N : h[n] = Succ(n, h[n - 1])
    BY <1>5, <2>1 DEF g, Iterates
  <2>3. \A n \in 0 .. N : n # 0 => n \in 1 .. N
    BY <1>2
  <2>4. \A n \in 0 .. N : h[n] = IF n = 0 THEN Found(<<>>) ELSE Succ(n, h[n - 1])
    BY <1>5, <2>2, <2>3 DEF Iterates
  <2> QED BY <1>5, <2>4 DEF Iterates
<1>7. Eq(walk)
  <2> HIDE DEF Eq
  <2> QED BY <1>6
<1> HIDE DEF walk
<1>8. walk[0] = Found(<<>>) /\ \A n \in 1 .. N : walk[n] = Succ(n, walk[n - 1])
  <2>1. 0 \in 0 .. N /\ \A n \in 1 .. N : n \in 0 .. N /\ n # 0
    BY <1>2
  <2>2. \A n \in 0 .. N : walk[n] = IF n = 0 THEN Found(<<>>) ELSE Succ(n, walk[n - 1])
    BY <1>7
  <2> HIDE DEF Eq
  <2> QED BY <2>1, <2>2
<1>9. \A n \in 0 .. N : walk[n] \in Answer
  <2> DEFINE T == {n \in 0 .. N : walk[n] \in Answer}
  <2>1. 0 \in T
    BY <1>2, <1>8
  <2>2. ASSUME NEW n \in 1 .. N, n - 1 \in T PROVE n \in T
    BY <1>1, <1>2, <1>8, <2>2
  <2>3. \A n \in 0 .. N : n \in T
    <3> HIDE DEF T
    <3> QED BY <1>2, <2>1, <2>2, UpTo
  <2> QED BY <2>3
<1>10. walk \in [0 .. N -> Answer]
  BY <1>7, <1>9
<1> QED BY <1>3, <1>8, <1>10 DEF N, Succ

(* What a beginning of the path names is where the walk had come by then. *)
LEMMA WalkOfPrefix ==
  ASSUME NEW Fs \in Files, NEW path \in Seq(FileNames), NEW n \in 0 .. Len(path)
  PROVE  Walk(Fs, SubSeq(path, 1, n)) = Trail(Fs, path)[n]
<1> DEFINE q == SubSeq(path, 1, n)
           T == {k \in 0 .. n : Trail(Fs, q)[k] = Trail(Fs, path)[k]}
<1>1. q \in Seq(FileNames) /\ Len(q) = n /\ n \in Nat /\ \A k \in 1 .. n : q[k] = path[k]
  OBVIOUS
<1> HIDE DEF q
<1>2. 0 \in T
  BY <1>1, TrailIs
<1>3. ASSUME NEW k \in 1 .. n, k - 1 \in T PROVE k \in T
  <2>1. k \in 1 .. Len(q) /\ k \in 1 .. Len(path) /\ q[k] = path[k] /\ Trail(Fs, q)[k - 1] = Trail(Fs, path)[k - 1]
    BY <1>1, <1>3
  <2>2. Trail(Fs, q)[k] = IF Trail(Fs, q)[k - 1].how = "found" THEN Descend(Fs, Trail(Fs, q)[k - 1].at, q[k]) ELSE Trail(Fs, q)[k - 1]
    BY <1>1, <2>1, TrailIs
  <2>3. Trail(Fs, path)[k] = IF Trail(Fs, path)[k - 1].how = "found"
                         THEN Descend(Fs, Trail(Fs, path)[k - 1].at, path[k]) ELSE Trail(Fs, path)[k - 1]
    BY <2>1, TrailIs
  <2>4. Trail(Fs, q)[k] = Trail(Fs, path)[k]
    BY <2>1, <2>2, <2>3
  <2> QED BY <2>4
<1>4. \A k \in 0 .. n : k \in T
  <2> HIDE DEF T
  <2> QED BY <1>1, <1>2, <1>3, UpTo
<1>5. Trail(Fs, q)[n] = Trail(Fs, path)[n]
  BY <1>1, <1>4
<1> QED BY <1>1, <1>5 DEF Walk, q

(***************************************************************************)
(* The deepest existing beginning of a path.                               *)
(***************************************************************************)
LEMMA DepthIs ==
  ASSUME NEW Fs, NEW path \in Seq(FileNames), NEW k \in 1 .. Len(path), Exists(Fs, path, k)
  PROVE  /\ Depth(Fs, path) \in 1 .. Len(path) /\ Exists(Fs, path, Depth(Fs, path)) /\ k <= Depth(Fs, path)
         /\ \A m \in (Depth(Fs, path) + 1) .. Len(path) : ~Exists(Fs, path, m)
         /\ DeepestExisting(Fs, path) = Walk(Fs, SubSeq(path, 1, Depth(Fs, path)))
<1> DEFINE L == Len(path)
           T == {j \in 0 .. L : L - j \in 1 .. L /\ Exists(Fs, path, L - j)}
           P(n) == Exists(Fs, path, n) /\ \A m \in (n + 1) .. L : ~Exists(Fs, path, m)
<1>1. L \in Nat /\ L - k \in T /\ T \in SUBSET Nat
  <2>1. L \in Nat /\ L - k \in 0 .. L /\ L - (L - k) = k
    OBVIOUS
  <2> QED BY <2>1
<1>2. PICK j \in T : \A i \in T : j <= i
  BY <1>1, LeastNumber
<1>3. L - j \in 1 .. L /\ Exists(Fs, path, L - j)
  OBVIOUS
<1>4. ASSUME NEW m \in (L - j + 1) .. L PROVE ~Exists(Fs, path, m)
  <2>1. L - m \in 0 .. L /\ L - (L - m) = m /\ m \in 1 .. L /\ ~(j <= L - m)
    BY <1>1, <1>3
  <2>2. L - m \notin T
    <3> HIDE DEF T
    <3> QED BY <1>2, <2>1
  <2> QED BY <2>1, <2>2
<1>5. P(L - j)
  BY <1>3, <1>4
<1>6. Depth(Fs, path) = CHOOSE n \in 1 .. L : P(n)
  BY DEF Depth
<1>7. Depth(Fs, path) \in 1 .. L /\ P(Depth(Fs, path))
  <2> HIDE DEF P
  <2> QED BY <1>3, <1>5, <1>6
<1>8. k <= Depth(Fs, path)
  <2>1. k \notin (Depth(Fs, path) + 1) .. L
    BY <1>7
  <2> QED BY <1>1, <1>7, <2>1
<1> QED BY <1>7, <1>8 DEF DeepestExisting

(* A path that names something is its own deepest beginning. *)
LEMMA FoundIsDeepest ==
  ASSUME NEW Fs, NEW path \in Seq(FileNames), path # <<>>, Walk(Fs, path).how # "missing"
  PROVE  Depth(Fs, path) = Len(path) /\ DeepestExisting(Fs, path) = Walk(Fs, path)
<1>1. Len(path) \in Nat /\ Len(path) # 0 /\ SubSeq(path, 1, Len(path)) = path
  OBVIOUS
<1>2. Len(path) \in 1 .. Len(path) /\ Exists(Fs, path, Len(path))
  <2>1. Len(path) \in 1 .. Len(path)
    BY <1>1
  <2>2. Walk(Fs, SubSeq(path, 1, Len(path))) = Walk(Fs, path)
    BY <1>1
  <2> QED BY <2>1, <2>2 DEF Exists
<1>3. Depth(Fs, path) \in 1 .. Len(path) /\ Len(path) <= Depth(Fs, path)
      /\ DeepestExisting(Fs, path) = Walk(Fs, SubSeq(path, 1, Depth(Fs, path)))
  BY <1>2, DepthIs
<1>4. Depth(Fs, path) = Len(path)
  BY <1>1, <1>3
<1> QED BY <1>1, <1>3, <1>4

(* A path with a found answer has a beginning that exists. *)
LEMMA FoundHasDepth ==
  ASSUME NEW Fs, NEW path \in Seq(FileNames), DeepestExisting(Fs, path).how = "found"
  PROVE  /\ Depth(Fs, path) \in 1 .. Len(path) /\ Exists(Fs, path, Depth(Fs, path))
         /\ \A m \in (Depth(Fs, path) + 1) .. Len(path) : ~Exists(Fs, path, m)
         /\ DeepestExisting(Fs, path) = Walk(Fs, SubSeq(path, 1, Depth(Fs, path)))
<1>1. PICK k \in 1 .. Len(path) : Exists(Fs, path, k)
  BY DEF DeepestExisting, NotFound
<1> QED BY <1>1, DepthIs

(* When the last name of a path adds nothing, its parent's answer is its own. *)
LEMMA MissingKeepsDeepest ==
  ASSUME NEW Fs, NEW path \in Seq(FileNames), Len(path) > 1, Walk(Fs, path).how = "missing",
         DeepestExisting(Fs, Front(path)).how = "found"
  PROVE  DeepestExisting(Fs, path) = DeepestExisting(Fs, Front(path))
<1> DEFINE q == Front(path)
<1>1. q \in Seq(FileNames) /\ Len(q) = Len(path) - 1 /\ Len(path) \in Nat
      /\ \A n \in 1 .. Len(q) : SubSeq(q, 1, n) = SubSeq(path, 1, n)
  BY DEF Front
<1>2. SubSeq(path, 1, Len(path)) = path
  OBVIOUS
<1> HIDE DEF q
<1>3. \A n \in 1 .. Len(q) : Exists(Fs, q, n) = Exists(Fs, path, n)
  BY <1>1 DEF Exists
<1>4. ~Exists(Fs, path, Len(path))
  BY <1>2 DEF Exists
<1>5. /\ Depth(Fs, q) \in 1 .. Len(q) /\ Exists(Fs, q, Depth(Fs, q))
      /\ \A m \in (Depth(Fs, q) + 1) .. Len(q) : ~Exists(Fs, q, m)
      /\ DeepestExisting(Fs, q) = Walk(Fs, SubSeq(q, 1, Depth(Fs, q)))
  BY <1>1, FoundHasDepth DEF q
<1>6. Depth(Fs, q) \in 1 .. Len(path) /\ Exists(Fs, path, Depth(Fs, q))
  BY <1>1, <1>3, <1>5
<1>7. /\ Depth(Fs, path) \in 1 .. Len(path) /\ Exists(Fs, path, Depth(Fs, path)) /\ Depth(Fs, q) <= Depth(Fs, path)
      /\ DeepestExisting(Fs, path) = Walk(Fs, SubSeq(path, 1, Depth(Fs, path)))
  BY <1>6, DepthIs
<1>8. Depth(Fs, path) = Depth(Fs, q)
  <2>1. Depth(Fs, path) # Len(path)
    BY <1>4, <1>7
  <2>2. Depth(Fs, path) \in 1 .. Len(q)
    BY <1>1, <1>7, <2>1
  <2>3. Exists(Fs, q, Depth(Fs, path))
    BY <1>3, <1>7, <2>2
  <2>4. Depth(Fs, path) \notin (Depth(Fs, q) + 1) .. Len(q)
    BY <1>5, <2>3
  <2> QED BY <1>1, <1>5, <1>7, <2>2, <2>4
<1>9. SubSeq(q, 1, Depth(Fs, q)) = SubSeq(path, 1, Depth(Fs, path))
  BY <1>1, <1>5, <1>8
<1> QED BY <1>5, <1>7, <1>9 DEF q

(***************************************************************************)
(* Normalising a path.                                                     *)
(***************************************************************************)
PlainName(name) == name \notin {".", "..", "/", "nul"}

\* A rejected path is a path.
LEMMA RejectedPath == Rejected \in Seq(FileNames)
<1>1. ".." \in FileNames
  BY PathsAssumption
<1> QED BY <1>1 DEF Rejected

\* Normalising a path drops names and adds none.
LEMMA NormalForm ==
  ASSUME NEW rel \in Seq(FileNames)
  PROVE  /\ NormalizeRelative(rel) \in Seq(FileNames)
         /\ (\A i \in 1 .. Len(rel) : PlainName(rel[i])) => NormalizeRelative(rel) = rel
<1> DEFINE N == Len(rel)
           S == Seq(FileNames)
           Succ(i, p) == IF p = Rejected THEN Rejected
                         ELSE CASE rel[i] = "." -> p
                                [] rel[i] \in {"/", "nul"} -> Rejected
                                [] rel[i] = ".." -> IF p = <<>> THEN Rejected ELSE Front(p)
                                [] OTHER -> Append(p, rel[i])
           g == [i \in 1 .. N |-> [p \in S |-> Succ(i, p)]]
           Eq(h) == h = [i \in 0 .. N |-> IF i = 0 THEN <<>> ELSE Succ(i, h[i - 1])]
           pop == CHOOSE h : Eq(h)
<1>1. \A i \in 1 .. N, p \in S : Succ(i, p) \in S
  <2> TAKE i \in 1 .. N, p \in S
  <2>1. rel[i] \in FileNames /\ Rejected \in S
    BY RejectedPath
  <2>2. Append(p, rel[i]) \in S
    BY <2>1, AppendProperties
  <2>3. p # <<>> => Front(p) \in S
    BY DEF Front
  <2> QED BY <2>1, <2>2, <2>3
<1>2. N \in Nat /\ <<>> \in S
  BY EmptyPath
<1>3. NormalizeRelative(rel) = pop[N]
  BY DEF NormalizeRelative
<1>4. ASSUME NEW i \in 1 .. N, NEW p \in S, p # Rejected, PlainName(rel[i]) PROVE Succ(i, p) = Append(p, rel[i])
  BY <1>4 DEF PlainName
<1> HIDE DEF Succ
<1>5. IsStep(g, N, S)
  BY <1>1 DEF IsStep
<1> HIDE DEF g, N, S
<1>6. PICK h : Iterates(h, N, S, <<>>, g)
  <2> HIDE DEF pop, Eq
  <2> QED BY <1>2, <1>5, Recursion
<1>7. Eq(h)
  <2>1. \A n \in 1 .. N : n - 1 \in 0 .. N /\ n # 0
    BY <1>2
  <2>2. \A n \in 1 .. N : h[n] = Succ(n, h[n - 1])
    BY <1>6, <2>1 DEF g, Iterates
  <2>3. \A n \in 0 .. N : n # 0 => n \in 1 .. N
    BY <1>2
  <2>4. \A n \in 0 .. N : h[n] = IF n = 0 THEN <<>> ELSE Succ(n, h[n - 1])
    BY <1>6, <2>2, <2>3 DEF Iterates
  <2> QED BY <1>6, <2>4 DEF Iterates
<1>8. Eq(pop)
  <2> HIDE DEF Eq
  <2> QED BY <1>7
<1> HIDE DEF pop
<1>9. pop[0] = <<>> /\ \A i \in 1 .. N : pop[i] = Succ(i, pop[i - 1])
  BY <1>2, <1>8
<1>10. \A i \in 0 .. N : pop[i] \in S
  <2> DEFINE T == {i \in 0 .. N : pop[i] \in S}
  <2>1. 0 \in T
    BY <1>2, <1>9
  <2>2. ASSUME NEW i \in 1 .. N, i - 1 \in T PROVE i \in T
    BY <1>1, <1>2, <1>9, <2>2
  <2>3. \A i \in 0 .. N : i \in T
    <3> HIDE DEF T
    <3> QED BY <1>2, <2>1, <2>2, UpTo
  <2> QED BY <2>3
<1>11. ASSUME \A i \in 1 .. N : PlainName(rel[i]) PROVE pop[N] = rel
  <2> DEFINE T == {i \in 0 .. N : pop[i] = SubSeq(rel, 1, i)}
  <2>0. SubSeq(rel, 1, 0) = <<>>
    OBVIOUS
  <2>1. 0 \in T
    <3>1. 0 \in 0 .. N /\ pop[0] = SubSeq(rel, 1, 0)
      BY <1>2, <1>9, <2>0
    <3> QED BY <3>1
  <2>2. ASSUME NEW i \in 1 .. N, i - 1 \in T PROVE i \in T
    <3>1. i - 1 \in 0 .. N /\ pop[i - 1] = SubSeq(rel, 1, i - 1) /\ pop[i - 1] \in S
      BY <2>2, <1>10
    <3>2. pop[i - 1] # Rejected
      <4>1. CASE i = 1
        BY <3>1, <4>1 DEF Rejected
      <4>2. CASE i # 1
        <5>1. 1 \in 1 .. N /\ pop[i - 1][1] = rel[1]
          BY <1>2, <3>1, <4>2 DEF N
        <5>2. rel[1] # ".."
          BY <5>1, <1>11 DEF PlainName
        <5> QED BY <5>1, <5>2 DEF Rejected
      <4> QED BY <4>1, <4>2
    <3>3. pop[i] = Append(pop[i - 1], rel[i])
      BY <1>4, <1>9, <1>11, <3>1, <3>2
    <3>4. SubSeq(rel, 1, i) = Append(SubSeq(rel, 1, i - 1), rel[i])
      BY <1>2 DEF N
    <3>5. i \in 0 .. N /\ pop[i] = SubSeq(rel, 1, i)
      BY <3>1, <3>3, <3>4
    <3> QED BY <3>5
  <2>3. \A i \in 0 .. N : i \in T
    <3> HIDE DEF T
    <3> QED BY <1>2, <2>1, <2>2, UpTo
  <2>4. SubSeq(rel, 1, N) = rel
    BY DEF N
  <2> QED BY <1>2, <2>3, <2>4
<1> QED BY <1>2, <1>3, <1>10, <1>11 DEF N, S

(***************************************************************************)
(* The invariant: below a node that is no directory there is nothing, and  *)
(* a token that is still fresh holds what its confinement established.     *)
(***************************************************************************)
PathToken == [mode : {"read", "write"}, root : {Root, Neighbour}, relative : Seq(FileNames), fresh : BOOLEAN]
PathsTypeOK ==
  /\ fs \in Files /\ changes \in Nat
  /\ token \in Seq(PathToken) /\ Len(token) <= 1
Tree(Fs) == \A l \in Locations, n \in Nat :
          Fs[l].is # "none" /\ 1 <= n /\ n < Len(l) => Is(Fs, SubSeq(l, 1, n), "dir")
WriteConfined(Fs, relative) ==
  LET target == Root \o relative
      parent == Walk(Fs, Front(target))
  IN  /\ relative # <<>> /\ UnderRoot(Fs, Root, Front(target))
      /\ parent.how = "found" => ~IsLink(Node(Fs, Append(parent.at, Last(target))))
TokenHolds ==
  token # <<>> /\ token[1].fresh /\ token[1].root = Root =>
    IF token[1].mode = "read" THEN UnderRoot(fs, Root, Root \o token[1].relative)
    ELSE WriteConfined(fs, token[1].relative)
PathsInv == PathsTypeOK /\ Tree(fs) /\ TokenHolds /\ ToolsStayInside

\* Append, element by element.
LEMMA AppendIs ==
  ASSUME NEW S, NEW s \in Seq(S), NEW e \in S
  PROVE  /\ Append(s, e) \in Seq(S) /\ Len(Append(s, e)) = Len(s) + 1
         /\ \A i \in 1 .. Len(s) : Append(s, e)[i] = s[i]
         /\ Append(s, e)[Len(s) + 1] = e
BY AppendProperties

\* The root and its .git directory, name by name.
LEMMA RootIs ==
  /\ Root \in Seq(FileNames) /\ Len(Root) = 1 /\ Root[1] = "w"
  /\ GitDir \in Seq(FileNames) /\ Len(GitDir) = 2 /\ GitDir[1] = "w" /\ GitDir[2] = ".git"
<1>1. "w" \in FileNames /\ ".git" \in FileNames
  BY PathsAssumption
<1>2. Root \in Seq(FileNames) /\ Len(Root) = 1 /\ Root[1] = "w"
  BY <1>1 DEF Root
<1>3. /\ Append(Root, ".git") \in Seq(FileNames) /\ Len(Append(Root, ".git")) = 2
      /\ Append(Root, ".git")[1] = "w" /\ Append(Root, ".git")[2] = ".git"
  <2>1. /\ Append(Root, ".git") \in Seq(FileNames) /\ Len(Append(Root, ".git")) = Len(Root) + 1
        /\ \A i \in 1 .. Len(Root) : Append(Root, ".git")[i] = Root[i]
        /\ Append(Root, ".git")[Len(Root) + 1] = ".git"
    <3>1. Root \in Seq(FileNames) /\ ".git" \in FileNames
      BY <1>1, <1>2
    <3> QED BY Zenon, <3>1, AppendIs
  <2>2. Len(Root) + 1 = 2 /\ 1 \in 1 .. Len(Root)
    BY <1>2
  <2> QED BY <1>2, <2>1, <2>2
<1> QED BY <1>2, <1>3 DEF GitDir

\* What lies under the root, and under its .git directory.
LEMMA PrefixesAre ==
  ASSUME NEW l \in Seq(FileNames)
  PROVE  /\ IsPrefix(Root, l) <=> Len(l) >= 1 /\ l[1] = "w"
         /\ IsPrefix(GitDir, l) <=> Len(l) >= 2 /\ l[1] = "w" /\ l[2] = ".git"
<1>1. Len(l) \in Nat /\ 1 .. 1 = {1} /\ 1 .. 2 = {1, 2}
  OBVIOUS
<1>2. SubSeq(Root, 1, 1) = Root /\ SubSeq(GitDir, 1, 2) = GitDir
  BY RootIs
<1>3. IsPrefix(Root, l) <=> Len(l) >= 1 /\ SubSeq(l, 1, 1) = Root
  BY <1>1, <1>2, RootIs DEF IsPrefix
<1>4. Len(l) >= 1 => (SubSeq(l, 1, 1) = Root <=> l[1] = "w")
  <2> SUFFICES ASSUME Len(l) >= 1 PROVE SubSeq(l, 1, 1) = Root <=> l[1] = "w"
    OBVIOUS
  <2> DEFINE r == SubSeq(l, 1, 1)
  <2>1. r \in Seq(FileNames) /\ Len(r) = 1 /\ r[1] = l[1]
    BY <1>1
  <2> HIDE DEF r
  <2>2. r = Root <=> r[1] = Root[1]
    BY <1>1, <2>1, RootIs, SeqEqual
  <2> QED BY <2>1, <2>2, RootIs DEF r
<1>5. IsPrefix(GitDir, l) <=> Len(l) >= 2 /\ SubSeq(l, 1, 2) = GitDir
  BY <1>1, <1>2, RootIs DEF IsPrefix
<1>6. Len(l) >= 2 => (SubSeq(l, 1, 2) = GitDir <=> l[1] = "w" /\ l[2] = ".git")
  <2> SUFFICES ASSUME Len(l) >= 2 PROVE SubSeq(l, 1, 2) = GitDir <=> l[1] = "w" /\ l[2] = ".git"
    OBVIOUS
  <2> DEFINE r == SubSeq(l, 1, 2)
  <2>1. r \in Seq(FileNames) /\ Len(r) = 2 /\ r[1] = l[1] /\ r[2] = l[2]
    BY <1>1
  <2> HIDE DEF r
  <2>2. r = GitDir <=> r[1] = GitDir[1] /\ r[2] = GitDir[2]
    BY <1>1, <2>1, RootIs, SeqEqual
  <2> QED BY <2>1, <2>2, RootIs DEF r
<1> QED BY <1>3, <1>4, <1>5, <1>6

\* A relative path below the root, name by name.
LEMMA RootThen ==
  ASSUME NEW r \in Seq(FileNames)
  PROVE  /\ Root \o r \in Seq(FileNames) /\ Len(Root \o r) = Len(r) + 1 /\ Len(r) \in Nat
         /\ (Root \o r)[1] = "w" /\ \A n \in 1 .. Len(r) : (Root \o r)[n + 1] = r[n]
<1> DEFINE t == Root \o r
<1>1. Len(r) \in Nat
  OBVIOUS
<1>2. Root \in Seq(FileNames) /\ Len(Root) = 1
  BY RootIs
<1>3. /\ t \in Seq(FileNames) /\ Len(t) = Len(Root) + Len(r)
      /\ \A i \in 1 .. Len(Root) + Len(r) : t[i] = IF i <= Len(Root) THEN Root[i] ELSE r[i - Len(Root)]
  BY <1>2, ConcatProperties
<1> HIDE DEF t
<1>4. /\ Len(t) = 1 + Len(r)
      /\ \A i \in 1 .. 1 + Len(r) : t[i] = IF i <= 1 THEN Root[i] ELSE r[i - 1]
  BY <1>2, <1>3
<1>5. t[1] = "w"
  BY <1>1, <1>4, RootIs
<1>6. ASSUME NEW n \in 1 .. Len(r) PROVE t[n + 1] = r[n]
  <2>1. n + 1 \in 1 .. 1 + Len(r) /\ ~(n + 1 <= 1) /\ (n + 1) - 1 = n
    BY <1>1
  <2> QED BY <1>4, <2>1
<1> QED BY <1>1, <1>3, <1>4, <1>5, <1>6 DEF t

\* Every location has its ancestors among the locations.
LEMMA LocationsAre ==
  ASSUME NEW l \in Locations
  PROVE  /\ l \in Seq(FileNames) /\ l # <<>> /\ Len(l) >= 1
         /\ \A n \in 1 .. Len(l) : SubSeq(l, 1, n) \in Locations /\ PlainName(l[n])
<1>1. l \in Seq(FileNames \ {".", "..", "/", "nul"}) /\ l # <<>>
      /\ \A n \in 1 .. Len(l) : SubSeq(l, 1, n) \in Locations
  BY PathsAssumption
<1>2. l \in Seq(FileNames) /\ \A n \in 1 .. Len(l) : l[n] \in FileNames \ {".", "..", "/", "nul"}
  BY <1>1
<1>3. Len(l) \in Nat /\ Len(l) # 0
  BY <1>1
<1> QED BY <1>1, <1>2, <1>3 DEF PlainName

(* Nothing lies below what is not there. *)
LEMMA NothingBelow ==
  ASSUME NEW Fs, Tree(Fs), NEW l \in Seq(FileNames), NEW m \in Seq(FileNames), l # <<>>, Len(l) <= Len(m),
         SubSeq(m, 1, Len(l)) = l, Is(Fs, l, "none")
  PROVE  Is(Fs, m, "none")
<1>1. Len(l) \in Nat /\ Len(m) \in Nat /\ Len(l) >= 1 /\ SubSeq(m, 1, Len(m)) = m
      /\ (Len(l) = Len(m) \/ Len(l) < Len(m))
  OBVIOUS
<1>2. CASE Len(l) = Len(m)
  <2>1. l = m
    BY <1>1, <1>2
  <2> QED BY <2>1
<1>3. CASE Len(l) < Len(m)
  <2> SUFFICES ASSUME m \in Locations, Fs[m].is # "none" PROVE FALSE
    BY DEF Is, Node, Plain
  <2>1. Is(Fs, SubSeq(m, 1, Len(l)), "dir")
    BY <1>1, <1>3 DEF Tree
  <2> QED BY <2>1 DEF Is
<1> QED BY <1>1, <1>2, <1>3

(***************************************************************************)
(* Where write_file's parent directory comes to be: at the deepest         *)
(* existing directory, and below it nothing is there yet.                  *)
(***************************************************************************)
Target(relative) == Root \o relative
Base(Fs, relative) == DeepestExisting(Fs, Front(Target(relative)))
BaseDepth(Fs, relative) == Depth(Fs, Front(Target(relative)))
Parent(Fs, relative) ==
  Base(Fs, relative).at \o SubSeq(Target(relative), BaseDepth(Fs, relative) + 1, Len(Target(relative)) - 1)
Topmost(Fs, relative) == Append(Parent(Fs, relative), Last(Target(relative)))
Clear(Fs, relative) ==
  /\ Base(Fs, relative).how = "found" /\ Is(Fs, Base(Fs, relative).at, "dir")
  /\ BaseDepth(Fs, relative) < Len(Target(relative)) - 1 =>
       ~IsLink(Node(Fs, Append(Base(Fs, relative).at, Target(relative)[BaseDepth(Fs, relative) + 1])))

\* The location a relative path names, and its parent.
LEMMA TargetIs ==
  ASSUME NEW relative \in Seq(FileNames), relative # <<>>
  PROVE  LET t == Target(relative)
             q == Front(t)
         IN  /\ t \in Seq(FileNames) /\ Len(t) = Len(relative) + 1 /\ Len(t) \in Nat /\ Len(t) >= 2
             /\ t[1] = "w" /\ \A n \in 1 .. Len(relative) : t[n + 1] = relative[n]
             /\ q \in Seq(FileNames) /\ Len(q) = Len(t) - 1 /\ Len(q) >= 1 /\ q # <<>>
             /\ \A n \in 1 .. Len(q) : q[n] = t[n]
             /\ q = SubSeq(t, 1, Len(t) - 1)
             /\ Last(t) = t[Len(t)] /\ Last(t) \in FileNames
<1> DEFINE t == Target(relative)
           q == Front(t)
<1>1. t \in Seq(FileNames) /\ Len(t) = Len(relative) + 1 /\ Len(relative) \in Nat /\ Len(relative) # 0
      /\ t[1] = "w" /\ \A n \in 1 .. Len(relative) : t[n + 1] = relative[n]
  <2>1. Len(relative) # 0
    OBVIOUS
  <2> QED BY <2>1, RootThen DEF Target
<1> HIDE DEF t
<1>2. Len(t) \in Nat /\ Len(t) >= 2
  BY <1>1
<1>3. q = SubSeq(t, 1, Len(t) - 1) /\ Last(t) = t[Len(t)]
  BY DEF Front, Last
<1>4. q \in Seq(FileNames) /\ Len(q) = Len(t) - 1 /\ \A n \in 1 .. Len(q) : q[n] = t[n]
  BY <1>1, <1>2, <1>3
<1>5. t[Len(t)] \in FileNames
  BY <1>1, <1>2
<1>6. Len(q) >= 1 /\ q # <<>>
  BY <1>2, <1>4
<1> QED BY <1>1, <1>2, <1>3, <1>4, <1>5, <1>6 DEF t

\* The existing ancestor a clear relative path resolves from.
LEMMA BaseIs ==
  ASSUME NEW Fs \in Files, Tree(Fs), NEW relative \in Seq(FileNames), relative # <<>>, Clear(Fs, relative)
  PROVE  LET t == Target(relative)
             b == Base(Fs, relative)
             d == BaseDepth(Fs, relative)
         IN  /\ d \in 1 .. Len(t) - 1 /\ b.at \in Seq(FileNames) /\ b.at \in Locations
             /\ b = Walk(Fs, SubSeq(Front(t), 1, d))
             /\ d < Len(t) - 1 => Is(Fs, Append(b.at, t[d + 1]), "none")
             /\ d = Len(t) - 1 => b = Walk(Fs, Front(t))
<1> DEFINE t == Target(relative)
           q == Front(t)
           b == Base(Fs, relative)
           d == BaseDepth(Fs, relative)
<1>1. /\ t \in Seq(FileNames) /\ Len(t) \in Nat /\ Len(t) >= 2
      /\ q \in Seq(FileNames) /\ Len(q) = Len(t) - 1 /\ \A n \in 1 .. Len(q) : q[n] = t[n]
  BY TargetIs
<1>2. b = DeepestExisting(Fs, q) /\ d = Depth(Fs, q) /\ b.how = "found" /\ Is(Fs, b.at, "dir")
  BY DEF Base, BaseDepth, Clear
<1>3. d < Len(t) - 1 => ~IsLink(Node(Fs, Append(b.at, t[d + 1])))
  BY DEF Clear
<1> HIDE DEF t, q, b, d
<1>4. /\ d \in 1 .. Len(q) /\ Exists(Fs, q, d) /\ b = Walk(Fs, SubSeq(q, 1, d))
      /\ \A m \in (d + 1) .. Len(q) : ~Exists(Fs, q, m)
  BY <1>1, <1>2, FoundHasDepth
<1>5. b = Trail(Fs, q)[d] /\ Trail(Fs, q)[d] \in Answer
  <2>1. d \in 0 .. Len(q)
    BY <1>4
  <2>2. Trail(Fs, q) \in [0 .. Len(q) -> Answer]
    BY <1>1, TrailIs
  <2> QED BY <1>1, <1>4, <2>1, <2>2, WalkOfPrefix
<1>6. b.at \in Seq(FileNames)
  BY <1>5 DEF Answer
<1>7. b.at \in Locations
  BY <1>2 DEF Is, Node, Plain
<1>8. ASSUME d < Len(t) - 1 PROVE Is(Fs, Append(b.at, t[d + 1]), "none")
  <2>1. d + 1 \in 1 .. Len(q) /\ d + 1 \in 0 .. Len(q) /\ d + 1 \in (d + 1) .. Len(q) /\ (d + 1) - 1 = d
    BY <1>1, <1>4, <1>8
  <2>2. Walk(Fs, SubSeq(q, 1, d + 1)).how = "missing"
    BY <1>4, <2>1 DEF Exists
  <2>3. Trail(Fs, q)[d + 1].how = "missing"
    BY <1>1, <2>1, <2>2, WalkOfPrefix
  <2>4. Trail(Fs, q)[d + 1] = Descend(Fs, b.at, q[d + 1])
    <3>1. Trail(Fs, q)[d + 1] = IF Trail(Fs, q)[(d + 1) - 1].how = "found"
                            THEN Descend(Fs, Trail(Fs, q)[(d + 1) - 1].at, q[d + 1]) ELSE Trail(Fs, q)[(d + 1) - 1]
      BY <1>1, <2>1, TrailIs
    <3> QED BY <1>2, <1>5, <2>1, <3>1
  <2>5. q[d + 1] = t[d + 1]
    BY <1>1, <2>1
  <2>6. ~IsLink(Node(Fs, Append(b.at, t[d + 1]))) /\ ~Is(Fs, b.at, "file")
    BY <1>2, <1>3, <1>8 DEF Is
  <2>7. Descend(Fs, b.at, t[d + 1]) = IF Is(Fs, Append(b.at, t[d + 1]), "none")
           THEN NotFound(Append(b.at, t[d + 1]), "missing") ELSE Found(Append(b.at, t[d + 1]))
    BY <2>6, DescendPlain
  <2> QED BY <2>3, <2>4, <2>5, <2>7 DEF Found
<1>9. ASSUME d = Len(t) - 1 PROVE b = Walk(Fs, q)
  <2>1. SubSeq(q, 1, Len(q)) = q
    BY <1>1
  <2> QED BY <1>1, <1>4, <1>9, <2>1
<1> QED BY <1>1, <1>4, <1>6, <1>7, <1>8, <1>9 DEF t, q, b, d

(* The parent extends the base, and what it adds to it is not there yet. *)
LEMMA ParentIs ==
  ASSUME NEW Fs \in Files, Tree(Fs), NEW relative \in Seq(FileNames), relative # <<>>, Clear(Fs, relative)
  PROVE  LET t == Target(relative)
             b == Base(Fs, relative)
             d == BaseDepth(Fs, relative)
             p == Parent(Fs, relative)
             top == Topmost(Fs, relative)
         IN  /\ p \in Seq(FileNames) /\ Len(p) = Len(b.at) + (Len(t) - 1 - d) /\ Len(b.at) >= 1
             /\ top \in Seq(FileNames) /\ Len(top) = Len(p) + 1
             /\ \A n \in 1 .. Len(p) : top[n] = p[n]
             /\ \A n \in 1 .. Len(b.at) : top[n] = b.at[n]
             /\ top[Len(b.at) + 1] = t[d + 1]
             /\ \A n \in 1 .. Len(b.at) : Is(Fs, SubSeq(p, 1, n), "dir")
             /\ \A n \in 1 .. Len(p) : n > Len(b.at) => Is(Fs, SubSeq(p, 1, n), "none")
             /\ d < Len(t) - 1 => Is(Fs, top, "none")
             /\ d = Len(t) - 1 => p = b.at
<1> DEFINE t == Target(relative)
           b == Base(Fs, relative)
           d == BaseDepth(Fs, relative)
           r == SubSeq(t, d + 1, Len(t) - 1)
           p == Parent(Fs, relative)
           top == Topmost(Fs, relative)
           B == Len(b.at)
<1>1. t \in Seq(FileNames) /\ Len(t) \in Nat /\ Len(t) >= 2 /\ Last(t) = t[Len(t)] /\ Last(t) \in FileNames
  BY TargetIs
<1>2. /\ d \in 1 .. Len(t) - 1 /\ b.at \in Seq(FileNames) /\ b.at \in Locations
      /\ d < Len(t) - 1 => Is(Fs, Append(b.at, t[d + 1]), "none")
  BY BaseIs
<1>3. p = b.at \o r /\ top = Append(p, Last(t)) /\ Is(Fs, b.at, "dir")
  BY DEF Parent, Topmost, Clear
<1> HIDE DEF t, b, d, p, top
<1>4. r \in Seq(FileNames) /\ Len(r) = Len(t) - 1 - d /\ \A n \in 1 .. Len(r) : r[n] = t[d + n]
  <2> HIDE DEF B
  <2> DEFINE k == Len(t)
  <2>1. d \in Int /\ k \in Int /\ 1 <= d /\ d <= k - 1
    BY <1>1, <1>2
  <2> HIDE DEF k
  <2>2. /\ SubSeq(t, d + 1, Len(t) - 1) \in Seq(FileNames)
        /\ Len(SubSeq(t, d + 1, Len(t) - 1)) = IF d + 1 <= Len(t) - 1 THEN (Len(t) - 1) - (d + 1) + 1 ELSE 0
        /\ \A i \in 1 .. Len(t) - 1 - (d + 1) + 1 : SubSeq(t, d + 1, Len(t) - 1)[i] = t[d + 1 + i - 1]
    <3>1. \A i \in d + 1 .. Len(t) - 1 : i \in 1 .. Len(t)
      BY <1>1, <1>2
    <3>2. \A i \in d + 1 .. Len(t) - 1 : t[i] \in FileNames
      BY <1>1, <3>1
    <3>3. d + 1 \in Int /\ Len(t) - 1 \in Int
      BY <1>1, <2>1
    <3> QED BY <3>2, <3>3, SubSeqProperties
  <2>3. Len(r) = k - 1 - d
    BY <2>1, <2>2 DEF k
  <2>4. ASSUME NEW n \in 1 .. Len(r) PROVE r[n] = t[d + n]
    <3>1. n \in 1 .. k - 1 - (d + 1) + 1 /\ d + 1 + n - 1 = d + n
      <4>1. n \in Int /\ 1 <= n /\ n <= k - 1 - d
        BY <2>1, <2>3
      <4> QED BY <2>1, <4>1
    <3>2. n \in 1 .. Len(t) - 1 - (d + 1) + 1
      BY <3>1 DEF k
    <3>3. r[n] = t[d + 1 + n - 1]
      BY <2>2, <3>2
    <3> HIDE DEF r
    <3> QED BY <3>1, <3>3
  <2> QED BY <2>2, <2>3, <2>4 DEF k
<1>5. B \in Nat /\ B >= 1
  BY <1>2, LocationsAre
<1> HIDE DEF r
<1>6. /\ p \in Seq(FileNames) /\ Len(p) = B + Len(r)
      /\ \A i \in 1 .. B + Len(r) : p[i] = IF i <= B THEN b.at[i] ELSE r[i - B]
  BY <1>2, <1>3, <1>4, ConcatProperties
<1>7. /\ top \in Seq(FileNames) /\ Len(top) = Len(p) + 1 /\ top[Len(p) + 1] = Last(t)
      /\ \A n \in 1 .. Len(p) : top[n] = p[n]
  BY <1>1, <1>3, <1>6, AppendProperties
<1>8. Len(r) \in Nat /\ Len(p) \in Nat
  BY <1>4, <1>6
<1>9. \A n \in 1 .. B : top[n] = b.at[n] /\ p[n] = b.at[n]
  <2> TAKE n \in 1 .. B
  <2>1. n \in 1 .. B + Len(r) /\ n <= B /\ n \in 1 .. Len(p)
    BY <1>5, <1>6, <1>8
  <2> QED BY <1>6, <1>7, <2>1
<1>10. top[B + 1] = t[d + 1]
  <2>1. CASE d = Len(t) - 1
    <3>1. Len(r) = 0 /\ Len(p) = B /\ d + 1 = Len(t)
      BY <1>1, <1>2, <1>4, <1>5, <1>6, <2>1
    <3> QED BY <1>1, <1>7, <3>1
  <2>2. CASE d < Len(t) - 1
    <3>0. Len(r) >= 1
      BY <1>1, <1>2, <1>4, <2>2
    <3>1. 1 \in 1 .. Len(r) /\ B + 1 \in 1 .. B + Len(r) /\ B + 1 \in 1 .. Len(p)
          /\ ~(B + 1 <= B) /\ (B + 1) - B = 1
      <4> HIDE DEF B
      <4> QED BY <1>5, <1>6, <1>8, <3>0
    <3>2. p[B + 1] = r[1] /\ r[1] = t[d + 1]
      BY <1>4, <1>6, <3>1
    <3> QED BY <1>7, <3>1, <3>2
  <2> QED BY <1>1, <1>2, <2>1, <2>2
<1>11. ASSUME NEW n \in 1 .. B PROVE Is(Fs, SubSeq(p, 1, n), "dir")
  <2>1. SubSeq(p, 1, n) = SubSeq(b.at, 1, n)
    <3>1. n <= Len(p) /\ n \in Nat
      BY <1>5, <1>6, <1>8
    <3>2. \A i \in 1 .. n : i \in 1 .. B /\ p[i] = b.at[i]
      <4>1. \A i \in 1 .. n : i \in 1 .. B
        BY <1>5
      <4> QED BY Zenon, <1>9, <4>1
    <3>3. /\ SubSeq(p, 1, n) \in Seq(FileNames) /\ Len(SubSeq(p, 1, n)) = n
          /\ \A i \in 1 .. n : SubSeq(p, 1, n)[i] = p[i]
      BY <1>6, <3>1
    <3>4. /\ SubSeq(b.at, 1, n) \in Seq(FileNames) /\ Len(SubSeq(b.at, 1, n)) = n
          /\ \A i \in 1 .. n : SubSeq(b.at, 1, n)[i] = b.at[i]
      BY <1>2, <3>1
    <3>5. \A i \in 1 .. Len(SubSeq(p, 1, n)) : SubSeq(p, 1, n)[i] = SubSeq(b.at, 1, n)[i]
      BY <3>2, <3>3, <3>4
    <3> QED BY <3>3, <3>4, <3>5, SeqEqual
  <2>2. n < B => Is(Fs, SubSeq(b.at, 1, n), "dir")
    <3>1. Fs[b.at].is # "none"
      BY <1>2, <1>3 DEF Is, Node
    <3> QED BY <1>2, <1>5, <3>1 DEF Tree
  <2>3. n = B => SubSeq(b.at, 1, n) = b.at
    BY <1>2
  <2>4. CASE n = B
    <3>1. SubSeq(p, 1, n) = b.at
      BY <2>1, <2>3, <2>4
    <3> QED BY <1>3, <3>1
  <2>5. CASE n < B
    BY <2>1, <2>2, <2>5
  <2>6. n = B \/ n < B
    BY <1>5
  <2> QED BY <2>4, <2>5, <2>6
<1>12. ASSUME d < Len(t) - 1, NEW m \in Seq(FileNames), Len(m) > B, \A n \in 1 .. (B + 1) : m[n] = top[n]
       PROVE  Is(Fs, m, "none")
  <2> DEFINE a == Append(b.at, t[d + 1])
  <2>1. t[d + 1] \in FileNames
    BY <1>1, <1>2, <1>12
  <2>2. a \in Seq(FileNames) /\ Len(a) = B + 1 /\ a[B + 1] = t[d + 1] /\ \A n \in 1 .. B : a[n] = b.at[n]
    BY <1>2, <2>1, AppendProperties
  <2>3. Is(Fs, a, "none")
    BY <1>2, <1>12
  <2> HIDE DEF a
  <2>4. SubSeq(m, 1, B + 1) = a
    <3>1. SubSeq(m, 1, B + 1) \in Seq(FileNames) /\ Len(SubSeq(m, 1, B + 1)) = B + 1
          /\ \A n \in 1 .. (B + 1) : SubSeq(m, 1, B + 1)[n] = m[n]
      BY <1>5, <1>12
    <3>2. \A n \in 1 .. (B + 1) : m[n] = a[n]
      BY <1>5, <1>9, <1>10, <1>12, <2>2
    <3> QED BY <2>2, <3>1, <3>2, SeqEqual
  <2>5. a # <<>> /\ Len(a) <= Len(m)
    BY <1>5, <1>12, <2>2
  <2> QED BY <2>2, <2>3, <2>4, <2>5, NothingBelow
<1>13. ASSUME NEW n \in 1 .. Len(p), n > B PROVE Is(Fs, SubSeq(p, 1, n), "none")
  <2> DEFINE m == SubSeq(p, 1, n)
  <2>1. m \in Seq(FileNames) /\ Len(m) = n /\ \A i \in 1 .. n : m[i] = p[i]
    BY <1>6, <1>8
  <2>2. d < Len(t) - 1
    <3> DEFINE T == Len(t)
               R == Len(r)
    <3>1. T \in Nat /\ d \in 1 .. T - 1 /\ R = T - 1 - d /\ n \in Nat /\ n <= B + R /\ n > B
      BY <1>1, <1>2, <1>4, <1>6, <1>13
    <3> HIDE DEF T, R, B
    <3>2. d < T - 1
      BY <1>5, <3>1
    <3> QED BY <3>2 DEF T
  <2> HIDE DEF m
  <2>3. \A i \in 1 .. (B + 1) : m[i] = top[i]
    <3>1. \A i \in 1 .. (B + 1) : i \in 1 .. n /\ i \in 1 .. Len(p)
      <4> HIDE DEF B
      <4> QED BY <1>5, <1>8, <1>13
    <3> QED BY Zenon, <1>7, <2>1, <3>1
  <2>4. Is(Fs, m, "none")
    BY <1>12, <1>13, <2>1, <2>2, <2>3
  <2> QED BY <2>4 DEF m
<1>14. d < Len(t) - 1 => Is(Fs, top, "none")
  BY <1>5, <1>6, <1>7, <1>8, <1>12
<1>15. d = Len(t) - 1 => p = b.at
  <2> SUFFICES ASSUME d = Len(t) - 1 PROVE p = b.at
    OBVIOUS
  <2>1. Len(r) = 0
    BY <1>1, <1>2, <1>4
  <2>2. Len(p) = B
    BY <1>5, <1>6, <2>1
  <2> QED BY <1>2, <1>6, <1>9, <2>2, SeqEqual
<1>16. Len(p) = B + (Len(t) - 1 - d)
  BY <1>4, <1>6
<1> QED BY <1>5, <1>6, <1>7, <1>9, <1>10, <1>11, <1>13, <1>14, <1>15, <1>16 DEF t, b, d, p, top

\* The first tree satisfies the invariant.
LEMMA PathsInitially == PathsInit => PathsInv
<1> SUFFICES ASSUME PathsInit PROVE PathsInv
  OBVIOUS
<1> USE DEF PathsInit
<1>1. fs \in Files
  BY DEF Files, PathsBase, Plain, PathNode
<1>2. Tree(fs)
  <2> SUFFICES ASSUME NEW l \in Locations, NEW n \in Nat, fs[l].is # "none", 1 <= n, n < Len(l)
               PROVE  Is(fs, SubSeq(l, 1, n), "dir")
    BY DEF Tree
  <2>1. l \in Seq(FileNames) /\ Len(l) \in Nat /\ SubSeq(l, 1, n) \in Locations
    BY LocationsAre
  <2>2. l \in {Root, <<"o">>, GitDir} \/ (Len(l) = 2 /\ l[1] = "o")
    BY DEF PathsBase, Plain
  <2>3. Len(<<"o">>) = 1
    OBVIOUS
  <2>4. Len(l) = 2 /\ n = 1 /\ l[1] \in {"w", "o"}
    <3> DEFINE k == Len(l)
    <3>0. k \in Nat /\ 1 <= n /\ n < k
      BY <2>1
    <3> HIDE DEF k
    <3>00. k # 1 /\ (k = 2 => n = 1)
      BY <3>0
    <3>1. Len(l) # 1 /\ (Len(l) = 2 => n = 1)
      BY <3>00 DEF k
    <3>2. l # Root /\ l # <<"o">>
      BY <2>3, <3>1, RootIs
    <3>3. CASE l = GitDir
      BY <3>1, <3>3, RootIs
    <3>4. CASE Len(l) = 2 /\ l[1] = "o"
      BY <3>1, <3>4
    <3> QED BY <2>2, <3>2, <3>3, <3>4
  <2>5. SubSeq(l, 1, n) \in Seq(FileNames) /\ Len(SubSeq(l, 1, n)) = 1 /\ SubSeq(l, 1, n)[1] = l[1]
    BY <2>1, <2>4
  <2>6. SubSeq(l, 1, n) = Root \/ SubSeq(l, 1, n) = <<"o">>
    <3>1. <<"o">> \in Seq(FileNames) /\ Len(<<"o">>) = 1 /\ <<"o">>[1] = "o"
      BY PathsAssumption
    <3>2. 1 .. 1 = {1}
      OBVIOUS
    <3>3. CASE l[1] = "w"
      BY <2>5, <3>2, <3>3, RootIs, SeqEqual
    <3>4. CASE l[1] = "o"
      BY <2>5, <3>1, <3>2, <3>4, SeqEqual
    <3> QED BY <2>4, <3>3, <3>4
  <2> QED BY <2>1, <2>6 DEF Is, Node, PathsBase, Plain
<1> QED BY <1>1, <1>2 DEF PathsInv, PathsTypeOK, TokenHolds, ToolsStayInside

\* Whatever is moved or linked meanwhile preserves it.
LEMMA RearrangeKeeps == PathsInv /\ Rearrange => PathsInv'
<1> SUFFICES ASSUME PathsInv, Rearrange PROVE PathsInv'
  OBVIOUS
<1>0. PICK l \in {m \in Locations : IsPrefix(Root, m) /\ m # Root /\ Is(fs, Front(m), "dir")} :
        \E n \in {Plain(k) : k \in {"none", "file", "dir"}} \cup {Link(t) : t \in Links \ {l}} :
          fs' = [m \in Locations |-> IF m = l THEN n
                                     ELSE IF IsPrefix(l, m) THEN Plain("none") ELSE fs[m]]
  BY DEF Rearrange
<1>1. PICK n \in {Plain(k) : k \in {"none", "file", "dir"}} \cup {Link(t) : t \in Links \ {l}} :
        fs' = [m \in Locations |-> IF m = l THEN n
                                   ELSE IF IsPrefix(l, m) THEN Plain("none") ELSE fs[m]]
  BY <1>0
<1>2. fs \in Files /\ Tree(fs) /\ changes \in Nat /\ token \in Seq(PathToken) /\ Len(token) <= 1
  BY DEF PathsInv, PathsTypeOK
<1>3. n \in PathNode /\ Plain("none") \in PathNode
  <2>1. \A k \in {"none", "file", "dir"} : Plain(k) \in PathNode
    BY EmptyPath DEF Plain, PathNode
  <2>2. \A t \in Links : Link(t) \in PathNode
    BY PathsAssumption DEF Link, PathNode
  <2> QED BY <2>1, <2>2
<1>4. fs' \in Files
  BY <1>1, <1>2, <1>3 DEF Files
<1>5. l \in Locations /\ l \in Seq(FileNames) /\ Len(l) >= 1 /\ Len(l) \in Nat /\ Is(fs, Front(l), "dir")
  BY LocationsAre
<1>6. \A i \in Nat : 1 <= i /\ i < Len(l) => Is(fs, SubSeq(l, 1, i), "dir")
  <2> TAKE i \in Nat
  <2> HAVE 1 <= i /\ i < Len(l)
  <2> DEFINE q == Front(l)
  <2>1. q = SubSeq(l, 1, Len(l) - 1) /\ Len(q) = Len(l) - 1 /\ q \in Seq(FileNames)
    BY <1>5 DEF Front
  <2>2. q \in Locations /\ fs[q].is # "none"
    BY <1>5 DEF Is, Node, Plain
  <2>3. Is(fs, q, "dir")
    BY <1>5
  <2> HIDE DEF q
  <2>4. CASE i = Len(l) - 1
    BY <2>1, <2>3, <2>4
  <2>5. CASE i < Len(l) - 1
    <3>1. Is(fs, SubSeq(q, 1, i), "dir")
      BY <1>2, <2>1, <2>2, <2>5 DEF Tree
    <3>2. SubSeq(q, 1, i) = SubSeq(l, 1, i)
      BY <1>5, <2>1, <2>5
    <3> QED BY <3>1, <3>2
  <2> QED BY <1>5, <2>4, <2>5
<1>7. \A m \in Locations : IsPrefix(l, m) <=> Len(l) <= Len(m) /\ SubSeq(m, 1, Len(l)) = l
  <2>1. SubSeq(l, 1, Len(l)) = l
    BY <1>5
  <2> QED BY <2>1 DEF IsPrefix
<1>8. Tree(fs)'
  <2> SUFFICES ASSUME NEW m \in Locations, NEW i \in Nat, fs'[m].is # "none", 1 <= i, i < Len(m)
               PROVE  fs'[SubSeq(m, 1, i)].is = "dir"
    <3>1. \A m \in Locations, i \in Nat : 1 <= i /\ i < Len(m) => SubSeq(m, 1, i) \in Locations
      BY LocationsAre
    <3> QED BY <3>1 DEF Tree, Is, Node
  <2> DEFINE p == SubSeq(m, 1, i)
  <2>1. m \in Seq(FileNames) /\ Len(m) \in Nat /\ p \in Locations /\ p \in Seq(FileNames) /\ Len(p) = i
    BY LocationsAre
  <2>2. ~(Len(l) <= Len(p) /\ SubSeq(p, 1, Len(l)) = l)
    <3> SUFFICES ASSUME Len(l) <= Len(p), SubSeq(p, 1, Len(l)) = l PROVE FALSE
      OBVIOUS
    <3>1. SubSeq(m, 1, Len(l)) = l /\ Len(l) < Len(m)
      BY <1>5, <2>1
    <3>2. IsPrefix(l, m) /\ m # l
      BY <1>5, <1>7, <2>1, <3>1
    <3> QED BY <1>1, <3>2 DEF Plain
  <2>3. p # l
    BY <1>5, <2>1, <2>2
  <2>4. fs'[p] = fs[p]
    BY <1>1, <1>7, <2>1, <2>2, <2>3
  <2>5. CASE m = l
    BY <1>6, <2>1, <2>4, <2>5 DEF Is, Node
  <2>6. CASE m # l
    <3>1. fs[m].is # "none"
      BY <1>1, <2>6 DEF Plain
    <3> QED BY <1>2, <2>1, <2>4, <3>1 DEF Tree, Is, Node
  <2> QED BY <2>5, <2>6
<1>9. /\ token' \in Seq(PathToken) /\ Len(token') <= 1
      /\ token' # <<>> => token'[1].fresh = FALSE
  <2>1. token' = [i \in DOMAIN token |-> [token[i] EXCEPT !.fresh = FALSE]]
    BY DEF Rearrange
  <2>2. DOMAIN token = 1 .. Len(token) /\ Len(token) \in Nat
    BY <1>2
  <2>3. \A i \in 1 .. Len(token) : token[i] \in PathToken
    BY <1>2
  <2>4. \A i \in 1 .. Len(token) : [token[i] EXCEPT !.fresh = FALSE] \in PathToken
                                   /\ [token[i] EXCEPT !.fresh = FALSE].fresh = FALSE
    BY <2>3 DEF PathToken
  <2>5. token' \in Seq(PathToken) /\ Len(token') = Len(token)
    BY <2>1, <2>2, <2>4
  <2>6. token' # <<>> => 1 \in 1 .. Len(token)
    BY <2>2, <2>5
  <2> QED BY <1>2, <2>1, <2>2, <2>4, <2>5, <2>6
<1>10. TokenHolds'
  BY <1>9 DEF TokenHolds
<1>11. changes' \in Nat /\ ToolsStayInside'
  BY <1>2 DEF Rearrange, ToolsStayInside
<1> QED BY <1>4, <1>8, <1>9, <1>10, <1>11 DEF PathsInv, PathsTypeOK

(* A path confined for reading that names something names it in the tree. *)
LEMMA ReadStaysInside ==
  ASSUME NEW Fs, NEW path \in Seq(FileNames), path # <<>>, UnderRoot(Fs, Root, path), Walk(Fs, path).how = "found"
  PROVE  IsPrefix(Root, Walk(Fs, path).at)
BY FoundIsDeepest DEF UnderRoot


\* Confinement issues a token only for what it resolved.
LEMMA ConfineKeeps ==
  ASSUME NEW rel \in Requests
  PROVE  PathsInv /\ Confine(rel) => PathsInv'
<1> SUFFICES ASSUME PathsInv, Confine(rel) PROVE PathsInv'
  OBVIOUS
<1>1. PICK mode \in {"read", "write"}, root \in {Root, Neighbour} :
        /\ IF mode = "read" THEN ConfineRead(fs, root, rel) ELSE ConfineWrite(fs, root, rel)
        /\ token' = <<[mode |-> mode, root |-> root, relative |-> NormalizeRelative(rel),
                       fresh |-> TRUE]>>
  BY DEF Confine
<1>2. fs' = fs /\ changes' = changes /\ touched' = {}
  BY DEF Confine
<1> DEFINE norm == NormalizeRelative(rel)
           t == [mode |-> mode, root |-> root, relative |-> norm, fresh |-> TRUE]
<1>3. norm \in Seq(FileNames)
  BY PathsAssumption, NormalForm
<1>4. t \in PathToken /\ t.mode = mode /\ t.relative = norm /\ t.root = root
  BY <1>3 DEF PathToken
<1>5. root = Root /\ mode = "read" => UnderRoot(fs, Root, Root \o norm)
  BY <1>1 DEF ConfineRead
<1>6. root = Root /\ mode # "read" => WriteConfined(fs, norm)
  BY <1>1 DEF ConfineWrite, WriteConfined
<1> HIDE DEF norm
<1>7. token' = <<t>>
  BY <1>1 DEF norm
<1> HIDE DEF t
<1>8. token' \in Seq(PathToken) /\ Len(token') = 1 /\ token'[1] = t
  BY <1>4, <1>7
<1>9. TokenHolds'
  BY <1>2, <1>4, <1>5, <1>6, <1>8 DEF TokenHolds
<1>10. PathsTypeOK' /\ Tree(fs')
  BY <1>2, <1>8 DEF PathsInv, PathsTypeOK
<1> QED BY <1>2, <1>9, <1>10 DEF PathsInv, ToolsStayInside

(* A step that leaves the tree and drops the token keeps all but the last  *)
(* part of the invariant.                                                  *)
LEMMA TokenSpent ==
  PathsInv /\ fs' = fs /\ changes' = changes /\ token' = <<>> /\ ToolsStayInside' => PathsInv'
<1>1. <<>> \in Seq(PathToken) /\ Len(<<>>) <= 1
  OBVIOUS
<1> QED BY <1>1 DEF PathsInv, PathsTypeOK, TokenHolds

\* What a held token is.
LEMMA TokenIs ==
  ASSUME PathsInv, token # <<>>
  PROVE  token[1] \in PathToken /\ token[1].relative \in Seq(FileNames)
<1>1. token \in Seq(PathToken)
  BY DEF PathsInv, PathsTypeOK
<1>2. token[1] \in PathToken
  BY <1>1
<1> QED BY <1>2 DEF PathToken

\* A read keeps the invariant.
LEMMA ReadFileKeeps == PathsInv /\ ReadFile => PathsInv'
<1> SUFFICES ASSUME PathsInv, ReadFile PROVE PathsInv'
  OBVIOUS
<1> DEFINE t == token[1]
           path == t.root \o t.relative
           w == Walk(fs, path)
<1>1. token # <<>> /\ t.mode = "read"
  BY DEF ReadFile
<1>2. touched' = IF t.root = Root /\ w.how = "found" /\ Is(fs, w.at, "file")
                 THEN {[tool |-> "read", at |-> w.at, fresh |-> t.fresh]} ELSE {}
  BY DEF ReadFile, RootsMatch
<1>3. t.root = Root => path \in Seq(FileNames) /\ path # <<>>
  <2> SUFFICES ASSUME t.root = Root PROVE path \in Seq(FileNames) /\ path # <<>>
    OBVIOUS
  <2>1. t.relative \in Seq(FileNames)
    BY <1>1, TokenIs
  <2>2. path \in Seq(FileNames) /\ Len(path) = Len(t.relative) + 1 /\ Len(t.relative) \in Nat
    BY <2>1, RootThen
  <2> HIDE DEF path
  <2>3. Len(path) # 0
    BY <2>2
  <2> QED BY <2>2, <2>3
<1>4. t.root = Root /\ t.fresh => UnderRoot(fs, Root, path)
  BY <1>1 DEF PathsInv, TokenHolds
<1> HIDE DEF path
<1>5. t.root = Root /\ t.fresh /\ w.how = "found" => IsPrefix(Root, w.at)
  BY <1>3, <1>4, ReadStaysInside
<1> HIDE DEF w, t
<1>6. ToolsStayInside'
  BY <1>2, <1>5 DEF ToolsStayInside
<1>7. fs' = fs /\ changes' = changes /\ token' = <<>>
  BY DEF ReadFile
<1> QED BY <1>6, <1>7, TokenSpent

\* Arithmetic of the walk.
LEMMA PastTwo == \A k \in Nat : k >= 2 /\ k # 2 => 2 \in 1 .. (k - 1)
OBVIOUS

\* Arithmetic of the walk.
LEMMA Beyond == \A k, n \in Nat : k # n => (k <= n <=> k < n)
OBVIOUS

\* A search keeps the invariant.
LEMMA SearchKeeps == PathsInv /\ Search => PathsInv'
<1> SUFFICES ASSUME PathsInv, Search PROVE PathsInv'
  OBVIOUS
<1>1. ASSUME NEW l \in Searched PROVE IsPrefix(Root, l) /\ ~IsStrictPrefix(GitDir, l)
  <2>1. /\ l \in Locations /\ IsPrefix(Root, l)
        /\ \A n \in 1 .. (Len(l) - 1) : n > 1 => l[n] # ".git"
    BY DEF Searched
  <2>2. l \in Seq(FileNames) /\ Len(l) \in Nat
    BY <2>1, LocationsAre
  <2>3. ASSUME IsStrictPrefix(GitDir, l) PROVE FALSE
    <3>1. IsPrefix(GitDir, l) /\ GitDir # l
      BY <2>3 DEF IsStrictPrefix
    <3>2. Len(l) >= 2 /\ l[1] = "w" /\ l[2] = ".git"
      BY <2>2, <3>1, PrefixesAre
    <3>3. Len(l) = 2 => l = GitDir
      <4>1. 1 .. 2 = {1, 2}
        OBVIOUS
      <4> QED BY <2>2, <3>2, <4>1, RootIs, SeqEqual
    <3>4. 2 \in 1 .. (Len(l) - 1)
      <4>1. Len(l) # 2
        BY <3>1, <3>3
      <4> QED BY <2>2, <3>2, <4>1, PastTwo
    <3> QED BY <2>1, <3>2, <3>4
  <2> QED BY <2>1, <2>3
<1>2. touched' = {[tool |-> "search", at |-> l, fresh |-> TRUE] : l \in Searched}
  BY DEF Search
<1>3. ToolsStayInside'
  <2> SUFFICES ASSUME NEW x \in touched' PROVE /\ IsPrefix(Root, x.at) /\ x.tool # "write"
                                               /\ ~IsStrictPrefix(GitDir, x.at)
    BY DEF ToolsStayInside
  <2>1. PICK l \in Searched : x = [tool |-> "search", at |-> l, fresh |-> TRUE]
    BY <1>2
  <2> QED BY <1>1, <2>1
<1>4. UNCHANGED <<fs, changes, token>>
  BY DEF Search
<1> QED BY <1>3, <1>4 DEF PathsInv, PathsTypeOK, TokenHolds

\* A harvest keeps the invariant.
LEMMA HarvestKeeps == PathsInv /\ Harvest => PathsInv'
<1> SUFFICES ASSUME PathsInv, Harvest PROVE PathsInv'
  OBVIOUS
<1>1. ASSUME NEW l \in GitStatusAll, Walk(fs, l).how = "found" PROVE IsPrefix(Root, Walk(fs, l).at)
  <2>1. l \in Locations /\ IsPrefix(Root, l) /\ ConfineRead(fs, Root, Tail(l))
    BY DEF Harvest, ConfineWorktreeChanges, GitStatusAll, IsStrictPrefix
  <2>2. l \in Seq(FileNames) /\ l # <<>> /\ Len(l) \in Nat /\ Len(l) >= 1 /\ \A n \in 1 .. Len(l) : PlainName(l[n])
    BY <2>1, LocationsAre
  <2> DEFINE r == Tail(l)
  <2>3. r \in Seq(FileNames) /\ Len(r) = Len(l) - 1 /\ \A n \in 1 .. Len(r) : r[n] = l[n + 1]
    BY <2>2
  <2>4. ConfineRead(fs, Root, r)
    BY <2>1
  <2> HIDE DEF r
  <2>5. \A n \in 1 .. Len(r) : PlainName(r[n])
    BY <2>2, <2>3
  <2>6. NormalizeRelative(r) = r
    BY <2>3, <2>5, NormalForm
  <2>7. Root \o r = l
    <3>1. l[1] = "w"
      BY <2>1, <2>2, PrefixesAre
    <3> DEFINE t == Root \o r
    <3>2. t \in Seq(FileNames) /\ Len(t) = Len(r) + 1 /\ t[1] = "w" /\ \A n \in 1 .. Len(r) : t[n + 1] = r[n]
      BY <2>3, RootThen
    <3> HIDE DEF t
    <3>3. Len(t) = Len(l)
      BY <2>2, <2>3, <3>2
    <3>4. ASSUME NEW i \in 1 .. Len(l) PROVE t[i] = l[i]
      <4>1. CASE i = 1
        BY <3>1, <3>2, <4>1
      <4>2. CASE i # 1
        <5>1. i - 1 \in 1 .. Len(r) /\ (i - 1) + 1 = i
          BY <2>2, <2>3, <4>2
        <5>2. t[(i - 1) + 1] = r[i - 1] /\ r[i - 1] = l[(i - 1) + 1]
          BY <2>3, <3>2, <5>1
        <5> QED BY <5>1, <5>2
      <4> QED BY <4>1, <4>2
    <3>5. t = l
      BY <2>2, <3>2, <3>3, <3>4, SeqEqual
    <3> QED BY <3>5 DEF t
  <2>8. UnderRoot(fs, Root, l)
    BY <2>4, <2>6, <2>7 DEF ConfineRead
  <2> QED BY <1>1, <2>2, <2>8, ReadStaysInside
<1>2. touched' = {[tool |-> "harvest", at |-> Walk(fs, l).at, fresh |-> TRUE] :
                    l \in {m \in GitStatusAll : Walk(fs, m).how = "found"}}
  BY DEF Harvest
<1>3. ToolsStayInside'
  <2> SUFFICES ASSUME NEW x \in touched' PROVE IsPrefix(Root, x.at) /\ x.tool = "harvest"
    BY DEF ToolsStayInside
  <2>1. PICK l \in GitStatusAll : Walk(fs, l).how = "found"
                                  /\ x = [tool |-> "harvest", at |-> Walk(fs, l).at, fresh |-> TRUE]
    BY <1>2
  <2> QED BY <1>1, <2>1
<1>4. UNCHANGED <<fs, changes, token>>
  BY DEF Harvest
<1> QED BY <1>3, <1>4 DEF PathsInv, PathsTypeOK, TokenHolds

\* Applying a patch keeps the invariant.
LEMMA ApplyKeeps == PathsInv /\ GitApply => PathsInv'
<1> SUFFICES ASSUME PathsInv, GitApply PROVE PathsInv'
  OBVIOUS
<1>1. PICK rel \in Requests, node \in {Plain("file")} \cup {Link(t) : t \in Links} :
        LET place == Root \o rel
        IN  /\ ~PatchCreatesSymlink(node) /\ place \in Locations
            /\ \A n \in 2 .. Len(place) : place[n] # ".git"
            /\ \A n \in 1 .. (Len(place) - 1) : Node(fs, SubSeq(place, 1, n)).is \in {"none", "dir"}
            /\ Is(fs, place, "none")
            /\ fs' = [m \in Locations |-> IF m = place THEN node
                                          ELSE IF IsStrictPrefix(m, place) THEN Plain("dir") ELSE fs[m]]
            /\ touched' = {[tool |-> "write", at |-> place, fresh |-> TRUE]}
  BY DEF GitApply
<1> DEFINE place == Root \o rel
<1>2. /\ place \in Locations /\ \A n \in 2 .. Len(place) : place[n] # ".git"
      /\ Is(fs, place, "none")
      /\ fs' = [m \in Locations |-> IF m = place THEN node
                                    ELSE IF IsStrictPrefix(m, place) THEN Plain("dir") ELSE fs[m]]
      /\ touched' = {[tool |-> "write", at |-> place, fresh |-> TRUE]}
  BY <1>1
<1>3. node = Plain("file")
  BY <1>1 DEF PatchCreatesSymlink, IsLink, Link
<1>4. place \in Seq(FileNames) /\ Len(place) \in Nat /\ Len(place) >= 1
  <2> HIDE DEF place
  <2>1. place \in Seq(FileNames) /\ Len(place) >= 1
    BY <1>2, LocationsAre
  <2> QED BY <2>1
<1>5. place[1] = "w"
  <2>1. rel \in Seq(FileNames)
    BY PathsAssumption
  <2> QED BY <2>1, RootThen
<1> HIDE DEF place
<1>6. IsPrefix(Root, place) /\ ~IsPrefix(GitDir, place)
  <2>1. Len(place) >= 2 => 2 \in 2 .. Len(place)
    BY <1>4
  <2> QED BY <1>2, <1>4, <1>5, <2>1, PrefixesAre
<1>7. fs \in Files /\ Tree(fs) /\ changes \in Nat
  BY DEF PathsInv, PathsTypeOK
<1>8. fs' \in Files
  <2>1. Plain("file") \in PathNode /\ Plain("dir") \in PathNode
    BY EmptyPath DEF Plain, PathNode
  <2> QED BY <1>2, <1>3, <1>7, <2>1 DEF Files
<1>9. \A m \in Locations : IsStrictPrefix(m, place) <=> Len(m) < Len(place) /\ SubSeq(place, 1, Len(m)) = m
  <2> TAKE m \in Locations
  <2>1. m \in Seq(FileNames) /\ Len(m) \in Nat /\ SubSeq(m, 1, Len(m)) = m /\ SubSeq(place, 1, Len(place)) = place
    BY <1>4, LocationsAre
  <2>2. IsPrefix(m, place) <=> Len(m) <= Len(place) /\ SubSeq(place, 1, Len(m)) = m
    BY <2>1 DEF IsPrefix
  <2>3. IsStrictPrefix(m, place) <=> IsPrefix(m, place) /\ m # place
    BY DEF IsStrictPrefix
  <2>4. CASE Len(m) = Len(place)
    BY <1>4, <2>1, <2>2, <2>3, <2>4
  <2>5. CASE Len(m) # Len(place)
    <3>1. Len(m) <= Len(place) <=> Len(m) < Len(place)
      BY <1>4, <2>1, <2>5, Beyond
    <3>2. m # place
      BY <2>5
    <3> QED BY <2>2, <2>3, <3>1, <3>2
  <2> QED BY <2>4, <2>5
<1>10. Tree(fs')
  <2> SUFFICES ASSUME NEW m \in Locations, NEW i \in Nat, fs'[m].is # "none", 1 <= i, i < Len(m)
               PROVE  fs'[SubSeq(m, 1, i)].is = "dir"
    <3>1. \A m \in Locations, i \in Nat : 1 <= i /\ i < Len(m) => SubSeq(m, 1, i) \in Locations
      BY LocationsAre
    <3> QED BY <3>1 DEF Tree, Is, Node
  <2> DEFINE p == SubSeq(m, 1, i)
  <2>1. m \in Seq(FileNames) /\ Len(m) \in Nat /\ p \in Locations /\ p \in Seq(FileNames) /\ Len(p) = i
    BY LocationsAre
  <2>2. CASE m = place \/ IsStrictPrefix(m, place)
    <3>1. Len(m) <= Len(place) /\ SubSeq(place, 1, Len(m)) = m
      BY <1>4, <1>9, <2>1, <2>2
    <3>2. SubSeq(place, 1, i) = p /\ i < Len(place)
      BY <1>4, <2>1, <3>1
    <3>3. IsStrictPrefix(p, place) /\ p # place
      <4>1. p \in Locations /\ Len(p) = i /\ Len(p) # Len(place)
        BY <1>4, <2>1, <3>2
      <4>2. Len(p) < Len(place) /\ SubSeq(place, 1, Len(p)) = p
        BY <3>2, <4>1
      <4> HIDE DEF p
      <4>3. IsStrictPrefix(p, place)
        BY <1>9, <4>1, <4>2
      <4> QED BY <4>1, <4>3
    <3> QED BY <1>2, <2>1, <3>3 DEF Plain
  <2>3. CASE m # place /\ ~IsStrictPrefix(m, place)
    <3>1. fs[m].is # "none"
      BY <1>2, <2>3
    <3>2. Is(fs, p, "dir")
      BY <1>7, <2>1, <3>1 DEF Tree
    <3>3. p # place
      BY <1>2, <3>2 DEF Is
    <3> QED BY <1>2, <2>1, <3>2, <3>3 DEF Is, Node, Plain
  <2> QED BY <2>2, <2>3
<1>11. ToolsStayInside'
  BY <1>2, <1>6 DEF ToolsStayInside
<1>12. changes' \in Nat /\ token' = token /\ token = <<>>
  BY <1>7 DEF GitApply
<1> QED BY <1>8, <1>10, <1>11, <1>12 DEF PathsInv, PathsTypeOK, TokenHolds

(* Where the write goes: to the very path, in the tree and not in .git, as *)
(* long as nothing changed since it was confined.                          *)
LEMMA WriteStaysInside ==
  ASSUME NEW Fs \in Files, Tree(Fs), NEW relative \in Seq(FileNames), relative # <<>>, Clear(Fs, relative),
         WriteConfined(Fs, relative), ~GitDirRefused(Fs, relative)
  PROVE  LET place == Follow(Fs, Topmost(Fs, relative))
         IN  IsPrefix(Root, place) /\ ~IsPrefix(GitDir, place)
<1> DEFINE t == Target(relative)
           q == Front(t)
           b == Base(Fs, relative)
           d == BaseDepth(Fs, relative)
           top == Topmost(Fs, relative)
           B == Len(b.at)
<1>1. /\ t \in Seq(FileNames) /\ Len(t) = Len(relative) + 1 /\ Len(t) \in Nat /\ Len(t) >= 2
      /\ \A n \in 1 .. Len(relative) : t[n + 1] = relative[n]
      /\ q \in Seq(FileNames) /\ Len(q) = Len(t) - 1 /\ q # <<>> /\ q = SubSeq(t, 1, Len(t) - 1)
      /\ Last(t) = t[Len(t)] /\ Last(t) \in FileNames
  BY TargetIs
<1>2. /\ d \in 1 .. Len(t) - 1 /\ b.at \in Seq(FileNames)
      /\ d = Len(t) - 1 => b = Walk(Fs, q)
  BY BaseIs
<1>3. /\ top \in Seq(FileNames) /\ B >= 1 /\ B \in Nat
      /\ Len(top) = B + (Len(t) - 1 - d) + 1
      /\ \A n \in 1 .. B : top[n] = b.at[n]
      /\ top[B + 1] = t[d + 1]
      /\ d < Len(t) - 1 => Is(Fs, top, "none")
      /\ d = Len(t) - 1 => top = Append(b.at, Last(t))
  <2> DEFINE p == Parent(Fs, relative)
  <2>1. /\ top \in Seq(FileNames) /\ B >= 1 /\ Len(top) = Len(p) + 1 /\ Len(p) = B + (Len(t) - 1 - d)
        /\ \A n \in 1 .. B : top[n] = b.at[n]
        /\ top[B + 1] = t[d + 1]
        /\ d < Len(t) - 1 => Is(Fs, top, "none")
        /\ d = Len(t) - 1 => p = b.at
    BY ParentIs
  <2>2. top = Append(p, Last(t))
    BY DEF Topmost
  <2>3. B \in Nat
    BY <1>2
  <2> HIDE DEF t, q, b, d, top, p
  <2> QED BY <2>1, <2>2, <2>3
<1>4. b.how = "found" /\ Is(Fs, b.at, "dir") /\ b = DeepestExisting(Fs, q) /\ d = Depth(Fs, q)
  BY DEF Clear, Base, BaseDepth
<1>5. /\ UnderRoot(Fs, Root, q)
      /\ Walk(Fs, q).how = "found" => ~IsLink(Node(Fs, Append(Walk(Fs, q).at, Last(t))))
  BY DEF WriteConfined, Target
<1>6. /\ \A i \in DOMAIN relative : relative[i] # ".git"
      /\ DeepestExisting(Fs, t).how = "found" => ~IsPrefix(GitDir, DeepestExisting(Fs, t).at)
  BY DEF GitDirRefused, Target
<1> HIDE DEF t, q, b, d, top
<1>7. IsPrefix(Root, b.at)
  BY <1>4, <1>5 DEF UnderRoot
<1>8. ~IsLink(Node(Fs, top))
  <2>1. CASE d < Len(t) - 1
    BY <1>3, <2>1 DEF Is, IsLink
  <2>2. CASE d = Len(t) - 1
    BY <1>2, <1>3, <1>4, <1>5, <2>2
  <2> QED BY <1>1, <1>2, <2>1, <2>2
<1>9. Follow(Fs, top) = top
  BY <1>8 DEF Follow
<1>10. b.at[1] = "w" /\ top[1] = "w" /\ Len(top) >= 2
  <2>1. b.at[1] = "w"
    BY <1>2, <1>7, PrefixesAre
  <2>2. 1 \in 1 .. B
    BY <1>3
  <2>3. Len(top) >= 2
    BY <1>1, <1>2, <1>3
  <2> QED BY <1>3, <2>1, <2>2, <2>3
<1>11. IsPrefix(Root, top)
  BY <1>3, <1>10, PrefixesAre
<1>12. ASSUME IsPrefix(GitDir, top) PROVE FALSE
  <2>1. top[2] = ".git"
    BY <1>3, <1>12, PrefixesAre
  <2>2. CASE B = 1
    <3>1. t[d + 1] = ".git"
      BY <1>3, <2>1, <2>2
    <3>2. d \in 1 .. Len(relative) /\ DOMAIN relative = 1 .. Len(relative)
      BY <1>1, <1>2
    <3> QED BY <1>1, <1>6, <3>1, <3>2
  <2>3. CASE B # 1
    <3>1. B >= 2 /\ 2 \in 1 .. B
      <4>1. B \in Nat /\ B >= 1 /\ B # 1
        BY <1>3, <2>3
      <4> HIDE DEF B
      <4> QED BY <4>1
    <3>2. IsPrefix(GitDir, b.at)
      BY <1>2, <1>3, <1>10, <2>1, <3>1, PrefixesAre
    <3>3. CASE Walk(Fs, t).how = "missing"
      <4>1. DeepestExisting(Fs, t) = b
        <5>1. Front(t) = q /\ Len(t) > 1
          BY <1>1 DEF q
        <5> QED BY <1>1, <1>4, <3>3, <5>1, MissingKeepsDeepest
      <4> QED BY <1>4, <1>6, <3>2, <4>1
    <3>4. CASE Walk(Fs, t).how # "missing"
      <4>0. t # <<>>
        BY <1>1
      <4>1. DeepestExisting(Fs, t) = Walk(Fs, t)
        BY <1>1, <3>4, <4>0, FoundIsDeepest
      <4>2. Walk(Fs, t) = Trail(Fs, t)[Len(t)] /\ Walk(Fs, q) = Trail(Fs, t)[Len(t) - 1]
        <5>1. Len(t) - 1 \in 0 .. Len(t)
          BY <1>1
        <5> QED BY <1>1, <5>1, WalkOfPrefix DEF Walk
      <4>3. Trail(Fs, t)[Len(t)] = IF Trail(Fs, t)[Len(t) - 1].how = "found"
              THEN Descend(Fs, Trail(Fs, t)[Len(t) - 1].at, t[Len(t)]) ELSE Trail(Fs, t)[Len(t) - 1]
        <5>1. Len(t) \in 1 .. Len(t)
          BY <1>1
        <5> QED BY <1>1, <5>1, TrailIs
      <4>4. Walk(Fs, q).how # "missing"
        BY <3>4, <4>2, <4>3
      <4>5. b = Walk(Fs, q) /\ d = Len(t) - 1
        BY <1>1, <1>4, <4>4, FoundIsDeepest
      <4>6. Walk(Fs, t) = Descend(Fs, b.at, Last(t))
        BY <1>1, <1>4, <4>2, <4>3, <4>5
      <4>7. top = Append(b.at, Last(t))
        BY <1>3, <4>5
      <4>8. ~Is(Fs, b.at, "file")
        BY <1>4 DEF Is
      <4>9. Walk(Fs, t) = IF Is(Fs, top, "none") THEN NotFound(top, "missing") ELSE Found(top)
        BY <1>8, <4>6, <4>7, <4>8, DescendPlain
      <4>10. Walk(Fs, t) = Found(top)
        BY <3>4, <4>9 DEF NotFound
      <4> QED BY <1>6, <1>12, <4>1, <4>10 DEF Found
    <3> QED BY <3>3, <3>4
  <2> QED BY <2>2, <2>3
<1> QED BY <1>9, <1>11, <1>12 DEF top

\* A write keeps the invariant.
LEMMA WriteInRootKeeps == PathsInv /\ WriteFile /\ token[1].root = Root => PathsInv'
<1> SUFFICES ASSUME PathsInv, WriteFile, token[1].root = Root PROVE PathsInv'
  OBVIOUS
<1> DEFINE r == token[1].relative
           b == Base(fs, r)
           p == Parent(fs, r)
           top == Topmost(fs, r)
           place == Follow(fs, top)
           made == {m \in ParentsOf(Append(p, "x")) : Is(fs, m, "none")}
           open == /\ place \in Locations /\ Node(fs, place).is \in {"none", "file"}
                   /\ Len(place) = 1 \/ Front(place) = p \/ Is(fs, Front(place), "dir")
<1>1. /\ token # <<>> /\ token[1].mode = "write" /\ token' = <<>> /\ changes' = changes
      /\ token[1].root = Root
      /\ IF GitDirRefused(fs, r) \/ ~Clear(fs, r) \/ ~open
         THEN UNCHANGED fs /\ touched' = {}
         ELSE /\ fs' = [m \in Locations |-> IF m = place THEN Plain("file")
                                          ELSE IF m \in made THEN Plain("dir") ELSE fs[m]]
              /\ touched' = {[tool |-> "write", at |-> place, fresh |-> token[1].fresh]}
  BY DEF WriteFile, RootsMatch, Base, BaseDepth, Parent, Topmost, Clear, Target
<1>2. r \in Seq(FileNames) /\ fs \in Files /\ Tree(fs) /\ changes \in Nat
  BY <1>1, TokenIs DEF PathsInv, PathsTypeOK
<1>3. CASE GitDirRefused(fs, r) \/ ~Clear(fs, r) \/ ~open
  <2>1. fs' = fs /\ touched' = {}
    BY <1>1, <1>3
  <2>2. ToolsStayInside'
    BY <2>1 DEF ToolsStayInside
  <2> QED BY <1>1, <2>1, <2>2, TokenSpent
<1>4. CASE ~GitDirRefused(fs, r) /\ Clear(fs, r) /\ open
  <2>1. /\ fs' = [m \in Locations |-> IF m = place THEN Plain("file")
                                      ELSE IF m \in made THEN Plain("dir") ELSE fs[m]]
        /\ touched' = {[tool |-> "write", at |-> place, fresh |-> token[1].fresh]}
    BY <1>1, <1>4
  <2>2. r # <<>>
    <3> SUFFICES ASSUME r = <<>> PROVE FALSE
      OBVIOUS
    <3>1. Target(r) = Root
      BY RootIs DEF Target
    <3>2. Front(Root) = <<>>
      BY RootIs DEF Front
    <3>3. DeepestExisting(fs, <<>>) = NotFound(<<>>, "error")
      <4>1. 1 .. Len(<<>>) = {}
        OBVIOUS
      <4> QED BY <4>1 DEF DeepestExisting
    <3> QED BY <1>4, <3>1, <3>2, <3>3 DEF Clear, Base, NotFound
  <2>3. /\ place \in Locations /\ Node(fs, place).is \in {"none", "file"}
        /\ Len(place) = 1 \/ Front(place) = p \/ Is(fs, Front(place), "dir")
    BY <1>4
  <2>4. /\ p \in Seq(FileNames) /\ Len(b.at) >= 1 /\ Len(b.at) <= Len(p)
        /\ top \in Seq(FileNames) /\ Len(top) = Len(p) + 1
        /\ \A n \in 1 .. Len(p) : top[n] = p[n]
        /\ \A n \in 1 .. Len(b.at) : Is(fs, SubSeq(p, 1, n), "dir")
        /\ \A n \in 1 .. Len(p) : n > Len(b.at) => Is(fs, SubSeq(p, 1, n), "none")
        /\ Len(b.at) # Len(p) => Is(fs, top, "none")
        /\ b.at \in Seq(FileNames)
    <3> DEFINE t == Target(r)
               d == BaseDepth(fs, r)
    <3>1. d \in 1 .. Len(t) - 1 /\ b.at \in Seq(FileNames)
      BY <1>2, <1>4, <2>2, BaseIs
    <3>2. Len(t) \in Nat
      BY <1>2, <2>2, TargetIs
    <3>3. /\ p \in Seq(FileNames) /\ Len(p) = Len(b.at) + (Len(t) - 1 - d) /\ Len(b.at) >= 1
          /\ top \in Seq(FileNames) /\ Len(top) = Len(p) + 1
          /\ \A n \in 1 .. Len(p) : top[n] = p[n]
          /\ \A n \in 1 .. Len(b.at) : Is(fs, SubSeq(p, 1, n), "dir")
          /\ \A n \in 1 .. Len(p) : n > Len(b.at) => Is(fs, SubSeq(p, 1, n), "none")
          /\ d < Len(t) - 1 => Is(fs, top, "none")
          /\ d = Len(t) - 1 => p = b.at
      BY <1>2, <1>4, <2>2, ParentIs
    <3> HIDE DEF t, d, b, p, top
    <3>4. Len(b.at) \in Nat
      BY <3>1
    <3>5. Len(b.at) <= Len(p) /\ (Len(b.at) # Len(p) => d < Len(t) - 1)
      BY <3>1, <3>2, <3>3, <3>4
    <3> QED BY <3>1, <3>3, <3>5
  <2>5. token[1].fresh => IsPrefix(Root, place) /\ ~IsPrefix(GitDir, place)
    <3> SUFFICES ASSUME token[1].fresh PROVE IsPrefix(Root, place) /\ ~IsPrefix(GitDir, place)
      OBVIOUS
    <3>1. WriteConfined(fs, r)
      BY <1>1 DEF PathsInv, TokenHolds
    <3> QED BY <1>2, <1>4, <2>2, <3>1, WriteStaysInside
  <2>6. ToolsStayInside'
    <3> HIDE DEF place
    <3> QED BY <2>1, <2>5 DEF ToolsStayInside
  <2>7. fs' \in Files
    <3>1. Plain("file") \in PathNode /\ Plain("dir") \in PathNode
      BY EmptyPath DEF Plain, PathNode
    <3> HIDE DEF place, made
    <3> QED BY <1>2, <2>1, <3>1 DEF Files
  <2>8. ~Is(fs, top, "link") => place = top
    BY DEF Follow, Is, IsLink
  <2>9. made = {SubSeq(p, 1, n) : n \in {k \in 1 .. Len(p) : Is(fs, SubSeq(p, 1, k), "none")}}
    <3> DEFINE x == Append(p, "x")
    <3>1. Len(x) = Len(p) + 1 /\ Len(p) \in Nat
      BY <2>4
    <3>2. \A n \in 1 .. Len(p) : SubSeq(x, 1, n) = SubSeq(p, 1, n)
      BY <2>4
    <3>3. 1 .. (Len(x) - 1) = 1 .. Len(p)
      BY <3>1
    <3>4. ParentsOf(x) = {SubSeq(p, 1, n) : n \in 1 .. Len(p)}
      <4> HIDE DEF x
      <4> QED BY <3>2, <3>3 DEF ParentsOf
    <3> HIDE DEF x
    <3> QED BY <3>4 DEF x
  <2> HIDE DEF place, made, p, top, b, r, open
  <2>10. place \in Seq(FileNames) /\ Len(place) \in Nat /\ \A n \in 1 .. Len(place) : SubSeq(place, 1, n) \in Locations
    BY <2>3, LocationsAre
  <2>11. \A m \in Locations : Is(fs, m, "dir") => m # place /\ fs'[m].is = "dir"
    BY <2>1, <2>3 DEF Is, Node, Plain
  <2>12. ASSUME NEW n \in 1 .. Len(p), SubSeq(p, 1, n) \in Locations
         PROVE  fs'[SubSeq(p, 1, n)].is = "dir"
    <3>1. Len(p) \in Nat /\ Len(b.at) \in Nat
      BY <2>4
    <3>2. CASE n <= Len(b.at)
      <4>1. n \in 1 .. Len(b.at)
        BY <3>1, <3>2
      <4> QED BY <2>4, <2>11, <2>12, <4>1
    <3>3. CASE n > Len(b.at)
      <4>1. Is(fs, SubSeq(p, 1, n), "none")
        BY <2>4, <3>3
      <4>2. SubSeq(p, 1, n) \in made
        BY <2>9, <4>1
      <4>3. Len(b.at) # Len(p)
        BY <3>1, <3>3
      <4>4. place = top
        BY <2>4, <2>8, <4>3 DEF Is
      <4>5. Len(SubSeq(p, 1, n)) = n
        BY <2>4
      <4>6. SubSeq(p, 1, n) # place
        BY <2>4, <3>1, <4>4, <4>5
      <4> QED BY <2>1, <2>12, <4>2, <4>6 DEF Plain
    <3> QED BY <3>1, <3>2, <3>3
  <2>13. Tree(fs')
    <3> SUFFICES ASSUME NEW m \in Locations, NEW i \in Nat, fs'[m].is # "none", 1 <= i, i < Len(m)
                 PROVE  fs'[SubSeq(m, 1, i)].is = "dir"
      <4>1. \A m \in Locations, i \in Nat : 1 <= i /\ i < Len(m) => SubSeq(m, 1, i) \in Locations
        BY LocationsAre
      <4> QED BY <4>1 DEF Tree, Is, Node
    <3> DEFINE a == SubSeq(m, 1, i)
    <3>1. m \in Seq(FileNames) /\ Len(m) \in Nat /\ a \in Locations /\ a \in Seq(FileNames) /\ Len(a) = i
      BY LocationsAre
    <3>2. ASSUME NEW n \in 1 .. Len(p), m = SubSeq(p, 1, n) PROVE fs'[a].is = "dir"
      <4>1. a = SubSeq(p, 1, i) /\ i \in 1 .. Len(p)
        BY <2>4, <3>1, <3>2
      <4> HIDE DEF a
      <4> QED BY <2>12, <3>1, <4>1
    <3>3. CASE m = place
      <4>1. Len(m) # 1
        <5> DEFINE k == Len(m)
        <5>1. k \in Nat /\ i \in Nat /\ 1 <= i /\ i < k
          BY <3>1
        <5> HIDE DEF k
        <5>2. k # 1
          BY <5>1
        <5> QED BY <5>2 DEF k
      <4>3. CASE Is(fs, Front(place), "dir")
        <5> DEFINE q == Front(place)
        <5>1. q = SubSeq(m, 1, Len(m) - 1) /\ q \in Seq(FileNames) /\ Len(q) = Len(m) - 1
          BY <3>1, <3>3 DEF Front
        <5>2. q \in Locations /\ Is(fs, q, "dir")
          BY <4>3 DEF Is, Node, Plain
        <5> HIDE DEF q
        <5>3. Is(fs, a, "dir")
          <6>1. CASE i = Len(m) - 1
            BY <5>1, <5>2, <6>1
          <6>2. CASE i < Len(m) - 1
            <7>1. Is(fs, SubSeq(q, 1, i), "dir")
              BY <1>2, <5>1, <5>2, <6>2 DEF Tree, Is, Node
            <7>2. SubSeq(q, 1, i) = a
              BY <3>1, <5>1, <6>2
            <7> QED BY <7>1, <7>2
          <6>3. i = Len(m) - 1 \/ i < Len(m) - 1
            BY <3>1
          <6> QED BY <6>1, <6>2, <6>3
        <5> QED BY <2>11, <3>1, <5>3
      <4>4. CASE Front(place) = p
        <5>1. p = SubSeq(m, 1, Len(m) - 1)
          BY <3>3, <4>4 DEF Front
        <5>2. a = SubSeq(p, 1, i) /\ i \in 1 .. Len(p)
          BY <3>1, <5>1
        <5>3. fs'[SubSeq(p, 1, i)].is = "dir"
          BY <2>12, <3>1, <5>2
        <5> QED BY <5>2, <5>3
      <4> QED BY <2>3, <3>3, <4>1, <4>3, <4>4
    <3>4. CASE m # place /\ m \in made
      BY <2>9, <3>2, <3>4
    <3>5. CASE m # place /\ m \notin made
      <4>1. fs[m].is # "none"
        BY <2>1, <3>5
      <4>2. Is(fs, a, "dir")
        BY <1>2, <3>1, <4>1 DEF Tree
      <4> QED BY <2>11, <3>1, <4>2
    <3> QED BY <3>3, <3>4, <3>5
  <2>14. <<>> \in Seq(PathToken) /\ Len(<<>>) <= 1
    OBVIOUS
  <2> QED BY <1>1, <1>2, <2>6, <2>7, <2>13, <2>14 DEF PathsInv, PathsTypeOK, TokenHolds
<1> QED BY <1>3, <1>4

(* A write keeps the invariant, refused or not. *)
LEMMA WriteFileKeeps == PathsInv /\ WriteFile => PathsInv'
<1> SUFFICES ASSUME PathsInv, WriteFile, token[1].root # Root PROVE PathsInv'
  BY WriteInRootKeeps
<1>1. fs' = fs /\ touched' = {} /\ changes' = changes /\ token' = <<>>
  BY DEF WriteFile, RootsMatch
<1> QED BY <1>1, TokenSpent DEF ToolsStayInside

(***************************************************************************)
(* However a task's commands rearrange the tree with links between two     *)
(* calls, whatever is read, written, searched or taken from a worker on a  *)
(* path still as it was confined lies in the worktree the call is for, by  *)
(* whichever tree's root it was confined, and no write ends                *)
(* in its .git: for every tree, every set of links and requests, and any   *)
(* number of links the file system follows.                                *)
(***************************************************************************)
THEOREM ToolsConfined == PathsSpec => []ToolsStayInside
<1>1. PathsInit => PathsInv
  BY PathsInitially
<1>2. PathsInv /\ [PathsNext]_pathVars => PathsInv'
  <2> SUFFICES ASSUME PathsInv, [PathsNext]_pathVars PROVE PathsInv'
    OBVIOUS
  <2>1. CASE UNCHANGED pathVars
    BY <2>1 DEF pathVars, PathsInv, PathsTypeOK, TokenHolds, ToolsStayInside
  <2>2. CASE PathsNext
    BY <2>2, RearrangeKeeps, ReadFileKeeps, WriteFileKeeps, SearchKeeps, HarvestKeeps, ApplyKeeps, ConfineKeeps
       DEF PathsNext
  <2> QED BY <2>1, <2>2
<1>3. PathsInv => ToolsStayInside
  BY DEF PathsInv
<1> QED BY <1>1, <1>2, <1>3, PTL DEF PathsSpec

=============================================================================
