------------------------------- MODULE PrGate -------------------------------
(***************************************************************************)
(* The approval gate in front of a task that may open a draft PR           *)
(* (crates/crustcore-daemon: handle_action, resolve_pending_pr and         *)
(* pr_approval_match of runtime.rs, ApprovalEngine of telegram.rs).        *)
(*                                                                         *)
(* A launch is parked with a numbered approval; a message with two buttons *)
(* shows the operation to the operators, who tap a button or type a        *)
(* command with a number.  The message may be lost; the launch is parked   *)
(* all the same.  Messages outlive the daemon, its numbers do not.         *)
(*                                                                         *)
(* Every operator whose event gets here is on the allowlist (Poller        *)
(* drops the others), so operators are not told apart.  An operation is    *)
(* the prompt it was made from; SHA-256 is collision free.                 *)
(***************************************************************************)
EXTENDS Integers, Sequences, FiniteSets

CONSTANTS
  Prompt,        \* the tasks operators ask for
  ApprovalTtl,   \* PR_APPROVAL_TTL_MS
  MaxTime,       \* bound on the clock
  MaxApprovals,  \* bound on next_approval_id
  MaxRestarts,   \* bound on the restarts
  MaxLost,       \* bound on the numbers whose message may be lost
  NoPrompt

ASSUME PromptAssumption == NoPrompt \notin Prompt
ASSUME TtlAssumption == ApprovalTtl \in Nat

VARIABLES
  now,               \* the time the loop read at the top of its round
  pending_task,      \* the parked launch: [prompt, approval_id], or NoPrompt
  approvals,         \* ApprovalEngine.pending: id -> [op, expires_at]
  next_approval_id,
  life,              \* number of restarts so far
  asked,             \* history: approvals asked for, and whether the message
                     \* reached the chat: [life, id, op, at, sent]
  settled            \* history: the approvals granted or denied, in order

gateVars == <<now, pending_task, approvals, next_approval_id, life, asked, settled>>

Decision == {"approve", "deny"}

-----------------------------------------------------------------------------
(* ApprovalEngine.                                                         *)

\* Bug: the operation of the button is not compared.
OutcomeUnbound(id, decision, callback_op) ==
  IF id \notin DOMAIN approvals THEN "unknown"
  ELSE IF now > approvals[id].expires_at THEN "expired"
  ELSE decision

\* Bug: an expired approval can still be given.
OutcomeUnexpiring(id, decision, callback_op) ==
  IF id \notin DOMAIN approvals THEN "unknown"
  ELSE IF callback_op # NoPrompt /\ callback_op # approvals[id].op THEN "mismatch"
  ELSE decision

\* What resolve answers; a command carries no operation (NoPrompt).
Outcome(id, decision, callback_op) ==
  IF id \notin DOMAIN approvals THEN "unknown"
  ELSE IF now > approvals[id].expires_at THEN "expired"
  ELSE IF callback_op # NoPrompt /\ callback_op # approvals[id].op THEN "mismatch"
  ELSE decision

\* Bug: an approval can be used again.
ConsumesOnExpiry(outcome) == outcome = "expired"

\* The outcomes that remove the pending approval.
Consumes(outcome) == outcome \in Decision \union {"expired"}

-----------------------------------------------------------------------------
(* Events of one round.                                                    *)

GateInit ==
  /\ now = 0 /\ pending_task = NoPrompt
  /\ approvals = << >> /\ next_approval_id = 1
  /\ life = 0 /\ asked = {} /\ settled = << >>

\* A turn that starts a task: refused while a launch is parked, else a number
\* is taken, the message sent, or lost without notice, and the launch parked.
Ask(prompt, sent) ==
  LET id == next_approval_id
  IN  /\ pending_task = NoPrompt /\ id <= MaxApprovals /\ (sent \/ id <= MaxLost)
      /\ next_approval_id' = id + 1
      /\ approvals' = [i \in DOMAIN approvals \union {id} |->
                         IF i = id
                           THEN [op |-> prompt, expires_at |-> now + ApprovalTtl]
                           ELSE approvals[i]]
      /\ asked' = asked \union
                    {[life |-> life, id |-> id, op |-> prompt, at |-> now, sent |-> sent]}
      /\ pending_task' = [prompt |-> prompt, approval_id |-> id]
      /\ UNCHANGED <<now, life, settled>>

\* An approval event about the number id.  If it names the parked launch it is
\* resolve_pending_pr, which launches on approval, unless all slots are taken,
\* and drops the launch in every case; otherwise dispatch_event resolves it,
\* with no effect but the answer.
Settle(id, decision, callback_op, via, has_slot) ==
  LET outcome == Outcome(id, decision, callback_op)
      parked == pending_task # NoPrompt /\ pending_task.approval_id = id
      starts == parked /\ outcome = "approve" /\ has_slot
  IN  /\ approvals' = IF Consumes(outcome)
                        THEN [i \in DOMAIN approvals \ {id} |-> approvals[i]]
                        ELSE approvals
      /\ pending_task' = IF parked THEN NoPrompt ELSE pending_task
      /\ settled' = IF outcome \notin Decision THEN settled
                    ELSE Append(settled,
                           [life |-> life, id |-> id, via |-> via, at |-> now,
                            launched |-> IF starts THEN pending_task.prompt
                                         ELSE NoPrompt,
                            meant |-> callback_op])
      /\ UNCHANGED <<now, next_approval_id, life, asked>>

\* A tap on a button of the message m, from this life or an earlier one.
Tap(m, decision, has_slot) == Settle(m.id, decision, m.op, "button", has_slot)

\* /approve or /deny with a number, shown or guessed.
Command(id, decision, has_slot) == Settle(id, decision, NoPrompt, "command", has_slot)

NewRound ==
  /\ now < MaxTime /\ now' = now + 1
  /\ UNCHANGED <<pending_task, approvals, next_approval_id, life, asked, settled>>

Restart ==
  /\ life < MaxRestarts /\ life' = life + 1
  /\ pending_task' = NoPrompt /\ approvals' = << >> /\ next_approval_id' = 1
  /\ UNCHANGED <<now, asked, settled>>

GateNext ==
  \/ \E prompt \in Prompt, sent \in BOOLEAN : Ask(prompt, sent)
  \/ \E decision \in Decision, has_slot \in BOOLEAN :
       \/ \E m \in asked : m.sent /\ Tap(m, decision, has_slot)
       \/ \E id \in 1 .. MaxApprovals : Command(id, decision, has_slot)
  \/ NewRound
  \/ Restart

GateSpec == GateInit /\ [][GateNext]_gateVars

-----------------------------------------------------------------------------
(* Properties.                                                             *)

Launches == {i \in 1 .. Len(settled) : settled[i].launched # NoPrompt}

\* An approval is used once: between two starts no number is granted or denied
\* twice, by whatever taps and commands arrive together or again.
SettledOnce ==
  \A i, j \in 1 .. Len(settled) :
    settled[i].life = settled[j].life /\ settled[i].id = settled[j].id => i = j

\* A button starts the task its message showed and no other, also when it is a
\* button of an earlier daemon whose number is in use again.
ButtonStartsWhatItShowed ==
  \A i \in Launches :
    settled[i].via = "button" => settled[i].launched = settled[i].meant

\* A task starts only for the operation this daemon put to the operators under
\* that number, and no later than the approval's lifetime after, counted by the
\* loop's own clock.  A typed number does so although the message that shows the
\* operation was lost: the code parks the launch all the same.
LaunchWasAsked ==
  \A i \in Launches :
    \E m \in asked :
      /\ m.life = settled[i].life /\ m.id = settled[i].id
      /\ m.op = settled[i].launched
      /\ settled[i].at <= m.at + ApprovalTtl

\* runtime.rs: "If the operator doesn't approve within this window the nonce
\* expires and the launch is dropped -- they re-ask."  While a launch is
\* parked, asking again is refused.
ParkedCanBeApproved ==
  pending_task # NoPrompt =>
    /\ pending_task.approval_id \in DOMAIN approvals
    /\ now <= approvals[pending_task.approval_id].expires_at

=============================================================================
