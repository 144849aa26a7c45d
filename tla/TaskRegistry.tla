---------------------------- MODULE TaskRegistry ----------------------------
(***************************************************************************)
(* The daemon's task registry (crates/crustcore-daemon/src/registry.rs):   *)
(* the pure lifecycle brain of the chat-launched tasks, with the scheduler *)
(* and the per-task budget of supervisor.rs.                               *)
(*                                                                         *)
(* Every operation of TaskRegistry is an operator on a registry value      *)
(*   [slots, running, next_id],                                            *)
(* so that Registry, which drives it through its whole interface, and      *)
(* ServeLoop, which drives it the way the runtime does, share one          *)
(* translation.  A lease's owner and heartbeat_at and a slot's token meter *)
(* are left out: nothing reads them.  Timestamps stay far from u64::MAX,   *)
(* so that saturating_add is +.                                            *)
(***************************************************************************)
EXTENDS Integers, FiniteSets, Functions

CONSTANTS
  MaxConcurrent,  \* the scheduler's cap
  LeaseTtl,       \* LEASE_TTL_MS
  ChatId,         \* the operators' chats
  Budgets         \* the budgets of the tasks: [max_wall, max_output]

ASSUME RegistryAssumption ==
  /\ MaxConcurrent \in Nat /\ LeaseTtl \in Nat
  /\ Budgets \subseteq [max_wall : Nat, max_output : Nat]

-----------------------------------------------------------------------------
(* Slots.                                                                  *)

Active == {"Pending", "Running", "Cancelling"}
Terminal == {"Completed", "Cancelled", "Killed", "Expired", "BudgetExhausted"}
Live(r) == {id \in DOMAIN r.slots : r.slots[id].phase \in Active}

SatSub(a, b) == IF a > b THEN a - b ELSE 0

Refresh(slot, t) == [slot EXCEPT !.expires_at = t + LeaseTtl]
Expired(slot, t) == t > slot.expires_at

\* Bug: the time already charged is charged again with the next line.
ChargeTwice(slot, output, t) ==
  LET next == [wall |-> slot.usage.wall + SatSub(t, slot.last_charge_at),
               output |-> slot.usage.output + output]
  IN  IF next.wall > slot.budget.max_wall
           \/ next.output > slot.budget.max_output
        THEN [slot EXCEPT !.phase = "BudgetExhausted"]
        ELSE [slot EXCEPT !.usage = next]

\* AgentUsage::charge as the registry calls it: a breach is not applied and
\* ends the task.
Charge(slot, output, t) ==
  LET next == [wall |-> slot.usage.wall + SatSub(t, slot.last_charge_at),
               output |-> slot.usage.output + output]
  IN  IF next.wall > slot.budget.max_wall
           \/ next.output > slot.budget.max_output
        THEN [slot EXCEPT !.phase = "BudgetExhausted"]
        ELSE [slot EXCEPT !.usage = next, !.last_charge_at = t]

NewSlot(chat, phase, budget, usage, t) ==
  [chat |-> chat, phase |-> phase, expires_at |-> t + LeaseTtl,
   budget |-> budget, usage |-> usage, started_at |-> t, last_charge_at |-> t]

-----------------------------------------------------------------------------
(* The operations of TaskRegistry.                                         *)

NewRegistry == [slots |-> << >>, running |-> 0, next_id |-> 1]

WithSlot(r, id, slot) ==
  [r EXCEPT !.slots = [i \in DOMAIN @ \union {id} |->
                         IF i = id THEN slot ELSE @[i]]]

\* Scheduler::try_spawn.
HasCapacity(r) == r.running < MaxConcurrent

\* The registry after admit succeeds; the task's id is r.next_id.
Admit(r, chat, budget, t) ==
  [WithSlot(r, r.next_id,
            NewSlot(chat, "Pending", budget, [wall |-> 0, output |-> 0], t))
   EXCEPT !.running = @ + 1, !.next_id = @ + 1]

MarkRunning(r, id, t) ==
  IF id \in DOMAIN r.slots /\ r.slots[id].phase = "Pending"
    THEN WithSlot(r, id, Refresh([r.slots[id] EXCEPT !.phase = "Running"], t))
    ELSE r

ObserveProgress(r, id, output, t) ==
  IF id \in Live(r)
    THEN WithSlot(r, id, Charge(Refresh(r.slots[id], t), output, t))
    ELSE r

Heartbeat(r, id, t) ==
  IF id \in Live(r) THEN WithSlot(r, id, Refresh(r.slots[id], t)) ELSE r

\* Bug: the finish of a killed task counts.
ObserveFinishedLate(r, id) ==
  IF id \in DOMAIN r.slots
    THEN WithSlot(r, id, [r.slots[id] EXCEPT !.phase = "Completed"])
    ELSE r

ObserveFinished(r, id) ==
  IF id \in Live(r)
    THEN WithSlot(r, id, [r.slots[id] EXCEPT !.phase = "Completed"])
    ELSE r

Owns(r, id, chat) == id \in Live(r) /\ r.slots[id].chat = chat

RequestCancel(r, id, chat) ==
  IF Owns(r, id, chat)
    THEN WithSlot(r, id, [r.slots[id] EXCEPT !.phase = "Cancelling"])
    ELSE r

RequestKill(r, id, chat) ==
  IF Owns(r, id, chat)
    THEN WithSlot(r, id, [r.slots[id] EXCEPT !.phase = "Killed"])
    ELSE r

\* The first loop of tick, for one slot.
SuperviseSlot(slot, t) ==
  LET charged == Charge(slot, 0, t)
  IN  CASE slot.phase \in {"Running", "Pending"} ->
             IF charged.phase \in Active /\ Expired(charged, t)
               THEN [charged EXCEPT !.phase = "Expired"]
               ELSE charged
        [] slot.phase = "Cancelling" /\ Expired(slot, t) ->
             [slot EXCEPT !.phase = "Killed"]
        [] OTHER -> slot

\* Bug: the slot of a killed task is not given back.
TickLeaking(r, t) ==
  LET after == [id \in DOMAIN r.slots |-> SuperviseSlot(r.slots[id], t)]
      ended == {id \in DOMAIN after : after[id].phase \in Terminal}
      freed == {id \in ended : after[id].phase # "Killed"}
  IN  [registry |-> [r EXCEPT !.slots = Restrict(after, DOMAIN after \ ended),
                              !.running = SatSub(@, Cardinality(freed))],
       cancel |-> {id \in DOMAIN r.slots : r.slots[id].phase = "Cancelling"},
       ended |-> [id \in ended |-> after[id].phase]]

\* tick: the registry it leaves, the RequestCancel actions, and the finalized
\* tasks with their outcome.
Tick(r, t) ==
  LET after == [id \in DOMAIN r.slots |-> SuperviseSlot(r.slots[id], t)]
      ended == {id \in DOMAIN after : after[id].phase \in Terminal}
  IN  [registry |-> [r EXCEPT !.slots = Restrict(after, DOMAIN after \ ended),
                              !.running = SatSub(@, Cardinality(ended))],
       cancel |-> {id \in DOMAIN r.slots : r.slots[id].phase = "Cancelling"},
       ended |-> [id \in ended |-> after[id].phase]]

\* snapshot_all, as the dump file holds it: what is needed to adopt a task.
SnapshotAll(r) ==
  {[id |-> id, chat |-> r.slots[id].chat, budget |-> r.slots[id].budget,
    usage |-> r.slots[id].usage] : id \in Live(r)}

\* Bug: a task the snapshot carries starts with fresh meters.
AdoptFromSnapshotReset(r, snap, worktree_present, t) ==
  IF snap.id \in DOMAIN r.slots \/ ~ worktree_present THEN r
  ELSE [WithSlot(r, snap.id, NewSlot(snap.chat, "Pending", snap.budget,
                                     [wall |-> 0, output |-> 0], t))
        EXCEPT !.next_id = IF @ <= snap.id THEN snap.id + 1 ELSE @]

\* adopt_from_snapshot: refused for a live id or a missing worktree; a task
\* over its budget is adopted ended.
AdoptFromSnapshot(r, snap, worktree_present, t) ==
  LET over == \/ snap.usage.wall > snap.budget.max_wall
              \/ snap.usage.output > snap.budget.max_output
      phase == IF over THEN "BudgetExhausted" ELSE "Pending"
  IN  IF snap.id \in DOMAIN r.slots \/ ~ worktree_present THEN r
      ELSE [WithSlot(r, snap.id,
                     NewSlot(snap.chat, phase, snap.budget, snap.usage, t))
            EXCEPT !.next_id = IF @ <= snap.id THEN snap.id + 1 ELSE @]

=============================================================================
