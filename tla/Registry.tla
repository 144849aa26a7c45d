------------------------------ MODULE Registry ------------------------------
(***************************************************************************)
(* The task registry under every sequence of calls its interface admits,   *)
(* with restarts: the dump file of one daemon is adopted by the next, the  *)
(* way the recovery test of registry.rs does.                              *)
(***************************************************************************)
EXTENDS TaskRegistry

CONSTANTS
  Outputs,        \* sizes of the status lines
  MaxTime,        \* bound on the clock
  MaxTasks,       \* bound on the tasks of a behaviour without a restart
  MaxCarried,     \* bound on the tasks of a behaviour with one
  MaxRestarts,    \* bound on the restarts of a behaviour
  None

ASSUME OutputAssumption == Outputs \subseteq Nat

VARIABLES
  reg,       \* the registry
  now,       \* the clock
  dump,      \* the snapshots in the dump file; None when absent or malformed
  toAdopt,   \* snapshots a starting daemon has yet to adopt
  restarts,  \* number of restarts so far
  retired    \* history: how each finalized task ended

vars == <<reg, now, dump, toAdopt, restarts, retired>>

-----------------------------------------------------------------------------
Init ==
  /\ reg = NewRegistry /\ now = 0
  /\ dump = None /\ toAdopt = {} /\ restarts = 0 /\ retired = << >>

\* A call of the supervising loop; a starting daemon adopts first.
Call(r) ==
  /\ toAdopt = {}
  /\ reg' = r
  /\ UNCHANGED <<now, dump, toAdopt, restarts, retired>>

DoAdmit(chat, budget) ==
  /\ HasCapacity(reg)
  /\ reg.next_id <= IF restarts = 0 THEN MaxTasks ELSE MaxCarried
  /\ Call(Admit(reg, chat, budget, now))

DoMarkRunning(id) ==
  reg.slots[id].phase = "Pending" /\ Call(MarkRunning(reg, id, now))
DoProgress(id, output) == Call(ObserveProgress(reg, id, output, now))
DoHeartbeat(id) == Call(Heartbeat(reg, id, now))
DoFinished(id) == Call(ObserveFinished(reg, id))
DoCancel(id, chat) == Call(RequestCancel(reg, id, chat))
DoKill(id, chat) == Call(RequestKill(reg, id, chat))

DoTick ==
  LET tick == Tick(reg, now)
  IN  /\ toAdopt = {}
      /\ reg' = tick.registry
      /\ retired' = [id \in DOMAIN retired \union DOMAIN tick.ended |->
                       IF id \in DOMAIN tick.ended THEN tick.ended[id]
                       ELSE retired[id]]
      /\ UNCHANGED <<now, dump, toAdopt, restarts>>

Advance ==
  /\ now < MaxTime /\ now' = now + 1
  /\ UNCHANGED <<reg, dump, toAdopt, restarts, retired>>

\* The process stops and a new one loads the dump file.  A SIGTERM writes the
\* file first, with one plain write that may be cut short (decode_snapshots
\* refuses the result); a crash leaves the file of an earlier stop in place.
Restart ==
  /\ restarts < MaxRestarts /\ reg.next_id <= MaxCarried + 1
  /\ restarts' = restarts + 1
  /\ reg' = NewRegistry
  /\ dump' \in {SnapshotAll(reg), None, dump}
  /\ toAdopt' = IF dump' = None THEN {} ELSE dump'
  /\ UNCHANGED <<now, retired>>

Adopt(snap) ==
  /\ \E worktree_present \in BOOLEAN :
       reg' = AdoptFromSnapshot(reg, snap, worktree_present, now)
  /\ toAdopt' = toAdopt \ {snap}
  /\ UNCHANGED <<now, dump, restarts, retired>>

Next ==
  \/ \E chat \in ChatId, budget \in Budgets : DoAdmit(chat, budget)
  \/ \E id \in DOMAIN reg.slots :
       \/ DoMarkRunning(id) \/ DoHeartbeat(id) \/ DoFinished(id)
       \/ \E output \in Outputs : DoProgress(id, output)
       \/ \E chat \in ChatId : DoCancel(id, chat) \/ DoKill(id, chat)
  \/ DoTick
  \/ Advance
  \/ Restart
  \/ \E snap \in toAdopt : Adopt(snap)

Spec == Init /\ [][Next]_vars

-----------------------------------------------------------------------------
(* Properties.                                                             *)

\* Until a restart, the scheduler's count is the number of occupied slots and
\* within the cap, whatever kills, cancels, expiries and late finishes overlap
\* in one tick: no slot leaks and none is given back twice.
SchedulerCountsSlots ==
  /\ reg.running \in 0 .. MaxConcurrent
  /\ restarts = 0 => reg.running = Cardinality(DOMAIN reg.slots)

\* No task is metered past its budget, and no millisecond is charged twice:
\* progress lines and ticks of the same instant share one meter.
MetersAreExact ==
  \A id \in DOMAIN reg.slots :
    LET slot == reg.slots[id]
    IN  /\ slot.usage.wall <= slot.budget.max_wall
        /\ slot.usage.output <= slot.budget.max_output
        /\ restarts = 0 =>
             slot.usage.wall = slot.last_charge_at - slot.started_at

\* The first outcome of a task is the one reported: a finish that arrives
\* after a kill, or a kill after a budget breach, does not replace it.
FirstOutcomeWins ==
  restarts' = restarts =>
    \A id \in DOMAIN reg.slots :
      reg.slots[id].phase \in Terminal =>
        IF id \in DOMAIN reg'.slots
          THEN reg'.slots[id].phase = reg.slots[id].phase
          ELSE retired'[id] = reg.slots[id].phase

\* A restart never refunds what a task has spent: an adopted task carries at
\* least the usage its snapshot recorded.
UsageSurvivesRestart ==
  \A snap \in toAdopt :
    snap.id \in DOMAIN reg'.slots =>
      /\ reg'.slots[snap.id].usage.wall >= snap.usage.wall
      /\ reg'.slots[snap.id].usage.output >= snap.usage.output

\* What a task ended as, and what it had used, outlives every later event and
\* every restart (observe_finished, adopt_from_snapshot).
RecordsStand == [][FirstOutcomeWins /\ UsageSurvivesRestart]_vars

=============================================================================
