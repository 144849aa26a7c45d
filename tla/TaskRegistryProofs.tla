------------------------- MODULE TaskRegistryProofs -------------------------
(***************************************************************************)
(* What the operations of the task registry keep, for any cap, lease,      *)
(* operators and budgets; and induction over the numbers, which what other *)
(* modules loop over needs.  RegistryProofs and ServeLoopProofs rest on    *)
(* both.                                                                   *)
(***************************************************************************)
EXTENDS TaskRegistry, FiniteSetTheorems, WellFoundedInduction, TLAPS

Usage == [wall : Nat, output : Nat]
Budget == [max_wall : Nat, max_output : Nat]

Slot ==
  [chat : ChatId, phase : Active \union Terminal, expires_at : Nat, budget : Budget,
   usage : Usage, started_at : Nat, last_charge_at : Nat]

Snapshot == [id : Nat, chat : ChatId, budget : Budget, usage : Usage]

\* A meter that has not passed its budget; charge refuses the line that would.
Within(usage, budget) ==
  usage.wall <= budget.max_wall /\ usage.output <= budget.max_output

\* A slot as the registry keeps it at time t.
Metered(slot, t) ==
  slot \in Slot /\ Within(slot.usage, slot.budget) /\ slot.last_charge_at <= t

\* The slot was charged exactly the time since it started.
Timed(slot) == slot.usage.wall = slot.last_charge_at - slot.started_at

\* A registry at time t: ids are handed out in order.
IsRegistry(r, t) ==
  /\ r = [slots |-> r.slots, running |-> r.running, next_id |-> r.next_id]
  /\ r.slots = [id \in DOMAIN r.slots |-> r.slots[id]]
  /\ r.running \in 0 .. MaxConcurrent
  /\ r.next_id \in Nat
  /\ IsFiniteSet(DOMAIN r.slots)
  /\ \A id \in DOMAIN r.slots :
       id \in Nat /\ id < r.next_id /\ Metered(r.slots[id], t)

\* A registry that was never restarted.
FirstLife(r) ==
  /\ r.running = Cardinality(DOMAIN r.slots)
  /\ \A id \in DOMAIN r.slots : Timed(r.slots[id])

\* Snapshots of distinct tasks, each within its budget.
IsDump(snaps) ==
  /\ \A snap \in snaps : snap \in Snapshot /\ Within(snap.usage, snap.budget)
  /\ \A snap, other \in snaps : snap.id = other.id => snap = other

-----------------------------------------------------------------------------
(* Slots.                                                                  *)

\* A charge keeps a slot metered up to the charge's own time, keeps what was
\* charged exact, and either applies or ends the task.
LEMMA ChargeMeters ==
  ASSUME NEW slot, NEW t \in Nat, NEW output \in Nat, Metered(slot, t)
  PROVE  LET charged == Charge(slot, output, t)
         IN  /\ Metered(charged, t)
             /\ Timed(slot) => Timed(charged)
             /\ charged.phase \in {slot.phase, "BudgetExhausted"}
             /\ charged.usage.wall >= slot.usage.wall
             /\ charged.usage.output >= slot.usage.output
<1> DEFINE next == [wall |-> slot.usage.wall + SatSub(t, slot.last_charge_at),
                    output |-> slot.usage.output + output]
<1>1. /\ next \in Usage
      /\ next.wall = slot.usage.wall + (t - slot.last_charge_at)
      /\ next.output = slot.usage.output + output
  BY DEF Metered, Slot, Usage, SatSub
<1>2. CASE next.wall > slot.budget.max_wall \/ next.output > slot.budget.max_output
  <2>1. Charge(slot, output, t) = [slot EXCEPT !.phase = "BudgetExhausted"]
    BY <1>2 DEF Charge
  <2> QED
    BY <2>1 DEF Metered, Slot, Usage, Budget, Within, Timed, Terminal
<1>3. CASE ~ (next.wall > slot.budget.max_wall \/ next.output > slot.budget.max_output)
  <2>1. Charge(slot, output, t) = [slot EXCEPT !.usage = next, !.last_charge_at = t]
    BY <1>3 DEF Charge
  <2> DEFINE charged == [slot EXCEPT !.usage = next, !.last_charge_at = t]
  <2> HIDE DEF next
  <2>2. /\ slot \in Slot /\ slot.last_charge_at \in Nat /\ slot.started_at \in Nat
        /\ slot.budget.max_wall \in Nat /\ slot.budget.max_output \in Nat
        /\ slot.usage.wall \in Nat /\ slot.usage.output \in Nat
        /\ slot.last_charge_at <= t
    BY DEF Metered, Slot, Usage, Budget
  <2>3. /\ charged \in Slot /\ charged.usage = next /\ charged.last_charge_at = t
        /\ charged.budget = slot.budget /\ charged.phase = slot.phase
        /\ charged.started_at = slot.started_at
    BY <1>1, <2>2 DEF Slot
  <2>4. next.wall \in Nat /\ next.output \in Nat
    BY <1>1 DEF Usage
  <2> HIDE DEF charged
  <2>5. Metered(charged, t)
    BY <1>3, <2>2, <2>3, <2>4 DEF Metered, Within
  <2>6. Timed(slot) => Timed(charged)
    BY <1>1, <2>2, <2>3 DEF Timed
  <2>7. next.wall >= slot.usage.wall /\ next.output >= slot.usage.output
    BY <1>1, <2>2
  <2> QED
    BY <2>1, <2>3, <2>5, <2>6, <2>7 DEF charged
<1> QED
  BY <1>2, <1>3

\* A heartbeat moves only the lease.
LEMMA RefreshMeters ==
  ASSUME NEW slot, NEW t \in Nat, Metered(slot, t)
  PROVE  /\ Metered(Refresh(slot, t), t)
         /\ Timed(slot) => Timed(Refresh(slot, t))
         /\ Refresh(slot, t).phase = slot.phase
         /\ Refresh(slot, t).usage = slot.usage
BY RegistryAssumption DEF Metered, Slot, Within, Timed, Refresh

\* A change of phase moves no meter.
LEMMA PhaseMeters ==
  ASSUME NEW slot, NEW t \in Nat, NEW phase \in Active \union Terminal, Metered(slot, t)
  PROVE  LET moved == [slot EXCEPT !.phase = phase]
         IN  /\ Metered(moved, t) /\ moved.phase = phase
             /\ Timed(slot) => Timed(moved)
             /\ moved.usage = slot.usage
BY DEF Metered, Slot, Within, Timed

\* What tick makes of one slot: an ended one is left as it is.
LEMMA SuperviseMeters ==
  ASSUME NEW slot, NEW t \in Nat, Metered(slot, t)
  PROVE  LET after == SuperviseSlot(slot, t)
         IN  /\ Metered(after, t)
             /\ Timed(slot) => Timed(after)
             /\ slot.phase \in Terminal => after = slot
<1> DEFINE charged == Charge(slot, 0, t)
<1>1. Metered(charged, t) /\ (Timed(slot) => Timed(charged))
  BY ChargeMeters
<1> HIDE DEF charged
<1>2. CASE slot.phase \in {"Running", "Pending"}
  <2>1. SuperviseSlot(slot, t) \in {[charged EXCEPT !.phase = "Expired"], charged}
    BY <1>2 DEF SuperviseSlot, charged
  <2>2. "Expired" \in Active \union Terminal
    BY DEF Terminal
  <2>3. LET moved == [charged EXCEPT !.phase = "Expired"]
        IN  Metered(moved, t) /\ (Timed(charged) => Timed(moved))
    BY <1>1, <2>2, PhaseMeters
  <2> QED
    BY <1>1, <1>2, <2>1, <2>3 DEF Terminal
<1>3. CASE slot.phase = "Cancelling" /\ Expired(slot, t)
  <2>1. SuperviseSlot(slot, t) = [slot EXCEPT !.phase = "Killed"]
    BY <1>3 DEF SuperviseSlot
  <2>2. "Killed" \in Active \union Terminal
    BY DEF Terminal
  <2> QED
    BY <1>3, <2>1, <2>2, PhaseMeters DEF Terminal
<1>4. CASE ~ (slot.phase \in {"Running", "Pending"} \/ (slot.phase = "Cancelling" /\ Expired(slot, t)))
  <2>1. SuperviseSlot(slot, t) = slot
    BY <1>4 DEF SuperviseSlot
  <2> QED
    BY <2>1
<1> QED
  BY <1>2, <1>3, <1>4

-----------------------------------------------------------------------------
(* Registries.                                                             *)

\* What the write of a slot leaves.
LEMMA WithSlotWrites ==
  ASSUME NEW r, NEW t \in Nat, NEW id, NEW slot, IsRegistry(r, t),
         NEW q, q = WithSlot(r, id, slot)
  PROVE  /\ q.running = r.running /\ q.next_id = r.next_id
         /\ DOMAIN q.slots = DOMAIN r.slots \union {id}
         /\ q.slots[id] = slot
         /\ \A i \in DOMAIN r.slots : i # id => q.slots[i] = r.slots[i]
BY DEF WithSlot, IsRegistry

LEMMA WithSlotShape ==
  ASSUME NEW r, NEW t \in Nat, NEW id, NEW slot, IsRegistry(r, t),
         NEW q, q = WithSlot(r, id, slot)
  PROVE  /\ q = [slots |-> q.slots, running |-> q.running, next_id |-> q.next_id]
         /\ q.slots = [i \in DOMAIN q.slots |-> q.slots[i]]
         /\ IsFiniteSet(DOMAIN q.slots)
<1>1. IsFiniteSet(DOMAIN q.slots)
  BY WithSlotWrites, FS_AddElement DEF IsRegistry
<1> QED
  BY <1>1 DEF WithSlot, IsRegistry

\* Writing a metered slot, at an id already handed out, leaves a registry.
LEMMA WithSlotKeeps ==
  ASSUME NEW r, NEW t \in Nat, NEW id \in Nat, NEW slot, IsRegistry(r, t), Metered(slot, t),
         id < r.next_id
  PROVE  IsRegistry(WithSlot(r, id, slot), t)
<1> DEFINE q == WithSlot(r, id, slot)
<1> HIDE DEF q
<1>1. q = WithSlot(r, id, slot)
  BY DEF q
<1>2. /\ q.running = r.running /\ q.next_id = r.next_id
      /\ DOMAIN q.slots = DOMAIN r.slots \union {id}
      /\ q.slots[id] = slot
      /\ \A i \in DOMAIN r.slots : i # id => q.slots[i] = r.slots[i]
  BY <1>1, WithSlotWrites
<1>3. /\ q = [slots |-> q.slots, running |-> q.running, next_id |-> q.next_id]
      /\ q.slots = [i \in DOMAIN q.slots |-> q.slots[i]]
      /\ IsFiniteSet(DOMAIN q.slots)
  BY <1>1, WithSlotShape
<1> QED
  BY <1>1, <1>2, <1>3 DEF IsRegistry

\* q is r, or r with one live slot replaced by one metered as exactly: what
\* every call but admit, tick and adopt does.
Touched(r, q, t) ==
  \/ q = r
  \/ \E id \in Live(r), slot \in Slot :
       /\ q = WithSlot(r, id, slot)
       /\ Metered(slot, t)
       /\ Timed(r.slots[id]) => Timed(slot)

\* Such a call keeps the registry, its count of slots and the ended tasks.
LEMMA TouchedKeeps ==
  ASSUME NEW r, NEW q, NEW t \in Nat, IsRegistry(r, t), Touched(r, q, t)
  PROVE  /\ IsRegistry(q, t) /\ DOMAIN q.slots = DOMAIN r.slots
         /\ FirstLife(r) => FirstLife(q)
         /\ \A id \in DOMAIN r.slots :
              r.slots[id].phase \in Terminal => q.slots[id] = r.slots[id]
<1>1. CASE q = r
  BY <1>1
<1>2. CASE q # r
  <2>1. PICK id \in Live(r), slot \in Slot :
          /\ q = WithSlot(r, id, slot)
          /\ Metered(slot, t)
          /\ Timed(r.slots[id]) => Timed(slot)
    BY <1>2 DEF Touched
  <2>2. /\ id \in DOMAIN r.slots /\ id \in Nat /\ id < r.next_id
        /\ r.slots[id].phase \notin Terminal
    BY DEF Live, IsRegistry, Active, Terminal
  <2>3. /\ q.running = r.running /\ q.slots[id] = slot
        /\ DOMAIN q.slots = DOMAIN r.slots \union {id}
        /\ \A i \in DOMAIN r.slots : i # id => q.slots[i] = r.slots[i]
        /\ IsRegistry(q, t)
    <3>1. q = WithSlot(r, id, slot) /\ Metered(slot, t) /\ id \in Nat /\ id < r.next_id
      BY <2>1, <2>2
    <3> QED
      BY <3>1, WithSlotWrites, WithSlotKeeps
  <2>4. DOMAIN q.slots = DOMAIN r.slots
    BY <2>2, <2>3
  <2>5. FirstLife(r) => FirstLife(q)
    BY <2>1, <2>2, <2>3, <2>4 DEF FirstLife
  <2> QED
    BY <2>2, <2>3, <2>4, <2>5
<1> QED
  BY <1>1, <1>2

\* The calls that touch one slot.
LEMMA CallsTouch ==
  ASSUME NEW r, NEW t \in Nat, NEW id, IsRegistry(r, t)
  PROVE  /\ Touched(r, MarkRunning(r, id, t), t)
         /\ \A output \in Nat : Touched(r, ObserveProgress(r, id, output, t), t)
         /\ Touched(r, Heartbeat(r, id, t), t)
         /\ Touched(r, ObserveFinished(r, id), t)
         /\ \A chat : Touched(r, RequestCancel(r, id, chat), t)
         /\ \A chat : Touched(r, RequestKill(r, id, chat), t)
<1> DEFINE slot == r.slots[id]
<1>1. CASE id \notin Live(r)
  BY <1>1 DEF Touched, MarkRunning, ObserveProgress, Heartbeat, ObserveFinished,
       RequestCancel, RequestKill, Owns, Live, Active
<1>2. CASE id \in Live(r)
  <2>1. Metered(slot, t) /\ id \in DOMAIN r.slots
    BY <1>2 DEF IsRegistry, Live
  <2> HIDE DEF slot
  <2>2. /\ Metered(Refresh(slot, t), t) /\ Refresh(slot, t) \in Slot
        /\ Timed(slot) => Timed(Refresh(slot, t))
    BY <2>1, RefreshMeters DEF Metered
  <2>3. \A phase \in Active \union Terminal :
          /\ Metered([slot EXCEPT !.phase = phase], t) /\ [slot EXCEPT !.phase = phase] \in Slot
          /\ Timed(slot) => Timed([slot EXCEPT !.phase = phase])
    BY <2>1, PhaseMeters DEF Metered
  <2>4. \A to : /\ Metered(to, t) /\ (Timed(slot) => Timed(to))
                => Touched(r, WithSlot(r, id, to), t)
    BY <1>2 DEF Touched, Metered, slot
  <2>5. Touched(r, MarkRunning(r, id, t), t)
    <3> DEFINE running == [slot EXCEPT !.phase = "Running"]
    <3>1. Metered(running, t) /\ (Timed(slot) => Timed(running))
      BY <2>3 DEF Active
    <3> HIDE DEF running
    <3>2. Metered(Refresh(running, t), t) /\ (Timed(slot) => Timed(Refresh(running, t)))
      BY <3>1, RefreshMeters
    <3>3. Touched(r, WithSlot(r, id, Refresh(running, t)), t)
      BY <2>4, <3>2
    <3> QED
      BY <3>3 DEF MarkRunning, Touched, slot, running
  <2>6. ASSUME NEW output \in Nat
        PROVE  Touched(r, ObserveProgress(r, id, output, t), t)
    <3> DEFINE to == Charge(Refresh(slot, t), output, t)
    <3>1. Metered(to, t) /\ (Timed(slot) => Timed(to))
      BY <2>2, ChargeMeters
    <3>2. Touched(r, WithSlot(r, id, to), t)
      BY <2>4, <3>1
    <3> QED
      BY <1>2, <3>2 DEF ObserveProgress, slot
  <2>7. Touched(r, Heartbeat(r, id, t), t)
    BY <1>2, <2>2, <2>4 DEF Heartbeat, slot
  <2>8. \A phase \in Active \union Terminal :
          Touched(r, WithSlot(r, id, [slot EXCEPT !.phase = phase]), t)
    BY <2>3, <2>4
  <2>9. Touched(r, ObserveFinished(r, id), t)
    BY <1>2, <2>8 DEF ObserveFinished, slot, Terminal
  <2>10. ASSUME NEW chat
         PROVE  /\ Touched(r, RequestCancel(r, id, chat), t)
                /\ Touched(r, RequestKill(r, id, chat), t)
    <3>1. Touched(r, WithSlot(r, id, [slot EXCEPT !.phase = "Cancelling"]), t)
      BY <2>8 DEF Active
    <3>2. Touched(r, WithSlot(r, id, [slot EXCEPT !.phase = "Killed"]), t)
      BY <2>8 DEF Terminal
    <3>3. Touched(r, r, t)
      BY DEF Touched
    <3> QED
      BY <3>1, <3>2, <3>3 DEF RequestCancel, RequestKill, slot
  <2> QED
    BY <2>5, <2>6, <2>7, <2>9, <2>10
<1> QED
  BY <1>1, <1>2

\* A slot made now, from meters within their budget.
LEMMA NewSlotMeters ==
  ASSUME NEW chat \in ChatId, NEW phase \in Active \union Terminal, NEW budget \in Budget,
         NEW usage \in Usage, NEW t \in Nat, Within(usage, budget)
  PROVE  LET slot == NewSlot(chat, phase, budget, usage, t)
         IN  Metered(slot, t) /\ slot.usage = usage /\ (usage.wall = 0 => Timed(slot))
BY RegistryAssumption DEF NewSlot, Metered, Slot, Timed, Usage

\* admit: one slot more, under an id no task has.
LEMMA AdmitKeeps ==
  ASSUME NEW r, NEW t \in Nat, NEW chat \in ChatId, NEW budget \in Budget,
         IsRegistry(r, t), HasCapacity(r),
         NEW q, q = Admit(r, chat, budget, t)
  PROVE  /\ IsRegistry(q, t)
         /\ FirstLife(r) => FirstLife(q)
         /\ \A id \in DOMAIN r.slots : id \in DOMAIN q.slots /\ q.slots[id] = r.slots[id]
<1> DEFINE usage == [wall |-> 0, output |-> 0]
           slot == NewSlot(chat, "Pending", budget, usage, t)
           w == WithSlot(r, r.next_id, slot)
<1>1. Metered(slot, t) /\ Timed(slot)
  <2>1. usage \in Usage /\ Within(usage, budget) /\ usage.wall = 0
    BY DEF Usage, Within, Budget
  <2> HIDE DEF usage
  <2>2. "Pending" \in Active \union Terminal
    BY DEF Active
  <2> QED
    BY <2>1, <2>2, NewSlotMeters
<1>2. q = [w EXCEPT !.running = @ + 1, !.next_id = @ + 1]
  BY DEF Admit
<1> HIDE DEF slot, usage
<1>3. r.next_id \in Nat /\ r.next_id \notin DOMAIN r.slots
  BY DEF IsRegistry
<1>4. w = WithSlot(r, r.next_id, slot)
  OBVIOUS
<1> HIDE DEF w
<1>5. /\ w.running = r.running /\ w.next_id = r.next_id
      /\ DOMAIN w.slots = DOMAIN r.slots \union {r.next_id}
      /\ w.slots[r.next_id] = slot
      /\ \A i \in DOMAIN r.slots : i # r.next_id => w.slots[i] = r.slots[i]
  BY <1>4, WithSlotWrites
<1>6. /\ w = [slots |-> w.slots, running |-> w.running, next_id |-> w.next_id]
      /\ w.slots = [i \in DOMAIN w.slots |-> w.slots[i]]
      /\ IsFiniteSet(DOMAIN w.slots)
  BY <1>4, WithSlotShape
<1>7. q = [slots |-> w.slots, running |-> r.running + 1, next_id |-> r.next_id + 1]
  BY <1>2, <1>5, <1>6
<1>8. q.slots = w.slots /\ q.running = r.running + 1 /\ q.next_id = r.next_id + 1
  BY <1>7
<1>9. q.running \in 0 .. MaxConcurrent /\ q.next_id \in Nat
  BY <1>8, RegistryAssumption DEF IsRegistry, HasCapacity
<1>10. \A id \in DOMAIN q.slots : id \in Nat /\ id < q.next_id /\ Metered(q.slots[id], t)
  BY <1>1, <1>3, <1>5, <1>8 DEF IsRegistry
<1>11. IsRegistry(q, t)
  BY <1>6, <1>7, <1>8, <1>9, <1>10 DEF IsRegistry
<1>12. FirstLife(r) => FirstLife(q)
  <2>1. Cardinality(DOMAIN q.slots) = Cardinality(DOMAIN r.slots) + 1
    BY <1>3, <1>5, <1>8, FS_AddElement DEF IsRegistry
  <2> QED
    BY <1>1, <1>3, <1>5, <1>8, <2>1 DEF FirstLife
<1> QED
  BY <1>3, <1>5, <1>8, <1>11, <1>12

\* tick: every ended slot is taken out and given back to the scheduler.
LEMMA TickKeeps ==
  ASSUME NEW r, NEW t \in Nat, IsRegistry(r, t), NEW q, q = Tick(r, t).registry
  PROVE  /\ IsRegistry(q, t)
         /\ FirstLife(r) => FirstLife(q)
         /\ \A id \in DOMAIN r.slots :
              r.slots[id].phase \in Terminal =>
                /\ id \notin DOMAIN q.slots
                /\ id \in DOMAIN Tick(r, t).ended
                /\ Tick(r, t).ended[id] = r.slots[id].phase
<1> DEFINE after == [id \in DOMAIN r.slots |-> SuperviseSlot(r.slots[id], t)]
           ended == {id \in DOMAIN after : after[id].phase \in Terminal}
           kept == DOMAIN r.slots \ ended
<1>1. q = [r EXCEPT !.slots = Restrict(after, DOMAIN after \ ended),
                    !.running = SatSub(@, Cardinality(ended))]
  BY DEF Tick
<1>2. Tick(r, t).ended = [id \in ended |-> after[id].phase]
  BY DEF Tick
<1>3. /\ DOMAIN after = DOMAIN r.slots
      /\ \A id \in DOMAIN r.slots : after[id] = SuperviseSlot(r.slots[id], t)
  OBVIOUS
<1>4. \A id \in DOMAIN r.slots :
        /\ Metered(after[id], t)
        /\ Timed(r.slots[id]) => Timed(after[id])
        /\ r.slots[id].phase \in Terminal => after[id] = r.slots[id]
  BY <1>3, SuperviseMeters DEF IsRegistry
<1> HIDE DEF after
<1>5. /\ q.slots = [id \in kept |-> after[id]]
      /\ q.running = SatSub(r.running, Cardinality(ended))
      /\ q.next_id = r.next_id
      /\ q = [slots |-> q.slots, running |-> q.running, next_id |-> q.next_id]
  BY <1>1, <1>3 DEF IsRegistry, Restrict
<1>6. ended \subseteq DOMAIN r.slots /\ kept \subseteq DOMAIN r.slots
  BY <1>3
<1>7. \A id \in DOMAIN r.slots : r.slots[id].phase \in Terminal => id \in ended /\ id \notin kept
  BY <1>3, <1>4
<1>8. /\ IsFiniteSet(ended) /\ IsFiniteSet(kept)
      /\ Cardinality(ended) \in Nat /\ Cardinality(kept) \in Nat
      /\ Cardinality(DOMAIN r.slots) = Cardinality(kept) + Cardinality(ended)
  <2>1. IsFiniteSet(DOMAIN r.slots)
    BY DEF IsRegistry
  <2>2. kept \union ended = DOMAIN r.slots /\ kept \cap ended = {}
    BY <1>6
  <2>3. IsFiniteSet(ended) /\ IsFiniteSet(kept)
    BY <1>6, <2>1, FS_Subset
  <2> HIDE DEF kept, ended
  <2>4. Cardinality(ended) \in Nat /\ Cardinality(kept) \in Nat
    BY <2>3, FS_CardinalityType
  <2>5. Cardinality(kept \union ended)
          = Cardinality(kept) + Cardinality(ended) - Cardinality(kept \cap ended)
    BY <2>3, FS_Union
  <2>6. Cardinality(kept \cap ended) = 0
    BY <2>2, FS_EmptySet
  <2>7. Cardinality(DOMAIN r.slots) = Cardinality(kept) + Cardinality(ended)
    <3> DEFINE all == kept \union ended
               both == kept \cap ended
    <3>1. Cardinality(all) = Cardinality(kept) + Cardinality(ended) - Cardinality(both)
          /\ Cardinality(both) = 0
      BY <2>5, <2>6
    <3>2. all = DOMAIN r.slots
      BY <2>2
    <3> HIDE DEF all, both
    <3> QED
      BY <2>4, <3>1, <3>2
  <2> QED
    BY <2>3, <2>4, <2>7
<1>9. \A id \in ended : [i \in ended |-> after[i].phase][id] = after[id].phase
  OBVIOUS
<1> HIDE DEF ended
<1>10. DOMAIN q.slots = kept /\ \A id \in kept : q.slots[id] = after[id]
  BY <1>5
<1> HIDE DEF kept
<1>11. q.running \in 0 .. MaxConcurrent
  BY <1>5, <1>8, RegistryAssumption DEF SatSub, IsRegistry
<1>12. q.slots = [id \in DOMAIN q.slots |-> q.slots[id]]
  BY <1>5, <1>10
<1>13. IsRegistry(q, t)
  BY <1>4, <1>5, <1>6, <1>8, <1>10, <1>11, <1>12 DEF IsRegistry
<1>14. FirstLife(r) => FirstLife(q)
  BY <1>4, <1>5, <1>6, <1>8, <1>10 DEF FirstLife, SatSub
<1> QED
  BY <1>2, <1>4, <1>7, <1>9, <1>10, <1>13, <1>14

\* adopt_from_snapshot: a snapshot's task comes back with the usage recorded.
LEMMA AdoptKeeps ==
  ASSUME NEW r, NEW t \in Nat, NEW snap \in Snapshot, NEW present \in BOOLEAN,
         IsRegistry(r, t), Within(snap.usage, snap.budget),
         NEW q, q = AdoptFromSnapshot(r, snap, present, t), snap.id \notin DOMAIN r.slots
  PROVE  /\ IsRegistry(q, t)
         /\ DOMAIN q.slots \subseteq DOMAIN r.slots \union {snap.id}
         /\ snap.id \in DOMAIN q.slots => q.slots[snap.id].usage = snap.usage
         /\ \A id \in DOMAIN r.slots : id \in DOMAIN q.slots /\ q.slots[id] = r.slots[id]
<1>1. CASE ~ present
  BY <1>1 DEF AdoptFromSnapshot
<1>2. CASE present
  <2> DEFINE slot == NewSlot(snap.chat, "Pending", snap.budget, snap.usage, t)
             w == WithSlot(r, snap.id, slot)
  <2>1. /\ snap.id \in Nat /\ snap.chat \in ChatId /\ snap.budget \in Budget
        /\ snap.usage \in Usage
    BY DEF Snapshot
  <2>2. ~ (snap.usage.wall > snap.budget.max_wall \/ snap.usage.output > snap.budget.max_output)
    BY <2>1 DEF Within, Usage, Budget
  <2>3. Metered(slot, t) /\ slot.usage = snap.usage
    <3>1. "Pending" \in Active \union Terminal
      BY DEF Active
    <3> QED
      BY <2>1, <3>1, NewSlotMeters
  <2>4. q = [w EXCEPT !.next_id = IF @ <= snap.id THEN snap.id + 1 ELSE @]
    BY <1>2, <2>2 DEF AdoptFromSnapshot
  <2> HIDE DEF slot
  <2>5. w = WithSlot(r, snap.id, slot)
    OBVIOUS
  <2> HIDE DEF w
  <2>6. /\ w.running = r.running /\ w.next_id = r.next_id
        /\ DOMAIN w.slots = DOMAIN r.slots \union {snap.id}
        /\ w.slots[snap.id] = slot
        /\ \A i \in DOMAIN r.slots : i # snap.id => w.slots[i] = r.slots[i]
    BY <2>5, WithSlotWrites
  <2>7. /\ w = [slots |-> w.slots, running |-> w.running, next_id |-> w.next_id]
        /\ w.slots = [i \in DOMAIN w.slots |-> w.slots[i]]
        /\ IsFiniteSet(DOMAIN w.slots)
    BY <2>5, WithSlotShape
  <2> DEFINE top == IF r.next_id <= snap.id THEN snap.id + 1 ELSE r.next_id
  <2>8. q = [slots |-> w.slots, running |-> r.running, next_id |-> top]
    BY <2>4, <2>6, <2>7
  <2>9. top \in Nat /\ snap.id < top /\ top >= r.next_id
    BY <2>1 DEF IsRegistry
  <2> HIDE DEF top
  <2>10. q.slots = w.slots /\ q.running = r.running /\ q.next_id = top
    BY <2>8
  <2>11. \A id \in DOMAIN q.slots : id \in Nat /\ id < q.next_id /\ Metered(q.slots[id], t)
    BY <2>1, <2>3, <2>6, <2>9, <2>10 DEF IsRegistry
  <2>12. IsRegistry(q, t)
    BY <2>7, <2>8, <2>9, <2>10, <2>11 DEF IsRegistry
  <2> QED
    BY <2>3, <2>6, <2>10, <2>12
<1> QED
  BY <1>1, <1>2

\* The dump holds each live task once, within its budget.
LEMMA DumpIsSound ==
  ASSUME NEW r, NEW t, IsRegistry(r, t)
  PROVE  IsDump(SnapshotAll(r))
BY DEF IsDump, SnapshotAll, IsRegistry, Metered, Slot, Snapshot, Live

\* Time passes without a call.
LEMMA RegistryAges ==
  ASSUME NEW r, NEW t \in Nat, NEW u \in Nat, t <= u, IsRegistry(r, t)
  PROVE  IsRegistry(r, u)
BY DEF IsRegistry, Metered, Slot

\* A task that is told of a line ends only by breaching its budget.
LEMMA ProgressMoves ==
  ASSUME NEW r, NEW t \in Nat, NEW id, NEW output \in Nat, IsRegistry(r, t),
         NEW q, q = ObserveProgress(r, id, output, t), NEW i \in DOMAIN r.slots
  PROVE  /\ q.slots[i].phase \in {r.slots[i].phase, "BudgetExhausted"}
         /\ i # id => q.slots[i] = r.slots[i]
<1>1. CASE id \notin Live(r)
  BY <1>1 DEF ObserveProgress
<1>2. CASE id \in Live(r)
  <2> DEFINE to == Charge(Refresh(r.slots[id], t), output, t)
  <2>1. id \in DOMAIN r.slots /\ Metered(r.slots[id], t)
    BY <1>2 DEF Live, IsRegistry
  <2>2. Metered(Refresh(r.slots[id], t), t) /\ Refresh(r.slots[id], t).phase = r.slots[id].phase
    BY <2>1, RefreshMeters
  <2>3. to.phase \in {r.slots[id].phase, "BudgetExhausted"}
    BY <2>2, ChargeMeters
  <2>4. q = WithSlot(r, id, to)
    BY <1>2 DEF ObserveProgress
  <2> HIDE DEF to
  <2> QED
    BY <2>1, <2>3, <2>4, WithSlotWrites
<1> QED
  BY <1>1, <1>2

\* A heartbeat keeps the phase and starts the lease over.
LEMMA HeartbeatMoves ==
  ASSUME NEW r, NEW t \in Nat, NEW id, IsRegistry(r, t),
         NEW q, q = Heartbeat(r, id, t), NEW i \in DOMAIN r.slots
  PROVE  /\ q.slots[i].phase = r.slots[i].phase
         /\ i # id => q.slots[i] = r.slots[i]
         /\ i = id /\ r.slots[i].phase \in Active => q.slots[i].expires_at >= t
<1>1. CASE id \notin Live(r)
  BY <1>1 DEF Heartbeat, Live
<1>2. CASE id \in Live(r)
  <2> DEFINE to == Refresh(r.slots[id], t)
  <2>1. id \in DOMAIN r.slots /\ r.slots[id] \in Slot
    BY <1>2 DEF Live, IsRegistry, Metered
  <2>2. to.phase = r.slots[id].phase /\ to.expires_at >= t
    BY <2>1, RegistryAssumption DEF Refresh, Slot
  <2>3. q = WithSlot(r, id, to)
    BY <1>2 DEF Heartbeat
  <2> HIDE DEF to
  <2> QED
    BY <2>1, <2>2, <2>3, WithSlotWrites
<1> QED
  BY <1>1, <1>2

\* The finish of a live task completes it.
LEMMA FinishMoves ==
  ASSUME NEW r, NEW t \in Nat, NEW id, IsRegistry(r, t),
         NEW q, q = ObserveFinished(r, id), NEW i \in DOMAIN r.slots
  PROVE  /\ q.slots[i].phase \in {r.slots[i].phase, "Completed"}
         /\ i # id => q.slots[i] = r.slots[i]
         /\ i = id => q.slots[i].phase \notin Active
<1>1. CASE id \notin Live(r)
  BY <1>1 DEF ObserveFinished, Live
<1>2. CASE id \in Live(r)
  <2> DEFINE to == [r.slots[id] EXCEPT !.phase = "Completed"]
  <2>1. id \in DOMAIN r.slots /\ r.slots[id] \in Slot
    BY <1>2 DEF Live, IsRegistry, Metered
  <2>2. to.phase = "Completed" /\ "Completed" \notin Active
    BY <2>1 DEF Slot, Active
  <2>3. q = WithSlot(r, id, to)
    BY <1>2 DEF ObserveFinished
  <2> HIDE DEF to
  <2> QED
    BY <2>1, <2>2, <2>3, WithSlotWrites
<1> QED
  BY <1>1, <1>2

\* A cancel and a kill move the phase of the operator's own task.
LEMMA StopMoves ==
  ASSUME NEW r, NEW t \in Nat, NEW id, NEW chat, IsRegistry(r, t),
         NEW q, q = RequestCancel(r, id, chat) \/ q = RequestKill(r, id, chat),
         NEW i \in DOMAIN r.slots
  PROVE  q.slots[i].phase \in {r.slots[i].phase, "Cancelling", "Killed"}
<1>1. CASE ~ Owns(r, id, chat)
  BY <1>1 DEF RequestCancel, RequestKill
<1>2. CASE Owns(r, id, chat)
  <2>1. r.slots[id] \in Slot
    BY <1>2 DEF Owns, Live, IsRegistry, Metered
  <2>2. PICK to : q = WithSlot(r, id, to) /\ to.phase \in {"Cancelling", "Killed"}
    BY <1>2, <2>1 DEF RequestCancel, RequestKill, Slot
  <2> QED
    BY <2>2, WithSlotWrites
<1> QED
  BY <1>1, <1>2

\* admit adds one slot and moves none.
LEMMA AdmitAdds ==
  ASSUME NEW r, NEW t \in Nat, NEW chat, NEW budget, IsRegistry(r, t),
         NEW q, q = Admit(r, chat, budget, t)
  PROVE  /\ DOMAIN q.slots = DOMAIN r.slots \union {r.next_id}
         /\ q.slots[r.next_id].phase = "Pending"
<1> DEFINE slot == NewSlot(chat, "Pending", budget, [wall |-> 0, output |-> 0], t)
           w == WithSlot(r, r.next_id, slot)
<1>1. slot.phase = "Pending"
  BY DEF NewSlot
<1>2. q = [w EXCEPT !.running = @ + 1, !.next_id = @ + 1]
  BY DEF Admit
<1> HIDE DEF slot
<1>3. w = WithSlot(r, r.next_id, slot)
  OBVIOUS
<1> HIDE DEF w
<1>4. DOMAIN w.slots = DOMAIN r.slots \union {r.next_id} /\ w.slots[r.next_id] = slot
  BY <1>3, WithSlotWrites
<1>5. /\ w = [slots |-> w.slots, running |-> w.running, next_id |-> w.next_id]
      /\ w.slots = [i \in DOMAIN w.slots |-> w.slots[i]]
      /\ IsFiniteSet(DOMAIN w.slots)
  BY <1>3, WithSlotShape
<1>6. q.slots = w.slots
  BY <1>2, <1>5
<1> QED
  BY <1>1, <1>4, <1>6

\* mark_running moves the phase of a pending task.
LEMMA RunningMoves ==
  ASSUME NEW r, NEW t \in Nat, NEW id, IsRegistry(r, t),
         NEW q, q = MarkRunning(r, id, t), NEW i \in DOMAIN r.slots
  PROVE  q.slots[i].phase \in {r.slots[i].phase, "Running"}
<1>1. CASE ~ (id \in DOMAIN r.slots /\ r.slots[id].phase = "Pending")
  BY <1>1 DEF MarkRunning
<1>2. CASE id \in DOMAIN r.slots /\ r.slots[id].phase = "Pending"
  <2> DEFINE to == Refresh([r.slots[id] EXCEPT !.phase = "Running"], t)
  <2>1. r.slots[id] \in Slot
    BY <1>2 DEF IsRegistry, Metered
  <2>2. to.phase = "Running"
    BY <2>1 DEF Refresh, Slot
  <2>3. q = WithSlot(r, id, to)
    BY <1>2 DEF MarkRunning
  <2> HIDE DEF to
  <2> QED
    BY <1>2, <2>2, <2>3, WithSlotWrites
<1> QED
  BY <1>1, <1>2

\* tick takes out the slots it ends, and reports each as supervision left it.
LEMMA TickTakes ==
  ASSUME NEW r, NEW t \in Nat, IsRegistry(r, t),
         NEW q, q = Tick(r, t).registry, NEW e, e = Tick(r, t).ended
  PROVE  /\ DOMAIN e \subseteq DOMAIN r.slots
         /\ DOMAIN q.slots = DOMAIN r.slots \ DOMAIN e
         /\ \A id \in DOMAIN e : e[id] = SuperviseSlot(r.slots[id], t).phase
         /\ \A id \in DOMAIN q.slots : q.slots[id] = SuperviseSlot(r.slots[id], t)
<1> DEFINE after == [id \in DOMAIN r.slots |-> SuperviseSlot(r.slots[id], t)]
           ended == {id \in DOMAIN after : after[id].phase \in Terminal}
<1>1. q = [r EXCEPT !.slots = Restrict(after, DOMAIN after \ ended),
                    !.running = SatSub(@, Cardinality(ended))]
  BY DEF Tick
<1>2. e = [id \in ended |-> after[id].phase]
  BY DEF Tick
<1>3. /\ DOMAIN after = DOMAIN r.slots
      /\ \A id \in DOMAIN r.slots : after[id] = SuperviseSlot(r.slots[id], t)
  OBVIOUS
<1> HIDE DEF after
<1>4. ended \subseteq DOMAIN r.slots
  BY <1>3
<1> HIDE DEF ended
<1>5. q.slots = [id \in DOMAIN r.slots \ ended |-> after[id]]
  BY <1>1, <1>3 DEF IsRegistry, Restrict
<1> QED
  BY <1>2, <1>3, <1>4, <1>5

\* A slot whose lease holds is not presumed dead, and supervision completes
\* nothing.
LEMMA SuperviseSpares ==
  ASSUME NEW slot, NEW t \in Nat, Metered(slot, t), slot.phase # "Expired",
         slot.phase \in Active => slot.expires_at >= t
  PROVE  LET after == SuperviseSlot(slot, t)
         IN  after.phase # "Expired" /\ (after.phase = "Completed" => slot.phase = "Completed")
<1> DEFINE charged == Charge(slot, 0, t)
<1>1. charged.phase \in {slot.phase, "BudgetExhausted"}
  BY ChargeMeters
<1>2. charged.expires_at = slot.expires_at
  BY DEF Charge, Metered, Slot
<1> HIDE DEF charged
<1>3. slot.expires_at \in Nat
  BY DEF Metered, Slot
<1>4. CASE slot.phase \in {"Running", "Pending"}
  <2>1. ~ Expired(charged, t)
    BY <1>2, <1>3, <1>4 DEF Expired, Active
  <2>2. SuperviseSlot(slot, t) = charged
    BY <1>4, <2>1 DEF SuperviseSlot, charged
  <2> QED
    BY <1>1, <1>4, <2>2
<1>5. CASE slot.phase = "Cancelling" /\ Expired(slot, t)
  <2>1. SuperviseSlot(slot, t) = [slot EXCEPT !.phase = "Killed"]
    BY <1>5 DEF SuperviseSlot
  <2> QED
    BY <2>1 DEF Metered, Slot
<1>6. CASE ~ (slot.phase \in {"Running", "Pending"} \/ (slot.phase = "Cancelling" /\ Expired(slot, t)))
  <2>1. SuperviseSlot(slot, t) = slot
    BY <1>6 DEF SuperviseSlot
  <2> QED
    BY <2>1
<1> QED
  BY <1>4, <1>5, <1>6

\* A new registry.
LEMMA NewRegistryIsOne ==
  ASSUME NEW t \in Nat
  PROVE  IsRegistry(NewRegistry, t) /\ FirstLife(NewRegistry) /\ DOMAIN NewRegistry.slots = {}
<1> DEFINE r == NewRegistry
<1>1. /\ r = [slots |-> r.slots, running |-> 0, next_id |-> 1]
      /\ r.running = 0 /\ r.next_id = 1 /\ r.slots = << >> /\ DOMAIN r.slots = {}
  BY DEF NewRegistry
<1>2. r.slots = [id \in DOMAIN r.slots |-> r.slots[id]]
  BY <1>1
<1> HIDE DEF r
<1>3. IsRegistry(r, t) /\ FirstLife(r)
  BY <1>1, <1>2, FS_EmptySet, RegistryAssumption DEF IsRegistry, FirstLife
<1> QED
  BY <1>1, <1>3 DEF r

-----------------------------------------------------------------------------
(* Induction and recursion over the numbers, with the set of the good ones *)
(* as a value.                                                             *)

(* Numbers.                                                                *)

\* The order of the natural numbers as a relation, which is well founded.
Precedes == {pair \in Nat \X Nat : pair[1] < pair[2]}

\* Every set of natural numbers has a least one.
LEMMA LeastNumber ==
  ASSUME NEW T \in SUBSET Nat, T # {}
  PROVE  \E x \in T : \A y \in T : x <= y
<1>1. IsWellFoundedOn(Precedes, Nat)
  BY NatLessThanWellFounded DEF OpToRel, Precedes
<1>2. T \subseteq Nat
  OBVIOUS
<1>3. PICK x \in T : \A y \in T : <<y, x>> \notin Precedes
  BY <1>1, <1>2, WFMin
<1>4. ASSUME NEW y \in T PROVE x <= y
  <2>1. y \in Nat /\ x \in Nat
    BY <1>2
  <2>2. y < x => <<y, x>> \in Precedes
    BY <2>1 DEF Precedes
  <2> QED BY <2>1, <2>2, <1>3
<1> QED BY <1>4

(***************************************************************************)
(* Induction over the numbers, with the set of the good ones as a value,   *)
(* and its use: a function given by its first value and a step exists.     *)
(***************************************************************************)
LEMMA NatSet ==
  ASSUME NEW T, 0 \in T, \A n \in Nat : n \in T => n + 1 \in T
  PROVE  \A n \in Nat : n \in T
<1> DEFINE B == {n \in Nat : n \notin T}
<1> SUFFICES ASSUME B # {} PROVE FALSE
  OBVIOUS
<1>1. PICK n \in B : \A m \in B : n <= m
  BY LeastNumber
<1>2. n \in Nat /\ n # 0 /\ n \notin T
  OBVIOUS
<1>3. n - 1 \in Nat /\ n - 1 \notin B
  <2> HIDE DEF B
  <2> QED BY <1>1, <1>2
<1>4. n - 1 \in T
  BY <1>3
<1>5. (n - 1) + 1 = n
  BY <1>2
<1> QED BY <1>2, <1>3, <1>4, <1>5

\* The same up to a bound.
LEMMA UpTo ==
  ASSUME NEW N \in Nat, NEW T, 0 \in T, \A n \in 1 .. N : n - 1 \in T => n \in T
  PROVE  \A n \in 0 .. N : n \in T
<1> DEFINE U == {n \in Nat : n <= N => n \in T}
<1>1. 0 \in U
  OBVIOUS
<1>2. ASSUME NEW n \in Nat, n \in U PROVE n + 1 \in U
  <2> SUFFICES ASSUME n + 1 <= N PROVE n + 1 \in T
    OBVIOUS
  <2>1. n + 1 \in 1 .. N /\ (n + 1) - 1 = n /\ n \in T
    BY <1>2
  <2> QED BY <2>1
<1>3. \A n \in Nat : n \in U
  <2> HIDE DEF U
  <2> QED BY <1>1, <1>2, NatSet
<1> QED BY <1>3

IsStep(g, N, S) == g \in [1 .. N -> [S -> S]]
Iterates(f, N, S, a, g) ==
  /\ f \in [0 .. N -> S] /\ f[0] = a
  /\ \A n \in 1 .. N : f[n] = g[n][f[n - 1]]

\* A function on 0 .. N is given by its first value and its steps.
LEMMA Recursion ==
  ASSUME NEW N \in Nat, NEW S, NEW a \in S, NEW g, IsStep(g, N, S)
  PROVE  \E f : Iterates(f, N, S, a, g)
<1> USE DEF IsStep
<1> DEFINE Good(k, f) == f[0] = a /\ \A n \in 1 .. k : f[n] = g[n][f[n - 1]]
           T == {k \in Nat : k <= N => \E f \in [0 .. k -> S] : Good(k, f)}
<1>1. 0 \in T
  <2>1. [i \in 0 .. 0 |-> a] \in [0 .. 0 -> S] /\ Good(0, [i \in 0 .. 0 |-> a])
    OBVIOUS
  <2> QED BY <2>1
<1>2. ASSUME NEW k \in Nat, k \in T PROVE k + 1 \in T
  <2> SUFFICES ASSUME k + 1 <= N PROVE \E f \in [0 .. k + 1 -> S] : Good(k + 1, f)
    OBVIOUS
  <2>1. PICK f \in [0 .. k -> S] : Good(k, f)
    BY <1>2
  <2> DEFINE h == [i \in 0 .. k + 1 |-> IF i = k + 1 THEN g[k + 1][f[k]] ELSE f[i]]
  <2>2. f[k] \in S /\ k + 1 \in 1 .. N
    OBVIOUS
  <2>3. g[k + 1][f[k]] \in S
    BY <2>2
  <2>4. h \in [0 .. k + 1 -> S]
    BY <2>3
  <2>5. h[0] = a
    BY <2>1
  <2>6. ASSUME NEW n \in 1 .. k + 1 PROVE h[n] = g[n][h[n - 1]]
    <3>1. CASE n = k + 1
      <4>1. h[n] = g[k + 1][f[k]] /\ h[n - 1] = f[k]
        BY <3>1
      <4> QED BY <3>1, <4>1
    <3>2. CASE n # k + 1
      <4>1. n \in 1 .. k /\ n - 1 \in 0 .. k
        BY <3>2
      <4>2. h[n] = f[n] /\ h[n - 1] = f[n - 1]
        BY <4>1
      <4> QED BY <4>1, <4>2, <2>1
    <3> QED BY <3>1, <3>2
  <2> QED BY <2>4, <2>5, <2>6
<1>3. N \in T
  <2> HIDE DEF T
  <2> QED BY <1>1, <1>2, NatSet
<1>4. PICK f \in [0 .. N -> S] : Good(N, f)
  BY <1>3
<1> QED BY <1>4 DEF Iterates

\* A function that steps from S to S as g does iterates g.
LEMMA Unfolds ==
  ASSUME NEW N \in Nat, NEW S, NEW a \in S, NEW g, IsStep(g, N, S), NEW f,
         f = [n \in 0 .. N |-> f[n]], f[0] = a,
         \A n \in 1 .. N : f[n - 1] \in S => f[n] = g[n][f[n - 1]]
  PROVE  Iterates(f, N, S, a, g)
<1> DEFINE T == {n \in 0 .. N : f[n] \in S}
<1>1. 0 \in T
  OBVIOUS
<1>2. ASSUME NEW n \in 1 .. N, n - 1 \in T PROVE n \in T
  <2>1. f[n - 1] \in S /\ n \in 0 .. N
    BY <1>2
  <2>2. g[n][f[n - 1]] \in S
    BY <2>1 DEF IsStep
  <2> QED BY <2>1, <2>2
<1> HIDE DEF T
<1>3. \A n \in 0 .. N : n \in T
  BY <1>1, <1>2, UpTo
<1>4. \A n \in 0 .. N : f[n] \in S
  BY <1>3 DEF T
<1>5. f \in [0 .. N -> S]
  BY <1>4
<1>6. \A n \in 1 .. N : f[n] = g[n][f[n - 1]]
  <2> TAKE n \in 1 .. N
  <2>1. n - 1 \in 0 .. N
    OBVIOUS
  <2> QED BY <1>4, <2>1
<1> QED BY <1>5, <1>6 DEF Iterates

=============================================================================
