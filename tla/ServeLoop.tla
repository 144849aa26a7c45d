----------------------------- MODULE ServeLoop ------------------------------
(***************************************************************************)
(* The daemon's runtime loop and the threads of the tasks it launched      *)
(* (crates/crustcore-daemon: TaskRunner and run_serve_loop of runtime.rs,  *)
(* TaskHandle and the safe points of run_one_task of task.rs), without a   *)
(* draft-PR target: a launch starts at once.  PrGate models the gate.      *)
(*                                                                         *)
(* The loop is one thread: it reads the clock once per round, collects the *)
(* lines and done flags of its handles, steps the registry, drops the      *)
(* handles of ended tasks (which joins their threads), and dispatches the  *)
(* polled events, all at the time it read.  The task threads run beside    *)
(* it; they share with it only the channel, the cancel flag and the done   *)
(* flag of their handle.                                                   *)
(***************************************************************************)
EXTENDS TaskRegistry, Sequences

CONSTANTS
  MaxTime,   \* bound on the clock
  MaxTasks,  \* bound on the launches
  None

ASSUME LoopAssumption == MaxTime \in Nat /\ None \notin BOOLEAN

VARIABLES
  now,       \* the time the loop read at the top of its round
  pc,        \* the loop's next step
  reg,       \* the registry
  handles,   \* ids of the TaskHandles the runner holds
  threads,   \* every thread not yet joined, with what its handle shares
  todo,      \* handles still to collect in this round
  seen,      \* the done flag or the lines just read from the next handle
  drained,   \* what was collected of each handle
  drops,     \* handles the tick's actions have yet to drop
  told,      \* history: tasks whose final line was sent to the chat
  retired    \* history: how each finalized task ended

loopVars == <<todo, seen, drained, drops>>
history == <<told, retired>>
vars == <<now, pc, reg, handles, threads, loopVars, history>>

-----------------------------------------------------------------------------
(* Task threads.                                                           *)

\* setup: up to the worktree.  work: choosing the backend.  worker: inside the
\* sandboxed worker.  verify: the verify run and everything up to the summary.
\* final: the summary is returned; sent: it is queued; ended: done is
\* published.  panicked: the thread unwound and publishes nothing more.
Step == {"setup", "check1", "work", "worker", "check2", "verify", "final",
         "sent", "ended", "panicked"}

NewThread == [step |-> "setup", queue |-> << >>, cancel |-> FALSE]

Done(id) == threads[id].step = "ended"

\* The thread can be joined.
Stopped(id) == threads[id].step \in {"ended", "panicked"}

\* The thread queues `lines` and moves on; the channel is unbounded.
ThreadMoves(id, step, lines) ==
  /\ threads' = [threads EXCEPT ![id].step = step,
                                ![id].queue = @ \o lines]
  /\ UNCHANGED <<now, pc, reg, handles, loopVars, history>>

\* A bad specification, a missing key or a worktree that cannot be created
\* end the task with its summary.
ThreadSetup(id) ==
  /\ threads[id].step = "setup"
  /\ \/ ThreadMoves(id, "final", << >>)
     \/ ThreadMoves(id, "check1", <<"ready">>)

\* The two safe points at which the cancel flag is read.
ThreadCheck(id) ==
  \/ /\ threads[id].step = "check1"
     /\ ThreadMoves(id, IF threads[id].cancel THEN "final" ELSE "work", << >>)
  \/ /\ threads[id].step = "check2"
     /\ IF threads[id].cancel THEN ThreadMoves(id, "final", << >>)
        ELSE ThreadMoves(id, "verify", <<"verifying">>)

\* The native backend takes the worktree's HEAD.  A worker is announced, runs,
\* and is rejected or leaves a candidate.
ThreadWork(id) ==
  \/ /\ threads[id].step = "work"
     /\ \/ ThreadMoves(id, "check2", << >>)
        \/ ThreadMoves(id, "worker", <<"working">>)
  \/ /\ threads[id].step = "worker"
     /\ ThreadMoves(id, "final", << >>) \/ ThreadMoves(id, "check2", << >>)

ThreadVerify(id) ==
  threads[id].step = "verify" /\ ThreadMoves(id, "final", << >>)

\* Bug: the summary is queued by the task and again by its wrapper.
ThreadFinishTwice(id) ==
  \/ threads[id].step = "final" /\ ThreadMoves(id, "sent", <<"final">>)
  \/ threads[id].step = "sent" /\ ThreadMoves(id, "ended", <<"final">>)

\* The final line is queued first, and done published after it.
ThreadFinish(id) ==
  \/ threads[id].step = "final" /\ ThreadMoves(id, "sent", <<"final">>)
  \/ threads[id].step = "sent" /\ ThreadMoves(id, "ended", << >>)

\* run_one_task unwinds: neither a summary nor the done flag follows.
ThreadPanics(id) ==
  /\ threads[id].step \notin {"final", "sent", "ended", "panicked"}
  /\ ThreadMoves(id, "panicked", << >>)

Thread(id) ==
  \/ ThreadSetup(id) \/ ThreadCheck(id) \/ ThreadWork(id)
  \/ ThreadVerify(id) \/ ThreadFinish(id) \/ ThreadPanics(id)

-----------------------------------------------------------------------------
(* The loop.                                                               *)

Init ==
  /\ now = 0 /\ pc = "top"
  /\ reg = NewRegistry /\ handles = {} /\ threads = << >>
  /\ todo = {} /\ seen = None /\ drained = << >> /\ drops = {}
  /\ told = {} /\ retired = << >>

\* Any time may have passed since the last round.
Top ==
  /\ pc = "top"
  /\ now' \in now .. MaxTime
  /\ todo' = handles /\ pc' = "collect"
  /\ UNCHANGED <<reg, handles, threads, seen, drained, drops, history>>

First(ids) == CHOOSE id \in ids : \A other \in ids : id <= other

Collected(id, lines, finished) ==
  /\ drained' = [i \in DOMAIN drained \union {id} |->
                   IF i = id THEN [lines |-> lines, finished |-> finished]
                   ELSE drained[i]]
  /\ todo' = todo \ {id} /\ seen' = None

\* Bug: the lines are drained before the done flag is read.
CollectDrainFirst(id) ==
  /\ pc = "collect"
  /\ \/ /\ seen = None
        /\ seen' = threads[id].queue
        /\ threads' = [threads EXCEPT ![id].queue = << >>]
        /\ UNCHANGED <<todo, drained>>
     \/ /\ seen # None
        /\ Collected(id, seen, Done(id))
        /\ UNCHANGED threads
  /\ UNCHANGED <<now, pc, reg, handles, drops, history>>

\* Phase 1 of pump, for the next handle: finished(), then drain().
Collect(id) ==
  /\ pc = "collect"
  /\ \/ /\ seen = None
        /\ seen' = Done(id)
        /\ UNCHANGED <<todo, drained, threads>>
     \/ /\ seen # None
        /\ Collected(id, threads[id].queue, seen)
        /\ threads' = [threads EXCEPT ![id].queue = << >>]
  /\ UNCHANGED <<now, pc, reg, handles, drops, history>>

\* Bug: the finish of a task is not observed.
SettleUnfinished(r, id, finished) == Heartbeat(r, id, now)

\* Bug: a silent task is left to its lease.
SettleWithoutHeartbeat(r, id, finished) ==
  IF finished THEN ObserveFinished(r, id) ELSE r

\* A silent task is heartbeated for as long as its thread is held.
Settle(r, id, finished) ==
  IF finished THEN ObserveFinished(r, id) ELSE Heartbeat(r, id, now)

\* Phase 2 of pump, for the next handle: charge and forward each line, then
\* finish or heartbeat the task.
Feed(id) ==
  /\ pc = "collect" /\ todo = {}
  /\ \/ /\ drained[id].lines # << >>
        /\ reg' = ObserveProgress(reg, id, 1, now)
        /\ told' = IF Head(drained[id].lines) = "final" THEN told \union {id} ELSE told
        /\ drained' = [drained EXCEPT ![id].lines = Tail(@)]
     \/ /\ drained[id].lines = << >>
        /\ reg' = Settle(reg, id, drained[id].finished)
        /\ drained' = Restrict(drained, DOMAIN drained \ {id})
        /\ UNCHANGED told
  /\ UNCHANGED <<now, pc, handles, threads, todo, seen, drops, retired>>

\* Phase 3 of pump, up to the first handle to drop: tick and its cancels.
Supervise ==
  LET tick == Tick(reg, now)
  IN  /\ pc = "collect" /\ todo = {} /\ drained = << >>
      /\ reg' = tick.registry
      /\ threads' = [id \in DOMAIN threads |->
                       IF id \in tick.cancel \intersect handles
                         THEN [threads[id] EXCEPT !.cancel = TRUE]
                         ELSE threads[id]]
      /\ drops' = DOMAIN tick.ended \intersect handles
      /\ retired' = [id \in DOMAIN retired \union DOMAIN tick.ended |->
                       IF id \in DOMAIN tick.ended THEN tick.ended[id]
                       ELSE retired[id]]
      /\ pc' = "drop"
      /\ UNCHANGED <<now, handles, todo, seen, drained, told>>

\* Bug: the handle is forgotten without waiting for its thread.
DropDetaching(id) ==
  /\ pc = "drop"
  /\ handles' = handles \ {id} /\ drops' = drops \ {id}
  /\ threads' = [threads EXCEPT ![id].cancel = TRUE]
  /\ UNCHANGED <<now, pc, reg, todo, seen, drained, history>>

\* Drop of a TaskHandle: ask the thread to stop, then wait for its end.
Drop(id) ==
  /\ pc = "drop"
  /\ \/ /\ ~ threads[id].cancel
        /\ threads' = [threads EXCEPT ![id].cancel = TRUE]
        /\ UNCHANGED <<handles, drops>>
     \/ /\ threads[id].cancel /\ Stopped(id)
        /\ handles' = handles \ {id} /\ drops' = drops \ {id}
        /\ threads' = Restrict(threads, DOMAIN threads \ {id})
  /\ UNCHANGED <<now, pc, reg, todo, seen, drained, history>>

Poll ==
  /\ pc = "drop" /\ drops = {}
  /\ pc' = "poll"
  /\ UNCHANGED <<now, reg, handles, threads, loopVars, history>>

\* A LaunchTask action: refused at capacity, else admitted, spawned, marked
\* running.
Launch(chat, budget) ==
  LET id == reg.next_id
  IN  /\ pc = "poll" /\ HasCapacity(reg) /\ id <= MaxTasks
      /\ reg' = MarkRunning(Admit(reg, chat, budget, now), id, now)
      /\ handles' = handles \union {id}
      /\ threads' = [i \in DOMAIN threads \union {id} |->
                       IF i = id THEN NewThread ELSE threads[i]]
      /\ UNCHANGED <<now, pc, loopVars, history>>

\* /cancel and /kill, of a task in the registry's snapshot.
Cancel(id, chat) ==
  /\ pc = "poll" /\ Owns(reg, id, chat)
  /\ reg' = RequestCancel(reg, id, chat)
  /\ UNCHANGED <<now, pc, handles, threads, loopVars, history>>

\* Bug: the slot is removed at once, and no tick tells of it.
KillAtOnce(id, chat) ==
  /\ pc = "poll" /\ Owns(reg, id, chat)
  /\ reg' = [reg EXCEPT !.slots = Restrict(@, DOMAIN @ \ {id}),
                        !.running = @ - 1]
  /\ UNCHANGED <<now, pc, handles, threads, loopVars, history>>

Kill(id, chat) ==
  /\ pc = "poll" /\ Owns(reg, id, chat)
  /\ reg' = RequestKill(reg, id, chat)
  /\ UNCHANGED <<now, pc, handles, threads, loopVars, history>>

\* The batch is done, or the poll failed: back off and start over.
EndRound ==
  /\ pc = "poll"
  /\ pc' = "top"
  /\ UNCHANGED <<now, reg, handles, threads, loopVars, history>>

Loop ==
  \/ Top
  \/ todo # {} /\ Collect(First(todo))
  \/ drained # << >> /\ Feed(First(DOMAIN drained))
  \/ Supervise
  \/ drops # {} /\ Drop(First(drops))
  \/ Poll
  \/ EndRound

Operator ==
  \/ \E chat \in ChatId, budget \in Budgets : Launch(chat, budget)
  \/ \E id \in DOMAIN reg.slots, chat \in ChatId :
       Cancel(id, chat) \/ Kill(id, chat)

Next ==
  \/ Loop \/ Operator
  \/ \E id \in DOMAIN threads : Thread(id)

\* Only the loop is fair.  A task thread may stay for ever where it is: it
\* waits for git without a timeout.  Operators and the clock owe nothing; a
\* batch of events is finite.
Fairness == WF_vars(Loop)

Spec == Init /\ [][Next]_vars

FairSpec == Spec /\ Fairness

-----------------------------------------------------------------------------
(* Properties.                                                             *)

\* The loop works only on handles it holds, and a thread queues no more than
\* its three progress lines and one final line.
TypeOK ==
  /\ now \in 0 .. MaxTime
  /\ pc \in {"top", "collect", "drop", "poll"}
  /\ \A id \in DOMAIN threads :
       /\ threads[id].step \in Step /\ threads[id].cancel \in BOOLEAN
       /\ Len(threads[id].queue) <= 4
  /\ todo \subseteq handles /\ drops \subseteq handles
  /\ DOMAIN drained \subseteq handles

\* The runner's two maps agree: every slot of the registry has its handle, and
\* a handle without a slot is being dropped.
SlotsHaveHandles ==
  /\ handles = DOMAIN reg.slots \union drops
  /\ DOMAIN reg.slots \intersect drops = {}

\* "No task thread is ever detached", and so no more threads run than the cap
\* allows, although a killed task's slot is free before its thread is joined.
ThreadsAreBounded ==
  LET alive == {id \in DOMAIN threads : ~ Stopped(id)}
  IN  alive \subseteq handles /\ Cardinality(alive) <= MaxConcurrent

\* A task is never presumed dead while its thread is held, however long it is
\* silent and however late the loop comes round.
HealthyNeverExpires == \A id \in DOMAIN retired : retired[id] # "Expired"

\* A task reported complete has had its summary forwarded: the final line is
\* not lost between the reading of the done flag and of the channel.
FinalLineDelivered ==
  \A id \in DOMAIN retired : retired[id] = "Completed" => id \in told

\* The loop holds every thread it started, never more than its cap, presumes
\* none dead that it holds, and forwards the last line of each
\* (run_serve_loop, pump).
EveryThreadIsHeld ==
  TypeOK /\ SlotsHaveHandles /\ ThreadsAreBounded /\ HealthyNeverExpires /\ FinalLineDelivered

\* The task is over for the loop: its thread published its end, or the
\* registry ended it (a kill, a breached budget).
Over(id) ==
  /\ id \in handles
  /\ Done(id) \/ id \in drops \/ reg.slots[id].phase \in Terminal

\* The loop waits in Drop for a thread that has not stopped.
HeldInJoin == drops # {} /\ ~ Stopped(First(drops))

\* Every task that finished, was killed or breached its budget is let go of in
\* the end, a panicked one included, whatever the other threads do; the one
\* thing that can keep the loop from it is a join that lasts for ever, of a
\* dropped handle whose thread never stops (pump, Drop for TaskHandle).
TasksRetire ==
  <>[]HeldInJoin \/ \A id \in 1 .. MaxTasks : Over(id) ~> id \notin handles

\* registry.rs: "A cancel that is not honored within the lease TTL escalates
\* to reclaim."  A task that is asked to cancel was last charged then, or
\* later.
CancelEscalates ==
  pc = "poll" =>
    \A id \in DOMAIN reg.slots :
      reg.slots[id].phase = "Cancelling" =>
        now <= reg.slots[id].last_charge_at + LeaseTtl

=============================================================================
