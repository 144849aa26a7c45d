------------------------------- MODULE Fleet -------------------------------
(***************************************************************************)
(* One task in the multi-agent lane of the daemon (exec.rs, supervisor.rs, *)
(* task_loop.rs, reviewer.rs, advisor.rs, selfimprove.rs): it is routed by *)
(* its changed paths, its proposers race under the scheduler and their     *)
(* budgets until the verifier accepts one, and reviewers' verdicts arrive  *)
(* late, twice, or not at all. An improvement cycle turns its own change   *)
(* into a draft or stops at the contract gate.                             *)
(***************************************************************************)
EXTENDS Product

CONSTANTS
  Agent,         \* identifiers a proposer may have
  FleetChanges,  \* sequences of changed paths
  CycleChanges,  \* those of an improvement cycle
  EvalRuns,      \* what the evaluations of a cycle came to, in order
  MaxRunning,    \* max_concurrent of the scheduler
  Budget,        \* AgentBudget of every agent: the cap of each axis
  Uses,          \* what a run may have used, by axis
  MinBudget,     \* MIN_FANOUT_CONTEXT_BUDGET
  MaxFanout,     \* MAX_FANOUT
  MaxWait,       \* how long reviewers may take
  MaxVerdicts,   \* bound on the verdicts of a behaviour
  MaxConsults,   \* max_consults_per_task
  MaxRuns        \* bound on the tasks an agent's usage is carried over

Axis == {"Wall", "Output", "Tokens"}
NoUse == [x \in Axis |-> 0]

\* An EvalRef is a kind and what became of the run.
ASSUME EvalAssumption ==
  \A ran \in EvalRuns : \A i \in DOMAIN ran :
    ran[i] = [kind |-> ran[i].kind, result |-> ran[i].result]

ASSUME FleetAssumption ==
  /\ MaxRunning \in Nat \ {0}
  /\ "none" \notin Agent
  /\ Budget \in [Axis -> Nat] /\ Uses \subseteq [Axis -> Nat]

VARIABLES
  task,       \* [changed, shape, risk, route], or << >> before planning
  registry,   \* the registered agents
  running,    \* Scheduler::running
  others,     \* slots of the scheduler that other callers hold
  slot,       \* the agent whose SlotGuard is alive, or "none"
  usage,      \* AgentUsage of each agent
  proposers,  \* agents still to be run, in order
  results,    \* what became of each proposer
  winner,     \* the accepted proposer, or "none"
  board,      \* Blackboard: messages to the supervisor
  verdicts,   \* verdicts in the order they arrived
  waited,     \* time since the patch was verified
  consults,   \* consultations of the advisor
  outcome,    \* TaskOutcome of the last finalize_task
  cycle,      \* CycleOutcome of the last improvement cycle
  runs        \* tasks run so far

fleetVars ==
  <<task, registry, running, others, slot, usage, proposers, results, winner, board,
    verdicts, waited, consults, outcome, cycle, runs>>

NoCycle == [outcome |-> "none", changed |-> << >>, ran |-> << >>]

FleetInit ==
  /\ task = << >> /\ registry = {} /\ running = 0 /\ others = 0 /\ slot = "none"
  /\ usage = [a \in Agent |-> NoUse] /\ proposers = << >> /\ results = << >>
  /\ winner = "none" /\ board = << >> /\ verdicts = << >> /\ waited = 0
  /\ consults = 0 /\ outcome = "none" /\ cycle = NoCycle /\ runs = 0

-----------------------------------------------------------------------------
(* Planning.                                                               *)

\* plan_task, with the agents registered; what an earlier cycle returned is gone.
\* Executors are named like the agents that stand for them.
PlanTask(changed, risk, budget, known) ==
  /\ task = << >>
  /\ LET shape == ShapeOf(changed)
         route == Route(shape, risk, budget, <<"Native", "Codex">>, MinBudget, MaxFanout)
     IN  /\ task' = [changed |-> changed, shape |-> shape, risk |-> risk, route |-> route]
         /\ proposers' = route.fleet
         /\ outcome' = IF route.kind = "Blocked" THEN "Blocked"
                       ELSE IF route.kind = "AdvisoryOnly" THEN "AdvisoryRequested"
                       ELSE "none"
  /\ registry' = known /\ cycle' = NoCycle
  /\ UNCHANGED <<running, others, slot, usage, results, winner, board, verdicts, waited,
                 consults, runs>>

\* should_consult: high-risk triggers are asked about even under pressure.
HighRiskTrigger(trigger) ==
  trigger \in {"SecurityRisk", "BeforeGitHubPush", "WorkflowModification",
               "DependencyChange"}
ShouldConsult(mode, trigger, pressure) ==
  /\ mode # "Off" /\ consults < MaxConsults
  /\ pressure => HighRiskTrigger(trigger)

\* consult_before: the note is advice, nothing else changes.
Consult(mode, trigger, pressure) ==
  /\ task # << >> /\ outcome = "none" /\ ShouldConsult(mode, trigger, pressure)
  /\ consults' = consults + 1
  /\ UNCHANGED <<task, registry, running, others, slot, usage, proposers, results, winner,
                 board, verdicts, waited, outcome, cycle, runs>>

-----------------------------------------------------------------------------
(* The race of the proposers.                                              *)

\* What an agent would have used.  (The code's sums saturate at u64.)
Spent(a, charge) == [x \in Axis |-> usage[a][x] + charge[x]]

\* Bug: only the first axis is looked at.
BreachOfWall(a, charge) == IF Spent(a, charge)["Wall"] > Budget["Wall"] THEN "Wall" ELSE "none"

\* AgentUsage::charge: the first axis that would be breached is named and
\* nothing is charged.
Breach(a, charge) ==
  LET Over(x) == Spent(a, charge)[x] > Budget[x]
  IN  IF Over("Wall") THEN "Wall" ELSE IF Over("Output") THEN "Output"
      ELSE IF Over("Tokens") THEN "Tokens" ELSE "none"

TurnOver(a, result) ==
  /\ proposers' = IF result = "Accepted" THEN << >> ELSE Tail(proposers)
  /\ results' = Append(results, [agent |-> a, result |-> result])
  /\ winner' = IF result = "Accepted" THEN a ELSE winner
  /\ UNCHANGED <<task, registry, others, verdicts, waited, consults, outcome, cycle, runs>>

\* Scheduler::try_spawn and finish, which saturates.
HasSlot == running < MaxRunning
Finished(n) == IF n = 0 THEN 0 ELSE n - 1

\* Other callers of the scheduler take and give back slots, never while
\* run_fanout holds it.
OtherSpawns ==
  /\ proposers = << >> /\ HasSlot
  /\ running' = running + 1 /\ others' = others + 1
  /\ UNCHANGED <<task, registry, slot, usage, proposers, results, winner, board, verdicts,
                 waited, consults, outcome, cycle, runs>>
OtherFinishes ==
  /\ proposers = << >> /\ others > 0
  /\ running' = Finished(running) /\ others' = others - 1
  /\ UNCHANGED <<task, registry, slot, usage, proposers, results, winner, board, verdicts,
                 waited, consults, outcome, cycle, runs>>

\* run_subagent returns before it takes a slot, or is refused one.
RefuseAgent ==
  /\ proposers # << >> /\ slot = "none"
  /\ LET a == Head(proposers)
     IN  \/ a \notin registry /\ TurnOver(a, "UnknownAgent")
         \/ a \in registry /\ ~HasSlot /\ TurnOver(a, "Concurrency")
  /\ UNCHANGED <<running, slot, usage, board>>

\* try_spawn succeeds and the guard of the slot is made: the executor runs.
StartAgent ==
  /\ proposers # << >> /\ slot = "none" /\ Head(proposers) \in registry /\ HasSlot
  /\ running' = running + 1 /\ slot' = Head(proposers)
  /\ UNCHANGED <<task, registry, others, usage, proposers, results, winner, board, verdicts,
                 waited, consults, outcome, cycle, runs>>

\* execute, run_worker_then_verify: an error when no worker could be run in a
\* tree, or its change was rejected, or the verifier refused to run; otherwise
\* the verifier's verdict alone, whatever the worker claimed.
ExecResult(worked, verdict) ==
  IF ~worked \/ verdict = "Refused" THEN << >> ELSE <<[verified |-> verdict = "Verified"]>>

\* Blackboard::post, to the supervisor; the user is no destination.
Post(a, kind) == board' = Append(board, [from |-> a, kind |-> kind])

\* run_charged and the rest of run_subagent.
RunCharged(verdict, charge, worked) ==
  LET a == slot
      result == ExecResult(worked, verdict)
  IN  \/ /\ result = << >> /\ TurnOver(a, "Exec")
         /\ UNCHANGED <<usage, board>>
      \/ /\ result # << >> /\ Breach(a, charge) # "none" /\ TurnOver(a, Breach(a, charge))
         /\ UNCHANGED <<usage, board>>
      \/ /\ result # << >> /\ Breach(a, charge) = "none"
         /\ usage' = [usage EXCEPT ![a] = Spent(a, charge)]
         /\ Post(a, IF result[1].verified THEN "PatchProposal" ELSE "TestResult")
         /\ TurnOver(a, IF result[1].verified THEN "Accepted" ELSE "Rejected")

\* Bug: the slot is given back on the last line and not on an early return.
EndAgentLeaky(verdict, charge, worked) ==
  /\ slot # "none" /\ RunCharged(verdict, charge, worked)
  /\ slot' = "none"
  /\ running' = IF Len(board') > Len(board) THEN Finished(running) ELSE running

\* The executor returns; SlotGuard is dropped on every path.
EndAgent(verdict, charge, worked) ==
  /\ slot # "none" /\ RunCharged(verdict, charge, worked)
  /\ slot' = "none" /\ running' = Finished(running)

\* The executor panics: the guard gives the slot back while the stack unwinds,
\* and the race ends without a result.
AgentPanics ==
  /\ slot # "none"
  /\ slot' = "none" /\ running' = Finished(running)
  /\ proposers' = << >> /\ outcome' = "Unwound"
  /\ UNCHANGED <<task, registry, others, usage, results, winner, board, verdicts, waited,
                 consults, cycle, runs>>

-----------------------------------------------------------------------------
(* Review.                                                                 *)

Raced == task # << >> /\ task.route.fleet # << >> /\ proposers = << >>

Settled == outcome \in {"ReadyToIntegrate", "Failed", "ReviewBlocked", "Unwound"}

\* A reviewer's verdict arrives while the task is open; the same role may vote again.
ReceiveVerdict(role, approve) ==
  /\ Raced /\ ~Settled /\ Len(verdicts) < MaxVerdicts
  /\ verdicts' = Append(verdicts, [role |-> role, approve |-> approve])
  /\ UNCHANGED <<task, registry, running, others, slot, usage, proposers, results, winner,
                 board, waited, consults, outcome, cycle, runs>>

WaitForReview ==
  /\ Raced /\ ~Settled /\ waited < MaxWait
  /\ waited' = waited + 1
  /\ UNCHANGED <<task, registry, running, others, slot, usage, proposers, results, winner,
                 board, verdicts, consults, outcome, cycle, runs>>

\* finalize_task may be asked again until the patch is ready or lost.
Finalize ==
  /\ Raced /\ ~Settled
  /\ outcome' = FinalizeTask(task.shape, task.risk, winner # "none", verdicts,
                             waited, MaxWait)
  /\ UNCHANGED <<task, registry, running, others, slot, usage, proposers, results, winner,
                 board, verdicts, waited, consults, cycle, runs>>

\* The next task starts with the usage its agents have left.
NextTask ==
  /\ task # << >> /\ proposers = << >> /\ runs + 1 < MaxRuns
  /\ outcome # "none"
  /\ task' = << >> /\ registry' = {} /\ results' = << >>
  /\ winner' = "none" /\ board' = << >> /\ verdicts' = << >> /\ waited' = 0
  /\ consults' = 0 /\ outcome' = "none" /\ runs' = runs + 1
  /\ UNCHANGED <<running, others, slot, usage, proposers, cycle>>

-----------------------------------------------------------------------------
(* The improvement cycle.                                                  *)

\* The contract files as they are compared: in lower case.
CONTRACT_FILES ==
  {"claude.md", "agents.md", "invariants.md", "threat_model.md", "security.md", "docs/policy.md",
   "docs/secrets.md", "docs/sandbox.md", "docs/backend-contract.md",
   "crates/crustcore-kernel/src/event.rs", "crates/crustcore-kernel/src/action.rs",
   "crates/crustcore-policy/src/decision.rs", "crates/crustcore-secrets/src/lib.rs",
   "cargo.toml", "cargo.lock"}

\* normalize_contract_path, of the representative paths that it changes.
NormalizeContractPath(path) ==
  CASE path \in {"./DOCS//policy.md/", "docs\\policy.md"} -> "docs/policy.md"
    [] path = "Cargo.toml" -> "cargo.toml"
    [] path = "fuzz/Cargo.lock" -> "fuzz/cargo.lock"
    [] OTHER -> path
BaseName(path) == IF path = "fuzz/cargo.lock" THEN "cargo.lock" ELSE path

\* is_contract_file: a listed file, and every manifest wherever it is.
ContractFile(path) ==
  LET p == NormalizeContractPath(path)
  IN  p \in CONTRACT_FILES \/ BaseName(p) \in {"cargo.toml", "cargo.lock"}

\* Bug: only the first changed path is compared with the contract files.
ContractGateFirst(changed) ==
  {changed[i] : i \in {j \in DOMAIN changed : j = 1 /\ ContractFile(changed[j])}}

\* contract_gate: the contract files a change touches.
ContractGate(changed) ==
  {changed[i] : i \in {j \in DOMAIN changed : ContractFile(changed[j])}}

\* Bug: an evaluation that ran counts, whatever its verifier said.
EvidenceOfRuns(ran) == {ran[i].kind : i \in {j \in DOMAIN ran : ran[j].result # "error"}}

\* run_evals of LiveEvalRunner: only an evaluation its verifier accepted counts.
Evidence(ran) == {ran[i].kind : i \in {j \in DOMAIN ran : ran[j].result = "verified"}}

\* ReadyProposal::prepare over the evidence.
Prepare(evidence) ==
  IF "Demonstrates" \notin evidence THEN "NoDemonstration"
  ELSE IF "GuardsRegression" \notin evidence THEN "NoRegressionGuard" ELSE "Ready"

\* run_cycle, plan_self_pr.  A cycle reads and writes nothing of a task, so it
\* is interleaved between tasks only.
RunCycle(changed, ran) ==
  /\ task = << >>
  /\ cycle' = [outcome |-> IF Prepare(Evidence(ran)) # "Ready" THEN "NotReady"
                           ELSE IF ContractGate(changed) # {} THEN "BlockedForMaintainer"
                           ELSE "DraftReady",
               changed |-> changed, ran |-> ran]
  /\ UNCHANGED <<task, registry, running, others, slot, usage, proposers, results, winner,
                 board, verdicts, waited, consults, outcome, runs>>

-----------------------------------------------------------------------------
FleetNext ==
  \/ \E changed \in FleetChanges, risk \in {"Standard", "High", "Critical"},
        budget \in {0, MinBudget}, known \in {Agent, {"Native"}} :
       PlanTask(changed, risk, budget, known)
  \/ \E mode \in {"Off", "Simulated", "Native"}, pressure \in BOOLEAN,
        trigger \in {"TaskStart", "SecurityRisk"} : Consult(mode, trigger, pressure)
  \/ OtherSpawns \/ OtherFinishes \/ RefuseAgent \/ StartAgent \/ AgentPanics
  \/ \E worked \in BOOLEAN, verdict \in {"Verified", "Failed", "Refused"}, charge \in Uses :
       EndAgent(verdict, charge, worked)
  \/ \E role \in {"Reviewer", "SecurityAuditor", "Tester", "Planner"}, ok \in BOOLEAN :
       ReceiveVerdict(role, ok)
  \/ WaitForReview \/ Finalize \/ NextTask
  \/ \E changed \in CycleChanges, ran \in EvalRuns : RunCycle(changed, ran)

FleetSpec == FleetInit /\ [][FleetNext]_fleetVars

-----------------------------------------------------------------------------
(* Properties.                                                             *)

\* A task becomes ready only through the verifier and its reviewers
\* (finalize_task, orchestrate_review, decide_integration): the winner's patch
\* was accepted within its budget; if its shape or risk requires a review, every
\* required role has voted and no role that can block, required or not, has a
\* block among its verdicts; and a change that touches a workflow or a sensitive
\* file, wherever it is in the list, was never run at all.  Where no review is
\* required a block is not looked at: NotRequired is ready at once.
ReadyIsReviewed ==
  /\ outcome = "ReadyToIntegrate" =>
       /\ \E i \in DOMAIN results : results[i] = [agent |-> winner, result |-> "Accepted"]
       /\ \E i \in DOMAIN board : board[i] = [from |-> winner, kind |-> "PatchProposal"]
       /\ RequiredReviewers(task.shape, task.risk) # {} =>
            /\ \A r \in RequiredReviewers(task.shape, task.risk) :
                 \E i \in DOMAIN verdicts : verdicts[i].role = r
            /\ \A i \in DOMAIN verdicts : CanBlock(verdicts[i].role) => verdicts[i].approve
  /\ task # << >> =>
       ((\E i \in DOMAIN task.changed :
           Has(task.changed[i], "security") \/ Has(task.changed[i], "workflow"))
        => task.route.fleet = << >> /\ results = << >>)

\* The scheduler counts exactly the live guards and its other callers, within
\* its cap, however a run ends: refused, over its budget, failed or unwound
\* (run_subagent, SlotGuard).  No agent exceeds any axis of its budget over all
\* its tasks, nobody runs after a winner, and the supervisor is told of exactly
\* the runs that were judged (run_fanout).
RaceIsBounded ==
  /\ running = others + (IF slot = "none" THEN 0 ELSE 1) /\ running <= MaxRunning
  /\ \A a \in Agent, x \in Axis : usage[a][x] <= Budget[x]
  /\ \A i \in DOMAIN results :
       results[i].result = "Accepted" => i = Len(results) /\ slot = "none"
  /\ Cardinality({i \in DOMAIN results : results[i].result \in {"Accepted", "Rejected"}})
       = Len(board)

\* A cycle ends in a draft only if its verifier accepted an evaluation of each
\* kind, whatever else failed, and no path of its change names a contract file
\* in any spelling (run_cycle, run_evals, contract_gate).
DraftsStayOutsideTheContract ==
  cycle.outcome = "DraftReady" =>
    /\ \A kind \in {"Demonstrates", "GuardsRegression"} :
         \E i \in DOMAIN cycle.ran : cycle.ran[i] = [kind |-> kind, result |-> "verified"]
    /\ \A i \in DOMAIN cycle.changed : ~ContractFile(cycle.changed[i])

\* The race keeps to its slots and budgets, and a cycle that changes itself
\* keeps out of the contract (run_subagent, contract_gate).
FleetIsBounded == RaceIsBounded /\ DraftsStayOutsideTheContract

=============================================================================
