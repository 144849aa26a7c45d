# CrustCore: a verification development

This directory holds TLA+ models of CrustCore, the TLC configurations that check
them on small instances, and TLAPS proofs of the properties that matter most.
Every definition is translated from the Rust source under `src/`;
`PROJECT.json` gives the lines each one stands for. Paths below are relative to
`src/crates/`.

* [The system](#the-system) - inventory of components
* [The modules](#the-modules) - what is modelled, and how it corresponds to the code
* [The runs](#the-runs) - what TLC checks, the bounds and why they are enough
* [Fairness](#fairness)
* [The proofs](#the-proofs)
* [Where code and documents disagree](#where-code-and-documents-disagree)
* [What is not covered](#what-is-not-covered)
* [State of the plan](#state-of-the-plan)

## The system

CrustCore runs coding tasks under a small trusted kernel. A deterministic
reducer (`crustcore-kernel`) turns events into a bounded list of actions; all
effects are carried out outside it, evidence is written to a hash-chained log,
and results count only after a verify command has run and left a receipt. A
daemon lets operators launch, watch, cancel and approve tasks from a Telegram
chat.

| Component | State it keeps | Operations that change it | Interacts with |
|---|---|---|---|
| Kernel (`crustcore-kernel`) | arenas of tasks, jobs and approvals; ready queue; idempotency frontier | `Kernel::step` | adapters deliver events in, carry actions out; replay reads the event log |
| Types, policy (`crustcore-types`, `crustcore-policy`) | budgets, statuses, the policy snapshot; capabilities | `Budget::record`, `PolicySnapshot::classify`, capability minting | kernel, daemon |
| Event log (`crustcore-eventlog`) | frames in memory, the head hash; the log file | `append`, `store_atomic`; readers `verify`, `verify_to_head`, `inspect`, `export_jsonl` | every run writes one; audit commands read it |
| Receipts (`crustcore-receipts`) | receipt chain, MAC key | mint, verify, `verify_against_log` | verifier, event log |
| Task registry (`crustcore-daemon/registry.rs`, `supervisor.rs`) | one slot per task (phase, lease, budget, usage), the scheduler's count, a dump file | `admit`, `mark_running`, `observe_progress`, `heartbeat`, `observe_finished`, `request_cancel`, `request_kill`, `tick`, `snapshot_all`, `adopt_from_snapshot` | driven by the runtime loop |
| Runtime loop (`runtime.rs`) | handles of the task threads, the parked launch, the chat bridge | one round: pump, poll, dispatch | registry, task threads, Telegram, approval engine |
| Task threads (`task.rs`) | channel, cancel flag, done flag; worktree, audit log, receipt, credential helper | `run_one_task` | runtime loop, worktrees, verifier, GitHub |
| Telegram channel (`telegram.rs`) | offset, dedupe window and floor, pending approvals | `poll_routed`, `ApprovalEngine::request`/`resolve` | Bot API, runtime loop |
| Worktrees (`crustcore-worktree`) | disposable git worktrees in one directory; the shared `info/attributes` | `create_for`, `remove`, git tools | task threads, workers |
| Workers (`crustcore-backend`) | guard manifest of the parent directory | `run_external_worker`, `run_verify`, `open_pr` | sandbox, worktrees |
| Nano CLI (`crustcore`) | an audit log, the task's worktree, the receipt key file | `run_task`, `inspect` | kernel, log, receipts, worktrees |
| Paths (`crustcore-path`, file tools) | the worktree on disk | read, write, list within a root | tools, commands that move links |
| Sandbox and runner (`crustcore-sandbox`, `crustcore-runner`) | one process group, two bounded captures, a deadline | `run_command`, `run` | every command a task runs |
| Secrets (`crustcore-secrets`) | vault file, store, leases, the streaming buffer | seal, open, lend, redact, stream | everything shown to a model or a chat |
| Product shell and lanes (`product.rs`, `repo_profiler.rs`, `router.rs`, `exec.rs`, `reviewer.rs`, `selfimprove.rs`) | profile, plan, evidence bundle; agent slots and budgets; verdicts | parse, walk, plan, export; route, race, review, improve | task loop, verifier |
| Network engine and its pipe (`crustcore-net`, `crustcore-netproto`) | ledger; lines between client and helper process | `complete`, `embed`, `rerank`, `probe` | providers, chat, advisor, index |
| Conversation (`crustcore-chat`, `chat.rs`, `runtime.rs`, `telegram.rs`, `slack.rs`) | turn queue, steering, pending approvals, keyboards in the chat | `normalize`, `dispatch_event`, `handle_action` | approval engine, tasks |
| GitHub (`webhook.rs`, `github.rs`, `github_commands.rs`) | replay guard, checks and repairs of a pull request, app token | `serve_webhooks_once`, `validate_push`, `aggregate_checks` | GitHub, runtime |
| Flow (`crustcore-flow`) | position, outputs, usage against a budget | `run_from` | drivers: model, tool, verifier, reviewer |
| Session (`crustcore-session`) | nothing of its own: views of a log, snapshots on disk | derive, `resume`, compact, lease | event log, receipts |
| MCP (`crustcore-mcp`) | registry with pinned manifests; exposed tools | register, `gateway_check`, `call_tool`, `handle_request` | foreign servers and clients |
| Index and retrieval (`crustcore-index`, `crustcore-index-rag`) | memory file, vector index, chunk store | put, save, load, index, query | context of a model call |
| Development server (`crustcore-dev`) | configuration, list of approvals, streams | route, resolve, stream | approval engine |
| Telemetry, evaluation, build tools, macros | no state the models would tell apart | | |

What is hard about it:

* **Order and repetition of events.** The kernel sees events from several
  adapters, late, repeated or naming each other's jobs, and must decide which
  may release an effect. Approvals are superseded by blocks, kills and
  deadlines; leases lapse while their owner still reports.
* **Threads beside a single-threaded loop.** A task thread queues lines and
  publishes a done flag while the loop reads both, supervises, frees scheduler
  slots and joins threads.
* **Two clocks and two states for one thing.** An approval and the launch it
  gates, a registry slot and its thread, a lease and its heartbeat are kept
  apart and can drift.
* **Crashes.** Log files must be whole after a crash at any step; evidence must
  be on disk before anything leaves the machine; Telegram must not forget what
  was not dispatched.
* **Shared files.** Concurrent tasks share a repository's attributes file and
  the directory that the escape guard compares; links move under file tools.
* **Foreign ends.** Commands that fork and outlive their timeout, helpers that
  die between two lines, servers that change their tools, webhooks that are
  forged and repeated, stores that answer for chunks that are gone.
* **Bounds.** Almost every list, field, buffer and output in the code is cut at
  a limit, and what was cut must not pass for the whole.

The list of hazards in `PROJECT.json` names the lines; the properties were
chosen from it. What makes each component correct: effects only for live,
authorised work (kernel); a whole file or the old one, and readers that report
only what was written (log); exact slots, meters and outcomes (registry); no
lost line, no orphaned thread, every task let go of (loop); every message
dispatched, none twice by one process (Telegram); a button starts what it
showed, once (approval gate); evidence before effects, and a summary that agrees
with the log (task); an escape is never accepted (worktrees); a plan that knows
it is incomplete, a decision no late verdict changes (lanes); a call charged
once, within its ceiling, and an answer that belongs to its question (engine); a
command that is confined, ends, and says when its output was cut (runner); no
secret in what is shown, however it arrives (secrets); nothing completed without
evidence on disk (CLI); a delivery, an approval and a tool call each admitted
once and by the right party (GitHub, development server, MCP); flows that end;
history that is either what was written or refused (sessions, memory).

## The modules

`Kernel` - `Kernel::step`. The arenas are functions from identifiers to records
with a status `"Absent"`; approvals are a sequence, because their identifiers
are minted in order. One action per way through `process`: the early returns
(`Redeliver`, `CreateTask`, `Absorb`, `ExpireApproval`, `ExhaustBudget`), the
outcomes of `classify_request` (`AllowRequest`, `AskApproval`, `BlockUntagged`,
`DenyRequest`, `AuditRequest`), of `resolve_approval` (`Approve`, `Deny`,
`IgnoreResolution`) and the task table (`MoveTask`). Each contains the whole
step: `apply_job`, the handler, the terminal announcement and `drain_ready`.
The event consumed and the actions returned are variables no transition reads,
so that action properties can relate input, state and output. Meters have the
width `MaxU64` and saturate.

`EventLog` - the writer and the file it leaves. `store_atomic` is split at every
system call; a file is an inode with a synced flag, and `durable` is the inode a
crash may bring back at the path until the directory is synced. `Damaged` is one
storage fault. SHA-256 is taken to be collision free: a digest is the value
hashed. Undecodable bytes are the value `Garbage`, and a path with nothing at it
holds `NoFile`.

`TaskRegistry` - every operation of the registry as an operator on a registry
value. `Registry` calls them in any order, with restarts through the dump file;
`ServeLoop` calls them the way the runtime does. So one translation is checked
under both. `Admin` adds the admin socket's connections to `Registry`: a nonce and
one command, each in a frame, for the chat the socket acts for.

`ServeLoop` - composes the registry, the runtime loop and the task threads. The
loop's round is `Top`, `Collect` (done flag, then channel, as two steps),
`Feed`, `Supervise`, `Drop` (set the flag, then join), `Poll`, operator events,
`EndRound`. A thread is abstracted to its safe points, the lines it sends on the
way and its last two steps: queue the summary, publish done. It may panic, which
publishes nothing, and it may stay where it is for ever.

`Poller` - the long-poll loop against the Bot API's queue: offset, dedupe window
and floor, dispatch one by one, restart at any point. `inOrder` chooses, once,
between a Telegram that answers in order and one that redelivers anything.

`PrGate` - the approval in front of a draft PR: a parked launch, the approval
engine, messages that stay in the chat across restarts while numbers start over. A
message may be lost on the way: the code parks the launch all the same, and its
number can be typed by an operator who never saw what it stands for.

`TaskRun` - one `run_one_task` with its audit log, whose frames are numbered by
hand on every path, the receipt and its join, the two safe points, and the draft
PR (intent, credential helper, push, pull request). Cancels, expiry and a crash
may come at any step; `lapsed` tells an approval that expired before `open_pr`
looked at it, which stops the integration, from one that expired after, which
nothing looks at again. `ServeLoop` has the same thread as the loop sees it.

`Worktrees` - tasks that share one repository: the attributes file that
`create_for` and the git tools rewrite (a write first empties the file), and the
guard manifest over the common parent directory of all worktrees. A manifest has
the trees the bounded walk got to, in any order, and compares sizes and times; a
change that keeps both is not seen. Adding and removing a tree may fail.

`Worker`, over `Worktrees` - one external worker seen through the supervisor's eyes: the guard's
depth-first walk in any directory order up to its entry and depth bounds, the
check, three git commands whose output is cut, confinement, classification and
the patch's address, while a process the worker left may still write. The
guarantee it checks (`WorkIsWhatTheTreeShows`) is for walks that were not cut. A
cut walk can miss a change beyond it: directories are read in the file system's
order, and `run_external_worker_with` does not ask `truncated()`, so the comment
on `GuardManifest::check` (`worker.rs:813`: "Fails closed", "cannot silently hide an
addition") holds only below the bound.

`Nano`, `Evidence` - `crustcore run` as processes on one host: each runs one
task, may be killed at any step, and shares the receipt key and, on one
repository, the worktree of `TaskId(1)`. `Evidence` is the abstract promise of a
verified run - nothing is completed without evidence that is already on disk,
and what was decided stays decided - and `Nano` is shown to implement it
(`NothingCompletesWithoutEvidence`): exit 0 is the completion, a stored log
whose receipt joins at frame 6 is the evidence.

`Receipts`, which `Nano` extends - minting, the MAC chain, its encoding, and what `verify` and
`verify_complete` say of any receipts somebody presents, those of other runs under
the same key among them (`Chain`): every run of a host mints from the same genesis
with the same identifiers. A digest is its preimage.

`Paths` - lexical normalisation and resolution through links against what the
file system does with the same path, while the task's commands move links; a
capability is minted for one root and refused at another (`roots_match`). Between
confinement and use a link may still be moved: the guarantee is for a token that
is fresh.

`Confined` - one command from `run_command` to the runner's return: refusals,
backend, environment; then the child, its descendants, two readers, the timeout
and its escalation. Processes and pipes are the operating system's; a host may be
without the `kill` binary that signals to a group need.

`Secrets` - vault, store, broker, redactor and the streaming redactor; a text is
a sequence of symbols, so that a secret can straddle chunks, overlap another or
begin like it.

`Product`, `Planner`, `Fleet` - pure decisions of the product shell (`Product`),
the way from `crustcore.yml` and a bounded walk of the repository to a verifier
plan and an exported bundle (`Planner`), and a routed, raced, reviewed task with
the improvement cycle (`Fleet`). Paths and commands are representatives: tables say
which of the code's string tests each of them passes. An agent's run takes its slot
and gives it back as two steps, with other callers of the scheduler before and
after and a panic in between, and is charged on three axes.

`Models`, `Wire`, `NetPipe` - candidate selection, budget and fallback; the
helper protocol's escaping and bounds, character by character over an alphabet that
has every character the escapes treat specially, with texts cut at `MAX_TEXT_BYTES`;
and client, pipe and helper process put together, with a helper that may die between
any two lines and that ends at a request line longer than `MAX_LINE_BYTES`.

`Conversation` - Telegram updates and Slack messages to commands, turns and
approvals, with the chat session, steering, buttons and restarts. `PrGate` is
the same gate seen closely, with the clock of the loop, and takes a button to
come back as it was sent; what really comes back is `Conversation`'s matter.

`Hosted` - webhook deliveries with their replay guard, commands in comments, the
push check, check aggregation over the one page of check runs that is read, repairs,
the App's tokens. A push that names no branch, or all of them, gets what git chooses.

`Flow` - the engine's walk over a plan as a stack of walks, one action per kind
of node; drivers answer anything their types allow.

`Session` - views, snapshots, resume, leases and compaction over a log that may
be cut, altered, or altered and given new hashes in between: the hashes have no key.

`Mcp` - registry, gateway, both transports and the output filter on the client's
side; the exposed tools on the server's. Listing goes over the same transport as a
call and may fail; the live hash a call is checked with is the caller's to give.

`Recall`, `Chunks` - the memory store and its file, exact and approximate
nearest vectors (of integers, so that comparisons are exact), the namespaced
chunk store with planner and remote stores; cutting a file into chunks. Both
snapshots are written in place and can tear or be refused when they are read; a hit
must reach the query's floor, and the planner keeps the first `MAX_STORE_HITS`.

`Dev` - configuration, route gate, approval resolution and snapshot stream.

`MC*` modules give the constants of a run. The theorems are in `KernelProofs`,
`EventLogProofs` (with `Secrets`), `TaskRegistryProofs` and, over it,
`RegistryProofs` (with `Session`, `Recall` and `Chunks`) and `ServeLoopProofs` (with
`NetPipe`, `Wire` and `Models`); then in one module per composed run: `GateProofs`
(`PrGate`, `TaskRun`, `Worktrees`, `Worker`, and `Paths`), `WorkProofs` (`Nano`,
`Receipts`, `Fleet`, `Planner`, `Confined`) and `ChannelProofs` (`Poller`, `Flow`,
`Hosted`, `Conversation`, `Mcp`, `Dev`). A component that is proved about has its
specification alone (`PollSpec`, `McpSpec`, ...) beside the actions its run
composes.

Definitions marked *Bug* or *Mutant* are faulty variants of the definition that
follows them. No specification uses them: replacing the definition by its
variant must make TLC refute the property the variant belongs to, which shows
that the property can fail.

## The runs

| Run | Checks | Instance |
|---|---|---|
| `kernel` | `TypeOK`, `AwaitingLinked`, `EndedTaskHasNoLiveJob`; actions `EffectsAreWarranted` (effects only for live work, tools only when authorised), `GrantsAreKept` (approvals settle once, budgets pause, leases guard), `EndIsFinal`, `AppliedOnce` | 2 tasks, 2 jobs, 2 workers, 2 operations, 2 meters of width 4, five event alphabets |
| `eventlog` | `StoredIsWhole`; `LogIsHonest` (types, refusals only for the sequence, readers report only what was written, export gates, exact anchor) | up to 3 frames of 3 metadata and 2 payloads, any number of stores, 1 fault |
| `registry` | `RegistryIsGuarded` (slots, meters, and what an admin connection may change); action `RecordsStand` (first outcome, usage over a restart) | cap 2, 3 tasks (2 with a restart), clock to 2, lease of 1 |
| `serve` `EveryThreadIsHeld` (types, handles for slots, bounded threads, no healthy expiry, last line delivered); liveness `TasksRetire` | 1 slot, 2 launches, 2 budgets, clock to 2 |
| `gates` | `SettledOnce`, `ButtonStartsWhatItShowed`, `LaunchWasAsked`; `EvidencePrecedesEffects`, `TaskEndsAreAccounted`; `WorkersAreGuarded` (trees, and what is taken from a worker) | 2 prompts, 2 numbers per life, 1 restart; every path of one task; 2 tasks and 2 changes per tree; a worker with 3 changes over 4 names and 4 neighbours, guard of 3 entries and depth 1, git output of 2 records |
| `work` | `PlannerIsHonest`, `ReadyIsReviewed`, `FleetIsBounded`, `RoutedAndCharged`, `PipeIsFaithful`, `CommandsAreConfined`, `NoSecretIsShown`, `RecordsAreSound`, `ToolsStayInside`; liveness `RunReturns`; refinement `NothingCompletesWithoutEvidence` | two-line profiles, trees of 4 entries against caps 1 and 3, 2 agents with 3 meters and 1 slot, 2 providers and 2 calls, texts of 2 characters, lines of 11, a command with a child, 2 secrets that overlap or not, 2 runs on one repository, 2 chains of 2 receipts, 2 roots and 11 locations |
| `channels` | `PollerLosesNothing`, `ConversationIsFaithful`, `HostedIsGuarded`, `FlowsEndHonestly`, `SessionsAreFaithful`, `McpIsGuarded`, `RetrievalIsFaithful`, `DevGrantsWhatItShows`; liveness `EveryUpdateDispatched`, `FlowsEnd` | 5 updates, batches and window of 2, 2 restarts; 2 chats; 7 deliveries over a guard of 2, pages of 1 check; 9 plans; 3 frames; 8 MCP records and 2 calls; 3 memories; 3 files of 7 bytes; 2 approvals |
| `kernel_kill`, `serve_cancel`, `prgate_expiry`, `worktrees_filters`, `buttons` | one statement of the repository each, which the code does not meet | |

`gates`, `work` and `channels` put components side by side that meet only at the
values they pass. A behaviour picks one of them at the start (`part`) and leaves
the others at rest, so that a run costs the sum of its parts and not their
product. Where components really share state - registry, loop and threads;
client, pipe and helper; router, race and review - one module composes them.

A property that is a conjunction names its conjuncts, each a definition with a
comment of its own next to the component, and `PROJECT.json` has a mutant for
each of them: every conjunct can fail.

**Alphabets of `kernel`.** The product of all event fields is far too large, and
most of it exercises nothing. `MCKernel` therefore fixes, once per behaviour,
one of five alphabets, each of which lets the fields of one question range
freely: the approval life cycle (every event kind, times before, at and after
the deadline, wrong resolver, number and operation); leases (two named workers
and an unnamed one, every time); budgets (two meters, deltas 0, 1 and
`MaxU64`); two tasks whose events name each other's jobs; a sequenced log,
delivered in any order and any number of times. The first alphabet is also run
under the read-only policy, which denies every request; `Supervised` and `Full`
are classified alike by the code, so only the former is run. `MaxApprovals` is 2 in the first
alphabet (an orphaned approval beside a current one) and 1 in the others. The
`VIEW` drops `event` and `actions`, which no transition reads: two states that
differ only there have the same successors, invariants do not mention `actions`,
and TLC evaluates action properties on every transition it generates, also on
those that lead to a state it has seen. No liveness is checked under the view.

**Bounds.** Every bound is a constant. Two tasks, chats or workers are enough
for any conflict between *one* and *another*; windows, batches and caps are set
to their smallest value that can overflow (a window of 2 with 5 updates evicts
three times; a cap of 1 with 2 launches makes the second wait for the slot of
the first; two numbers and one restart let a number be used again; a replay
guard of 2 forgets the first of three deliveries; a chunk bound of 3 cuts a
file of 7 bytes several times, also where a two-byte character lies across the
bound). Clocks run past every deadline by at least one. Flows get
plans in which every kind of node, a cycle of routes, a fan-out over its limit
and nested loops occur.

**Deadlock.** `serve` is checked for deadlock. The others say
`CHECK_DEADLOCK FALSE`, because they may really stop: the kernel's inputs are an
alphabet with a bound on approvals; a crashed log writer, a finished task, flow
or run has nothing left to do; calls, clocks and restarts are bounded.

## Fairness

`ServeLoop`: weak fairness of the loop alone, which the operating system schedules.
Nothing is assumed of a task thread, of operators or of the clock: a thread waits for
git without a timeout (`worktree/tools.rs:304`), so that it may never reach its next
step, and one that panicked never publishes its end. `TasksRetire` is therefore about
tasks that are over for the loop - done, killed, or out of budget - and says that the
loop lets go of each of them, unless it is held for ever in a join: dropping a handle
waits for its thread, and a killed thread that waits for git holds the whole loop. A
panicked thread keeps its slot until somebody kills it.

`Poller`: weak fairness of dispatching and of a poll that brings a non-empty
answer - the loop backs off and repeats a failed poll for ever, and Telegram
keeps updates until they are confirmed. Without it "every update is dispatched"
would depend on the network; nothing is assumed about restarts, which are
bounded.

`Confined`: weak fairness of the runner's own loop and of its two reader threads
while the run has not returned. Nothing is assumed of the command: it may never
exit, never close its pipes and never heed a signal.

`Flow`: weak fairness of the engine's walk; every driver call is taken to return,
with any answer, as the drivers' own timeouts make it.

In the composed runs these conditions are guarded by `part`, so that they ask
nothing of a component at rest. All other properties are safety properties and
need no fairness.

## The proofs

| Theorem | Module | Property, for every value of the constants |
|---|---|---|
| `KernelInvariant` | `KernelProofs` | the inductive invariant `IInv` |
| `KernelTypeOK`, `TaskAndApprovalAgree`, `EndedTaskLeavesNoJob` | `KernelProofs` | `TypeOK`, `AwaitingLinked`, `EndedTaskHasNoLiveJob` |
| `EndedStaysEnded`, `EventsApplyOnce`, `GrantsHold`, `EffectsWarranted` | `KernelProofs` | the action properties `EndIsFinal`, `AppliedOnce`, `GrantsAreKept`, `EffectsAreWarranted` |
| `StoreIsAtomic`, `LogTellsTheTruth` | `EventLogProofs` | `StoredIsWhole`, `LogIsHonest` |
| `SecretsStaySecret` | `EventLogProofs` | `NoSecretIsShown` |
| `RegistryGuarded`, `RecordsOutlive` | `RegistryProofs` | `RegistryIsGuarded`, the action property `RecordsStand` |
| `SessionsHold` | `RegistryProofs` | `SessionsAreFaithful` |
| `RetrievalHolds` | `RegistryProofs` | `RetrievalIsFaithful` |
| `LoopInvariant`, `ThreadsAreHeld` | `ServeLoopProofs` | `SInv`, `EveryThreadIsHeld` |
| `PipeHolds`, `LedgerHolds` | `ServeLoopProofs` | `PipeIsFaithful`, `RoutedAndCharged` |
| `ApprovalIsSingleUse`, `ButtonIsOperationBound`, `LaunchIsAskedAndTimely` | `GateProofs` | `SettledOnce`, `ButtonStartsWhatItShowed`, `LaunchWasAsked` |
| `EvidenceFirst`, `TaskEndsAccounted` | `GateProofs` | `EvidencePrecedesEffects`, `TaskEndsAreAccounted` |
| `TreesGuarded`, `WorkersGuarded` | `GateProofs` | `TreesAreGuarded`, and with it `WorkersAreGuarded` |
| `ToolsConfined` | `GateProofs` | `ToolsStayInside` |
| `NanoInvariant`, `ExitZeroIsVerified`, `NanoImplementsEvidence` | `WorkProofs` | `NanoInv`, `EvidenceIsSound`, the refinement `NothingCompletesWithoutEvidence` |
| `ReceiptsCannotBeForged`, `RecordsAreReliable` | `WorkProofs` | `OnlyTheChainVerifies`, and with it `RecordsAreSound` |
| `ReadyTasksAreReviewed`, `FleetKeepsItsBounds` | `WorkProofs` | `ReadyIsReviewed`, `FleetIsBounded` |
| `CommandsConfined` | `WorkProofs` | `CommandsAreConfined` |
| `PlansAreHonest` | `WorkProofs` | `PlannerIsHonest` |
| `UpdatesAreKept` | `ChannelProofs` | `PollerLosesNothing` |
| `FlowsAreHonest` | `ChannelProofs` | `FlowsEndHonestly` |
| `HostedGuarded` | `ChannelProofs` | `HostedIsGuarded` |
| `ConversationsAreFaithful` | `ChannelProofs` | `ConversationIsFaithful` |
| `McpGuarded` | `ChannelProofs` | `McpIsGuarded` |
| `DevGrants` | `ChannelProofs` | `DevGrantsWhatItShows` |

`TaskRegistryProofs` holds what every operation of the registry preserves, and
the inductions over numbers; `RegistryProofs` and `ServeLoopProofs` both rest on it.

**Assumptions.** Each is named, stands in the module that declares the constants,
and TLC evaluates it in the run of that module. Nearly all say that bounds are
natural numbers and that a marker is not a value (`None` is no task, no prompt, no
outcome; an absent file is no content): `ConstantsAssumption`, `LogAssumption`,
`RegistryAssumption`, `OutputAssumption`, `LoopAssumption`, `PromptAssumption`,
`TtlAssumption`, `NoneAssumption`, `AbsentAssumption`, `WorkerAssumption`,
`FleetAssumption`, `ConfinedAssumption`, `ReceiptsAssumption`,
`PlannerAssumption`, `PollAssumption`, `FlowAssumption`, `HostedAssumption`,
`DevAssumption`, `PathsAssumption`, `WireAssumption` (the characters that are
escaped are in the alphabet), `NetAssumption` (what `parse_providers` accepts has at
least one model per provider). Five say more. `McpAssumption`: an output of a
foreign server holds a registered secret whole or not at all, since the filter
replaces whole occurrences and knows no pieces. `SecretsAssumption`: the redaction
marker is no part of a secret, without which a redacted text could show one by its
markers. `SessionAssumption`: the policy that drops turns keeps none of them.
`RecallAssumption` and `ChunksAssumption` say what the types of the code do: vectors
are of numbers and there is a table of hyperplanes; a file is text, in which every
character fits into a chunk, and symbols, which come from line starts or a parser,
begin and end between characters. Cosines are compared exactly: the rounding of
`f32` is outside the model and the theorem.
So the theorems hold for any sets of tasks, jobs, workers, operations, prompts,
updates, plans, processes and agents, any meter width, window, cap, clock and
number of restarts or faults.

**The inductive invariants.** A property is seldom inductive as it stands; what
was added says how the component really works.

*Kernel.* `AwaitingLinked` is not inductive alone. `IInv` adds three facts:
`QueueDrained` (the ready queue is empty between steps, so that a step drains
only its own job), `JobsLinked` (a job that exists belongs to a task that exists,
without which a task could be created with jobs already in the arena) and
`FrontierIsLargest` (every applied number is at most the frontier, without which
redelivery could apply one twice). One lemma per action; lemmas about
`BlockedEntry`, `MovedEntry`, `JobAfter` and `Finish` carry what all of them
share. The action properties follow from `IInv` and one lemma per action on what
it emits and which approvals it settles.

*EventLog.* A store moves bytes from memory to a temporary file and then to the
path: `IInv` says what the temporary holds at each step, and that path and
durable copy are whole while no fault has happened. `LogInv` adds that every log
in memory or stored is `Chained`, and that a file is a stored log, a damaged copy
of one, or rubbish (`KnownFile`). What a reader reports of a damaged file then
follows from `ChainsAgree`: two chained logs that end in the same digest are
equal, by the least place where they differ.

*Registry.* `RInv`: slots, scheduler count and meters agree (`IsRegistry`; before
any restart exactly, `FirstLife`; adopted tasks take no slot in the code), the dump
is one a registry wrote (`IsDump`), and what waits for adoption has no slot yet.

*ServeLoop.* `SInv`: what each phase of the round may find (`LoopPhases`), the
registry's count (`RegistryExact`), a handle for each slot or pending drop and a
thread for each handle (`HandlesAgree`), how many lines a thread can have queued by
its step, four at most (`ThreadsFit`, `DrainedFits`), a queued last line is in the channel, in
what was collected, or with the operator (`FinalLineIsSomewhere`), and only a task
whose last line was forwarded is completed (`SlotsAreTold`).

*PrGate.* `GateInv` relates the history to the engine: numbers in use were handed
out (`NumbersGiven`), a settled number is no longer pending in its life
(`SettledIsGone`), the parked launch agrees with the engine's entry of its number
(`ParkedMatchesEngine`), and what is pending was asked (`PendingWasAsked`). A
stale button is then refused because its operation differs from the one under
the number it carries.

*TaskRun.* `RunInv` strengthens the property backwards along the path: no effect
before the persist step (`NoEffectYet`), the log in memory has the evidence from
the persist step on (`LogHasEvidence`), the file from the intent step on
(`FileHasEvidence`). That the approval was in time rests on `Timely`: nothing has
left when `open_pr` looks at it, and past that step it had not expired early. How a task ends rests on a second invariant (`Accounted`):
frames numbered upwards (`Numbered`), the receipt's join (`ReceiptJoins`), where a
stop leaves no outcome (`EarlyStops`, `NoOutcomeYet`), what the summary may say
(`Told`) and what becomes of the worktree (`Trees`).

*Worktrees, Worker.* `TreesInv`: a tree is there from the add to the remove
(`TreeFollowsStep`; past it only where the removal failed), a tree in a manifest was
made before it and each write of the worker moves it past what the manifest has
(`ManifestAges`), a worker that passed the check wrote into no tree its manifest
recorded (`WritesAreSeen`). `WorkerInv`: what
each step of the supervisor has found out is still so at the next one, for a
worker that left nothing running (`Looked`).

*Nano.* `NanoInv`: how far a run has come and the log it keeps and has left
(`Recorded`), a receipt is made with the key that is on disk for good (`Keyed`), a
run with the tree to itself verifies what it names (`Alone`), and two runs that
work at once both know of it (`Shared`). The first attempt failed for a good
reason: the history of who shared a tree was too coarse. A run can make a new tree
while two others still work in the place of the old one, which two processes never
reach. TLC showed it with three, and the history now marks all of them (`Others`).
The refinement of `Evidence` is shown step by step from `NanoInv`.

*Receipts.* `ReceiptsInv`: each chain's shape, its head, and that a presented receipt
is one some run minted or an altered copy. What verifies is minted, place by place
(`AuthenticIsMinted`, `UnbrokenIsInPlace`), and its last receipt names the run whose
beginning it is, for a receipt holds the digest of all before it (`LastNamesTheRun`).

*Fleet.* `FleetInv`: nothing is left of an earlier task (`Fresh`), a race ends with
the first accepted result and its winner has result and proposal (`Raceful`), the
scheduler counts the slots others hold and the one of the running agent (`Slotted`),
ready work has every required review and no refusal (`Reviewed`), usage is within its
budget on every axis (`Budgeted`).

*Confined.* `ConfinedInv`: what was spawned was allowed, with its backend and
environment (`SpawnedIsAllowed`), a capture is the beginning of the stream, the pipe
its end, and what lies between is dropped only once the capture is full
(`StreamsFlow`), the escalation is entered on a timeout only and past it nothing of
the group is left (`Escalated`), and the return has what the readers had
(`ReturnedIsCaptured`).

*Planner.* `PlannerInv` is the property with the shape of an exported bundle;
the work is in the operators: what the walk, the parser and the verifier plan
leave out, they mark.

*Poller.* `PollInv`: everything dispatched is in the window or below the floor
(`Remembers`), one process takes nothing twice (`TakenOnce`), an ordered Telegram
goes on where the poller is (`InSequence`), and what is below the offset was
dropped, dispatched or queued (`Followed`).

*Flow, Hosted, Dev, Conversation, Mcp.* A flow that goes on has booked exactly what
its calls cost (`Booked`). The replay guard is the newest part of what was accepted (`Recent`)
and two admissions of one delivery lie a whole guard apart (`Spaced`). A grant was
due when it was given, and rows of the list are live approvals (`GrantWasDue`,
`RowsAreLive`). What is parked is what its approval was asked for
(`ParkedIsAsked`). A server is registered once, and a tool is exposed with one of
the policy's decisions (`ServersAreOne`, `ExposedAsDecided`).

*Paths.* `PathsInv`: below a node that is no directory there is nothing, however links
and files were moved (`Tree`), and a token that is still fresh holds what its
confinement established, of the tree as it is now (`TokenHolds`): read, the path ends
under the root and outside `.git`; written, its parent does and the last name is no
link. The work is in the operators: a normalised path has no way up, and the code's
canonicalisation and the file system's own walk through at most `MaxHops` links agree.

*Secrets.* `SecretsInv`: whatever was lent is registered (`BrokerFirst`); and where
secrets do not overlap (`Unbordered`) or no forced emit kept part of its buffer
(`split`), what was shown is clean and may end as a
secret begins only if what is held back already differs from how that secret goes on
(`StreamHolds`, `Held`). It rests on two facts about texts: a redacted text has no
registered secret in it, for the marker is no part of one; and a text cut before its
longest end that begins a secret leaves no beginning behind.

*Session.* `SessionInv`: the log in the file and the log that was written are logs
(`LogsAreLogs`), the hashes in the file are those of what was written, or of what
stands there once somebody made them anew (`HashesAreChained`), the turns of a
snapshot are visible ones of its session and its head was the log's (`SavedIsHonest`,
`HeadsAreWritten`), a resumed view is a beginning of what was written unless the
hashes were made anew and, when it was anchored, all of it up to the anchor in any
case (`ViewsAreTrue`), and a compacted history is
within its bounds with every promised turn, or says what it left out
(`HistoriesAreHonest`).

*Recall, Chunks.* `RetrievalInv`, in four parts. A snapshot holds at most what it is to
hold, so that one written to its end is all of it (`MemoryKept`). The answers in hand
agree (`VectorsKept`): a ranking, made by insertion, is sorted and complete
(`RankedInOrder`; being nearer is an order because crosswise products are,
`NearerIs`), fewer candidates rank fewer, and with the first of the exact ranking
among them it is the first of theirs (`FirstOfFewer`). That a perfect match is always
a candidate is the equality case of the Cauchy-Schwarz inequality: for
`D = Dot(q, v)` and `N = Norm2(v)` the sum of the squares of `N q - D v` vanishes, so
both lie on the same side of every hyperplane (`PerfectIsParallel`, `ParallelSides`).
What a resolver knows are chunks, and a context is made of them only (`ContextKept`,
`ResolvedOnce`, `BundleKeeps`). While a file is cut, the regions still to assemble
pave the rest of it without a gap (`Paved`, `Chain`), and every byte before the place
the next chunk starts at is in one, unless a region was given up at its limit
(`Cutting`, `Indexed`).

*NetPipe.* `PipeInv`: the shapes of what is in the pipe (`NetShapes`), one
history entry for each request the helper took (`HistoryIs`), and none yet for a
request still in the pipe (`IdsAreFresh`); while no call has given up, everything in the
pipe belongs to the call in flight, and is either the request or its answer, not
both (`PipeIsMine`), so that what is returned is in step (`AnsweredInStep`). That a
batch which can be read arrives as it was sent, up to the bounds on its texts, is a fact about `Wire` alone (`BatchArrives`), proved
from `ParseUndoesEncode`, `UnescapeUndoesEscape` and `SplitUndoesJoin` by induction
over texts. For the ledger: `BooksBalance` (requests and cost are the number and sum
of the entries charged by this process, `SumUpdate`) and `TriedMeet` (everything a
request was tried on is affordable and, where asked, local), which rests on what
filter, stable sort and fallback keep of the candidates (`PlanIs`).

**Inductions.** The provers cannot instantiate an induction rule, whose parameter is
an operator. Two forms replace it. The least counterexample: a set of natural
numbers with a member has a least one (`LeastNumber`), a theorem on well-founded
orders without an operator parameter (`ChainsAgree`, `UnbrokenIsAPrefix`,
`NthExists`). And induction over a *set*: a set that holds 0 and with each number
the next one holds all of them (`NatSet`, `UpTo`), and one that holds the empty
sequence and with each sequence its extensions by one element holds all sequences
(`SeqSet`). The set of the good values is written down as a set, so that no operator
is needed. `Recursion` shows the same way that a recursive function over an interval
is what its definition reads as, and `Unfolds` that it stays within a set its step
keeps; loops over frames, symbols, path parts, characters, candidates, coordinates,
lines and spans are such functions in the models.

**What the proofs asked of the models.** Operators over data are written by
places and sets instead of by recursion where both say the same: the admin
dispatch as disjoint guards, integration shapes and tool policies by sets of
places, a batch of updates taken one at a time, lines fed to a thread one by one,
a worker's changes as sets of places, approvals and development rows by number,
the webhook history numbered, and the loops over texts, logs and paths as
recursive functions over an interval, with their step as a function of its own.
`RoutedAndCharged` counts what a process charged, call by call, also when it was
nothing (a free model). Records of different kinds carry a tag. None of
this changes what a step does; each definition still stands for the lines
`PROJECT.json` names, and the runs that checked the old forms check the new.

**Model-checked only.** The liveness properties `TasksRetire`,
`EveryUpdateDispatched`, `RunReturns` and `FlowsEnd`: liveness under fairness is out
of the provers' reach.

## Where code and documents disagree

Five statements have a run that refutes them (`findings` in `PROJECT.json`):

* **`kernel_kill`** - a kill that arrives after the approval deadline only pauses
  the task: the expiry sweep returns before the event's kind is looked at
  (`kernel.rs:142`); `state.rs:504` lists the kill among the "safety edges every
  active task must honor".
* **`serve_cancel`** - a cancelled task that reaches no safe point is heartbeated in
  every round (`runtime.rs:607`), so that its lease never lapses; `registry.rs:455`:
  "A cancel that is not honored within the lease TTL escalates to reclaim."
* **`prgate_expiry`** - when nobody answers, the approval expires and the launch
  stays parked, which refuses every new launch (`runtime.rs:862`);
  `runtime.rs:534` says the launch is dropped.
* **`worktrees_filters`** - the git commands on a linked worktree disable filters
  in the canonical repository and do not restore them (`tools.rs:441`);
  `worktree/lib.rs:34` says they are "not permanently disabled".
* **`buttons`** - an approval button's callback data is `ap`, a number, a decision
  and 64 hex digits, always more than the 64 bytes `to_json` keeps
  (`crustcore-net/src/telegram.rs:124`), and the shortened hash is refused when it
  comes back: no button ever approves or denies, only the typed commands do.
  `docs/telegram.md:235` describes the button's `nonce(approval_id, op_hash)`.

Met while modelling, without a run of their own:

* A budget-paused task returns to work through `PatchRejected`, `JobQueued`,
  `JobLeased` without a user steer (`state.rs:240`), while a test comment at
  `kernel.rs:883` says "until a user steer resumes it".
* The event that triggers the expiry sweep is never charged (`kernel.rs:146`
  against `event.rs:174`, "folded into the task budget").
* `adopt_from_snapshot` takes no scheduler slot (`registry.rs:577`), so that a
  registry with adopted tasks admits `max_concurrent` more. Nothing in
  production calls it yet.
* After a restart the last batch of updates is dispatched again: the offset
  reaches Telegram only with the next call and is not persisted
  (`telegram.rs:961`; line 926 says "never re-delivered").
* A mismatched button drops the parked launch while its approval stays pending
  (`runtime.rs:778`, `telegram.rs:648`).
* `/approve` with an old number approves the new operation of that number: the
  command carries no operation hash (`runtime.rs:356`; `telegram.rs:535`).
* When the last store of a verified task fails, the worktree is not removed
  (`task.rs:788`; line 531 says "removed on every path").
  `WorktreeKeptOnlyUnrecorded`, a part of `TaskEndsAreAccounted`, states what does
  hold.
* The escape guard covers the parent directory of all worktrees, so that a
  sibling task's ordinary work rejects a worker (`worker.rs:507`).
* A message that asks for an approval and could not be sent is ignored, and the
  launch is parked all the same (`runtime.rs:885`): a typed `/approve` starts what no
  operator was shown. `LaunchWasAsked` says what does hold.
* An event overtaken by the idempotency frontier is refused like a repeated one and
  lost; `AppliedOnce` does not speak of it.
* A dropped handle is joined without a limit (`task.rs`, `Drop for TaskHandle`): a
  killed task whose thread waits for git stops the loop for everyone.
* Removing a worktree can fail, which nobody looks at (`worktree/lib.rs:267`).
* Two concurrent `create_for` can lose the user's attribute lines: one reads the
  file while the other's write has emptied it (`worktree/lib.rs:174`).

* *Worker.* Its exit status is not looked at, its diff is cut at 1 MiB before it
  is hashed (`worker.rs:652`), and a guard manifest that was truncated is compared
  all the same (`worker.rs:811`), by size and time only.
* *Lanes.* `reviewer.rs:10` says that "a blocking role's `Block` stops integration";
  where no review is required, a `Block` that arrived is not looked at
  (`reviewer.rs:73`, `task_loop.rs:108`). `ReadyIsReviewed` claims it only where one
  is required. The improvement cycle's contract files are those of `CONTRACT_FILES`
  (`selfimprove.rs:251`): the kernel's `event.rs` and `action.rs` are among them, its
  reducer `kernel.rs` is not.
* *CLI.* Every run is `TaskId(1)` (`main.rs:298`), so that two runs on one
  repository share a worktree: the later verifies the earlier's changes too
  (`main.rs:235`). `docs/receipts.md:240` says that nobody can "retell an old receipt
  for a new call"; all runs of a host mint under one key, from genesis, with the same
  identifiers, so that another run's receipt verifies and joins (`main.rs:776-804`).
  `verify_complete` against the head of one's own chain does tell them apart. A crash between creating and writing the receipt key leaves an
  empty key file (`crustcore-receipts/src/lib.rs:38`).
* *Runner.* After the grace period the group is killed although the leader may
  have been reaped by the last poll, and a reused number belongs to others
  (`crustcore-runner/src/lib.rs:246`). Output cut by the readers' deadline, when a
  process outlived the command and still holds the pipe, is not flagged (line 74:
  "Whether either stream was truncated"). Killing a group needs a `kill` binary;
  without one only the leader is killed (line 301).
* *Sandbox.* `crustcore-sandbox/src/lib.rs:1005` says "strongest available
  backend"; `min_by_key` takes the weakest sufficient one. A link that aliases the
  worktree passes the check on `PATH`.
* *Secrets.* `seal` accepts labels and values that `open` refuses; resealing and
  saving memory are plain writes a crash can tear; secrets that are not UTF-8 are
  never redacted. A secret that ends as it or another begins, such as `aba`, can be
  split at a forced emit: the last symbol is kept as the beginning of another, and the
  rest is shown unredacted (`token_stream.rs:66-74`; line 50 says "a secret is never
  split across the emit point", `docs/cot-streaming.md:52` "no leak").
* *Planner.* `product.rs:365`, "Unknown keys fail closed", is not met by indented
  scalars outside a section.
* *Engine.* A stream that breaks off is taken as complete (`transport.rs:307`
  against `lib.rs:173`); a ceiling above `i64::MAX` ends the helper; a missing or
  negative `max_cost_micros` is no limit; a blank line reads as the end of the
  pipe. A text longer than `MAX_TEXT_BYTES` is cut without notice
  (`crustcore-netproto/src/lib.rs:509`), and a request line longer than
  `MAX_LINE_BYTES` ends the helper (670). A client that goes on after a line it could
  not read takes the rest of that answer for the next one (935); `NetEmbedder` keeps
  its one helper after an error (`crustcore-index/src/embed.rs:168`). An OpenAI answer
  that reports no tokens is charged nothing (`providers.rs:192-198`).
* *Conversation.* Approval numbers start over with the daemon; an armed steer is
  shared by all chats; a steered turn is put in front whatever the queue's depth.
* *GitHub.* `serve_webhooks_once` reads to the end of the connection before it
  looks at a length (`webhook.rs:369`); only the first page of check runs is read
  (`crustcore-net/src/github.rs:240`), so that a failed check beyond it leaves a pull
  request green; `validate_push` looks at named refspecs only, so that a push without
  one, `--mirror` and `--all` pass to git, though `github.rs:288` says "Returns `Ok` only
  when *all* refs are in-scope"; the two aggregations of checks disagree on
  failed beside pending.
* *Flow.* The wall-time budget is never charged (`budget.rs:4`); the engine's
  clock stands still; one approval covers every irreversible tool of a flow;
  nested loops share one counter; a call over budget is paid and not booked.
* *Session.* A resumed session may have ended (`lease.rs:55` against
  `resume.rs:86`); compaction to a byte bound can drop the newest turn
  (`compact.rs:35` against 142); receipts that are missing are not noticed by the
  join; a log altered and hashed anew is resumed, unless it is anchored, for the hashes
  have no key (`crustcore-eventlog/src/lib.rs:514`); a snapshot's own fields are trusted (`snapshot.rs:185`); an anchored resume
  refuses a log that has grown.
* *MCP.* Reply ids are not compared with the request's (`transport.rs:66`), and the
  pin is compared only when the caller passes the live hash (`lib.rs:425`).
* *Memory.* `save` writes counts and fields that `load` refuses
  (`crustcore-index/src/lib.rs:325` against 412), and so does the chunk store
  (`local.rs:152-188`), whose snapshot a crash can tear; the planner leaves the store in
  the query's namespace; resolvers are lost on restart; stale chunks take places
  of the result; LanceDB's distance is used as a score; a git listing cut at 8 MiB
  may end in part of a path.
* *Development server.* A snapshot is sent "iff it changed" (`stream.rs:8`), but
  only counts are compared; a rejected resolution removes the row from the list
  while the engine keeps the approval (`backend.rs:518`).

## What is not covered

Encodings, hashing and MACs, rendering and logging are abstracted to what the
properties tell apart; where a conversion matters (callback data, batches of
texts, receipts, profiles, paths, chunk boundaries) it is modelled by what it
does. In `EventLog` one writer writes one file per process, as the callers do.
`Registry` has one chat and one budget. `TaskRun` treats worker, verifier, push
and pull request as steps that succeed, fail, or fail after GitHub did the work.
`Worktrees` has no crash and no reuse of an existing tree (`Nano` has), and its
trees are stamps of sizes and times. `Hosted` has no `--delete`. `Confined` has one
command at a time. `Recall`'s remote stores are an authentication decision, a
request and the rows of an answer; its hints on flaky tests and its lookup of earlier
failures are left out. The models of Telegram, GitHub, the file
system, processes, storage faults and foreign servers are marked external in the
map.

Not modelled, with the reason in `PROJECT.json`: telemetry, evaluation, macros,
zeroizing, build tasks and the front-end binaries (pure data, rendering or
generated code), and inside modelled crates the grammars of the symbol
extractor, the view renderers, onboarding's prompts and the HTTP bodies of each
provider. What the operating system's confinement really prevents is outside
any model of this code.

Liveness under fairness is out of the provers' reach (see *Model-checked only*); no
module declares a recursive operator, so that each can be proved about.

## State of the plan

Done: all modules above; proofs of every safety property of the runs `kernel`,
`eventlog`, `registry`, `serve`, `gates`, `work` and `channels`: each invariant and
action property is a theorem for every value of the constants, and so is the
refinement of `Evidence`.

Left to TLC: the four liveness properties.
