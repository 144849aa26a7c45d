------------------------------ MODULE Product ------------------------------
(***************************************************************************)
(* What the daemon decides about a task before it runs, as functions of    *)
(* the changed paths, the repository's files and its profile               *)
(* (crustcore-daemon product.rs, router.rs, reviewer.rs, task_loop.rs).    *)
(*                                                                         *)
(* Paths and commands are representatives: PathFacts and CommandsPassing   *)
(* say which of the code's string tests each of them passes.               *)
(***************************************************************************)
EXTENDS Naturals, Sequences, SequencesExt, FiniteSets

NoCommand == "none"

-----------------------------------------------------------------------------
(* Vocabulary.                                                             *)

PolicyMode == {"ReadOnly", "Supervised", "Verified", "Approved", "Release"}
RiskTier == <<"Low", "Standard", "High", "Critical">>
ExecutorKind ==
  {"Native", "Codex", "ClaudeCode", "LocalModel", "ExternalCommand", "McpTool"}
TaskShape ==
  {"Unknown", "BugFix", "Feature", "UiChange", "DependencyChange", "DocsOnly",
   "WorkflowChange", "SecuritySensitive"}
TaskGate ==
  {"RegressionTest", "BrowserSmoke", "DependencySafety", "DocsCheck",
   "FullSuite", "WorkflowReview", "SecurityReview"}

\* The order of the derived Ord on RiskTier.
AtLeast(risk, bound) ==
  \E i, j \in DOMAIN RiskTier : RiskTier[i] = risk /\ RiskTier[j] = bound /\ i >= j

\* for_kind: every executor needs a sandbox; the trust posture differs.
CapabilityOf(kind) ==
  [sandbox_required |-> TRUE,
   trust |-> IF kind = "Native" THEN "LocalOnly"
             ELSE IF kind = "McpTool" THEN "ToolGateway" ELSE "ExternalWorker",
   cost |-> IF kind \in {"Native", "LocalModel"} THEN "Local"
            ELSE IF kind \in {"Codex", "ClaudeCode"} THEN "Premium" ELSE "Standard"]

\* Which path tests each representative path passes.
PathFacts ==
  ("" :> {"empty"}
   @@ "crates/crustcore-kernel/src/kernel.rs" :> {"security", "rust", "crate"}
   @@ "docs/policy.md" :> {"security", "docs"}
   @@ ".github/workflows/ci.yml" :> {"workflow"}
   @@ "Cargo.toml" :> {"dependency", "manifest"}
   @@ "ui/app.test.tsx" :> {"ui", "js", "jstest"}
   @@ "docs/guide.md" :> {"docs"}
   @@ "tests/test_api.py" :> {"py", "pytest"}
   @@ "src/lib.rs" :> {"rust"}
   @@ "a b/lib.rs" :> {"rust", "unsafe"})

Has(path, fact) == fact \in PathFacts[path]

\* What the files of a repository tell: the booleans are the presence of a
\* manifest, the commands come from tool configurations.
SignalsOf(markers) ==
  [cargo |-> "Cargo.toml" \in markers,
   npm |-> "package.json" \in markers,
   python |-> "pyproject.toml" \in markers,
   make |-> "Makefile" \in markers,
   lockfile |-> "Cargo.lock" \in markers,
   browser |-> IF "playwright.config.ts" \in markers THEN "npx playwright test"
               ELSE IF "cypress.config.ts" \in markers THEN "npx cypress run"
               ELSE NoCommand,
   audit |-> IF "deny.toml" \in markers THEN "cargo deny check" ELSE NoCommand,
   docs |-> IF "book.toml" \in markers THEN "mdbook test"
            ELSE IF ".markdownlint.json" \in markers THEN "markdownlint ."
            ELSE NoCommand,
   targeted |-> << >>]

\* push_unique_string and add_unique_command.
PushUnique(seq, x) ==
  IF x = "" \/ x \in ToSet(seq) THEN seq ELSE Append(seq, x)

\* The targeted command of one changed path; paths that are not plain words
\* never reach a command line.
TargetedCommands(signals, path) ==
  IF Has(path, "empty") \/ Has(path, "unsafe") THEN << >>
  ELSE (IF ~(signals.cargo /\ (Has(path, "rust") \/ Has(path, "manifest")))
          THEN << >>
        ELSE IF Has(path, "crate") THEN <<"cargo test -p crate">>
        ELSE <<"cargo test">>)
       \o (IF signals.python /\ Has(path, "pytest")
             THEN <<"python -m pytest file">> ELSE << >>)
       \o (IF signals.npm /\ Has(path, "jstest") THEN <<"npm test -- file">> ELSE << >>)

WithHints(signals, changed) ==
  LET found == FoldLeft(LAMBDA acc, p : acc \o TargetedCommands(signals, p),
                        << >>, changed)
  IN  [signals EXCEPT !.targeted = FoldLeft(PushUnique, @, found)]

SignalsEmpty(s) ==
  /\ ~s.cargo /\ ~s.npm /\ ~s.python /\ ~s.make /\ ~s.lockfile
  /\ s.browser = NoCommand /\ s.audit = NoCommand /\ s.docs = NoCommand
  /\ s.targeted = << >>

-----------------------------------------------------------------------------
(* The shape of a task.                                                    *)

\* from_changed_paths: the first sensitive or workflow path ends the loop; an
\* empty one is neither.
ShapeOf(changed) ==
  LET seen == {i \in DOMAIN changed : ~Has(changed[i], "empty")}
      hard == {i \in DOMAIN changed :
                 Has(changed[i], "security") \/ Has(changed[i], "workflow")}
      first == CHOOSE i \in hard : \A j \in hard : i <= j
      Some(fact) == \E i \in seen : Has(changed[i], fact)
  IN  IF hard # {}
        THEN IF Has(changed[first], "security") THEN "SecuritySensitive" ELSE "WorkflowChange"
      ELSE IF seen = {} THEN "Unknown"
      ELSE IF Some("dependency") THEN "DependencyChange"
      ELSE IF Some("ui") THEN "UiChange"
      ELSE IF \A i \in seen : Has(changed[i], "docs") THEN "DocsOnly"
      ELSE "Feature"

-----------------------------------------------------------------------------
(* The verifier plan.                                                      *)

\* The representative commands that pass each of the word tests.  Any other
\* word a profile lists as a command passes none.
CommandsPassing ==
  [review |-> {"manual review"},
   full |-> {"cargo xtask verify", "cargo test -p crate", "cargo test", "cargo test --workspace",
             "npm test", "npm test -- file", "python -m pytest", "python -m pytest file", "make test"},
   test |-> {"cargo test -p crate", "cargo test", "cargo test --workspace", "npm test",
             "npm test -- file", "python -m pytest", "python -m pytest file", "make test",
             "npx playwright test", "mdbook test"},
   browser |-> {"npx playwright test", "npx cypress run"},
   audit |-> {"cargo deny check"},
   docs |-> {"mdbook test", "markdownlint ."}]
Passes(c, test) == c \in CommandsPassing[test]

\* classify_verifier_command, for the commands a profile names.
ClassifyCommand(c) ==
  IF Passes(c, "review") THEN "Review" ELSE IF Passes(c, "full") THEN "Full" ELSE "Targeted"

\* add_signal_commands: what the repository's files and the changed paths add.
SignalCommands(signals, task) ==
  ToSet(signals.targeted)
  \cup (CASE task = "UiChange" -> {signals.browser}
          [] task = "DependencyChange" -> {signals.audit}
          [] task = "DocsOnly" -> {signals.docs}
          [] OTHER -> {})

InferredFull(signals) ==
  {c \in {"cargo test --workspace"} : signals.cargo} \cup {c \in {"npm test"} : signals.npm}
  \cup {c \in {"python -m pytest"} : signals.python} \cup {c \in {"make test"} : signals.make}

\* The commands of a plan, each once and with the stage of its first mention:
\* add_unique_command drops an empty one and one that is there.  Nothing looks
\* at their order.
PlanCommands(profile, signals, task) ==
  LET first == SignalCommands(signals, task) \ {NoCommand, ""}
      named == IF profile.verify = << >> THEN InferredFull(signals) ELSE ToSet(profile.verify)
  IN  {[command |-> c, stage |-> "Targeted"] : c \in first}
      \cup {[command |-> c, stage |-> ClassifyCommand(c)] : c \in named \ (first \cup {""})}

AnyCommand(commands, fact) == \E c \in commands : Passes(c.command, fact)

TaskGates(task) ==
  CASE task = "BugFix" -> {"RegressionTest"}
    [] task = "UiChange" -> {"BrowserSmoke"}
    [] task = "DependencyChange" -> {"DependencySafety"}
    [] task = "DocsOnly" -> {"DocsCheck"}
    [] task = "WorkflowChange" -> {"WorkflowReview"}
    [] task = "SecuritySensitive" -> {"SecurityReview"}
    [] OTHER -> {}

\* What a task of this shape still lacks: each is a warning and makes the
\* evidence weak.
TaskLacks(signals, task, commands) ==
  {w \in {"no regression test"} : task = "BugFix" /\ ~AnyCommand(commands, "test")}
  \cup {w \in {"no browser smoke"} :
          /\ task = "UiChange" /\ signals.browser = NoCommand
          /\ ~AnyCommand(commands, "browser")}
  \cup {w \in {"no lockfile"} : task = "DependencyChange" /\ ~signals.lockfile}
  \cup {w \in {"no audit"} :
          /\ task = "DependencyChange" /\ signals.audit = NoCommand
          /\ ~AnyCommand(commands, "audit")}

\* VerifierPlan::build.
BuildPlan(profile, signals, task) ==
  LET commands == PlanCommands(profile, signals, task)
      weak == {w \in {"no stack"} : SignalsEmpty(signals) /\ profile.verify = << >>}
              \cup {w \in {"no command"} : commands = {}}
              \cup {w \in {"no full suite"} :
                      /\ task # "DocsOnly"
                      /\ ~\E c \in commands : c.stage = "Full"}
              \cup TaskLacks(signals, task, commands)
      notes == {w \in {"general evidence"} :
                  /\ task = "DocsOnly" /\ signals.docs = NoCommand
                  /\ commands # {} /\ ~AnyCommand(commands, "docs")}
               \cup {w \in {"human review"} : task \in {"WorkflowChange", "SecuritySensitive"}}
  IN  [task |-> task, commands |-> commands, warnings |-> weak \cup notes,
       gates |-> TaskGates(task)
                 \cup {g \in {"SecurityReview"} : AtLeast(profile.risk, "High")}
                 \cup {g \in {"FullSuite"} : task # "DocsOnly"},
       strength |-> IF weak # {} THEN "Weak"
                    ELSE IF profile.verify = << >> \/ notes # {} THEN "Standard"
                    ELSE "Strong"]

\* The verifier ids a path affects, and the order they are run in: ids of the
\* whole suite last.
AffectedBy(path, signals) ==
  (IF Has(path, "security") THEN <<"security-review">> ELSE << >>)
  \o (IF Has(path, "rust")
        THEN (IF Has(path, "crate") THEN <<"cargo test -p crate">> ELSE << >>)
             \o (IF signals.cargo THEN <<"cargo test --workspace">> ELSE <<"cargo test">>)
      ELSE IF Has(path, "js") THEN <<"npm test">>
      ELSE IF Has(path, "py") THEN <<"python -m pytest">> ELSE << >>)

IsFullSuiteId(id) ==
  id \in {"cargo test --workspace", "npm test", "python -m pytest", "make test",
          "security-review"}

CommandOrder(changed, signals) ==
  LET ids == FoldLeft(LAMBDA acc, p : FoldLeft(PushUnique, acc, AffectedBy(p, signals)),
                      << >>, changed)
  IN  SelectSeq(ids, LAMBDA id : ~IsFullSuiteId(id))
      \o SelectSeq(ids, IsFullSuiteId)

-----------------------------------------------------------------------------
(* Routing and review.                                                     *)

PickSingle(configured) ==
  IF "Native" \in ToSet(configured) THEN "Native"
  ELSE IF "ClaudeCode" \in ToSet(configured) THEN "ClaudeCode" ELSE configured[1]

PickFanout(configured, maxFanout) ==
  LET distinct == FoldLeft(PushUnique, << >>, configured)
  IN  SubSeq(distinct, 1, IF Len(distinct) < maxFanout THEN Len(distinct) ELSE maxFanout)

\* decide_routing with plan_task: what to run, in order of the rules.
Route(task, risk, budget, configured, minBudget, maxFanout) ==
  LET fleet == PickFanout(configured, maxFanout)
  IN  IF task = "WorkflowChange" THEN [kind |-> "Blocked", fleet |-> << >>]
      ELSE IF configured = << >> THEN [kind |-> "Blocked", fleet |-> << >>]
      ELSE IF task = "SecuritySensitive" \/ AtLeast(risk, "Critical")
        THEN [kind |-> "AdvisoryOnly", fleet |-> << >>]
      ELSE IF /\ task \in {"Feature", "UiChange"} /\ risk = "Standard"
              /\ budget >= minBudget /\ Len(fleet) >= 2
        THEN [kind |-> "Fanout", fleet |-> fleet]
      ELSE [kind |-> "Single", fleet |-> <<PickSingle(configured)>>]

RequiredReviewers(task, risk) ==
  IF task \in {"SecuritySensitive", "WorkflowChange", "DependencyChange"}
    THEN {"Reviewer", "SecurityAuditor"}
  ELSE IF AtLeast(risk, "High") THEN {"Reviewer"} ELSE {}

CanBlock(role) == role \in {"Reviewer", "SecurityAuditor", "Tester"}

\* Bug: a later approval of the same role hides its earlier block.
DecideByLast(verdicts, verified) ==
  LET gating == SelectSeq(verdicts, LAMBDA v : CanBlock(v.role))
  IN  IF gating = << >> THEN "MissingReview"
      ELSE IF ~Last(gating).approve THEN "BlockedBy"
      ELSE IF ~verified THEN "NotVerified" ELSE "Integrate"

\* decide_integration over the verdicts in the order they came.
DecideIntegration(verdicts, verified) ==
  LET gating == {i \in DOMAIN verdicts : CanBlock(verdicts[i].role)}
  IN  IF \E i \in gating : ~verdicts[i].approve THEN "BlockedBy"
      ELSE IF gating = {} THEN "MissingReview"
      ELSE IF ~verified THEN "NotVerified" ELSE "Integrate"

OrchestrateReview(task, risk, verdicts, verified, waited, maxWait) ==
  LET required == RequiredReviewers(task, risk)
      missing == {r \in required : \A i \in DOMAIN verdicts : verdicts[i].role # r}
  IN  IF required = {} THEN "NotRequired"
      ELSE IF missing # {} THEN IF waited >= maxWait THEN "TimedOut" ELSE "Pending"
      ELSE DecideIntegration(verdicts, verified)

\* finalize_task.
FinalizeTask(task, risk, verified, verdicts, waited, maxWait) ==
  IF ~verified THEN "Failed"
  ELSE LET r == OrchestrateReview(task, risk, verdicts, verified, waited, maxWait)
       IN  CASE r \in {"NotRequired", "Integrate"} -> "ReadyToIntegrate"
             [] r = "TimedOut" -> "ReviewTimedOut"
             [] r = "BlockedBy" -> "ReviewBlocked"
             [] OTHER -> "AwaitingReview"

=============================================================================
