------------------------------ MODULE Planner ------------------------------
(***************************************************************************)
(* From a repository to a verifier plan and an evidence bundle             *)
(* (crustcore-daemon product.rs, repo_profiler.rs, onboarding.rs):         *)
(* crustcore.yml is read line by line, the tree is walked under two caps,  *)
(* the plan is built, and a bundle collects what the verifier found and is *)
(* exported with bounded lists.                                            *)
(*                                                                         *)
(* A line is its indentation, its form, its key and its value. Of the      *)
(* budget, github and ui sections one key each is kept: repair_attempts    *)
(* (the one that can overflow), open_draft_pr, cockpit.                    *)
(***************************************************************************)
EXTENDS Product

CONSTANTS
  ProfileLines,    \* the lines a file is made of
  MaxLines,        \* bound on the lines of a file
  MaxVerify, MaxExecutors, MaxLabels,  \* caps of the lists
  Trees,           \* repositories: what is at each of the walk's places
  MaxDepth, MaxPaths,                  \* caps of the walk
  Changes,         \* sequences of changed paths
  MaxExport,       \* cap of each exported list
  MaxCommands      \* bound on the recorded commands

ASSUME PlannerAssumption == {MaxDepth, MaxPaths, MaxExport, MaxCommands} \subseteq Nat

VARIABLES
  planStage,  \* "parse", "error", "parsed", "planned", "bundled"
  profile,    \* RepoProfile
  section,    \* the section the parser is in
  lines,      \* number of lines read
  snapshot,   \* RepoPathSnapshot of the last walk
  plan,       \* VerifierPlan with the paths it was made for
  bundle      \* EvidenceBundle

plannerVars ==
  <<planStage, profile, section, lines, snapshot, plan, bundle>>

-----------------------------------------------------------------------------
(* crustcore.yml.                                                          *)

DefaultProfile ==
  [policy |-> "Supervised", risk |-> "Standard", verify |-> << >>,
   executors |-> <<"Native">>, labels |-> <<"crustcore", "needs-human-review">>,
   attempts |-> 2, draft |-> TRUE, cockpit |-> TRUE]

Sections == {"verify", "executors", "budget", "github", "ui", "labels"}

\* push_nonempty and ensure_capacity: FALSE stands for the parse error.
CanPush(list, value, cap) == Len(list) < cap /\ value # ""

\* A scalar at the top level: the new profile, or {} for an error.
TopScalar(p, key, value) ==
  CASE key = "policy_mode" ->
         IF value \in PolicyMode THEN {[p EXCEPT !.policy = value]} ELSE {}
    [] key = "risk_tier" ->
         IF value \in ToSet(RiskTier) THEN {[p EXCEPT !.risk = value]} ELSE {}
    [] key = "verify" -> {[p EXCEPT !.verify = <<value>>]}
    [] key = "executors" ->
         IF value \in ExecutorKind THEN {[p EXCEPT !.executors = <<value>>]} ELSE {}
    [] key = "labels" -> {[p EXCEPT !.labels = <<value>>]}
    [] OTHER -> {}

\* A value added to the list of a section.
PushTo(p, sec, value) ==
  CASE sec = "verify" ->
         IF CanPush(p.verify, value, MaxVerify)
           THEN {[p EXCEPT !.verify = Append(@, value)]} ELSE {}
    [] sec = "executors" ->
         IF Len(p.executors) < MaxExecutors /\ value \in ExecutorKind
           THEN {[p EXCEPT !.executors = Append(@, value)]} ELSE {}
    [] sec = "labels" ->
         IF CanPush(p.labels, value, MaxLabels)
           THEN {[p EXCEPT !.labels = Append(@, value)]} ELSE {}
    [] OTHER -> {}

\* An indented scalar. In a list section the key is not looked at.
SectionScalar(p, sec, key, value) ==
  CASE sec = "budget" ->
         IF key = "repair_attempts" /\ value \in {"9"}
           THEN {[p EXCEPT !.attempts = 9]} ELSE {}
    [] sec = "github" ->
         CASE key = "open_draft_pr" /\ value \in {"true", "false"} ->
                {[p EXCEPT !.draft = (value = "true")]}
           [] key = "labels" -> {[p EXCEPT !.labels = <<value>>]}
           [] OTHER -> {}
    [] sec = "ui" ->
         IF key = "cockpit" /\ value \in {"true", "false"}
           THEN {[p EXCEPT !.cockpit = (value = "true")]} ELSE {}
    [] sec = "top" -> TopScalar(p, key, value)
    [] OTHER -> PushTo(p, sec, value)

\* The section a line leaves the parser in, and the profiles it allows.
ReadLine(p, sec, l) ==
  CASE l.form = "item" -> [sec |-> sec, out |-> PushTo(p, sec, l.value)]
    [] l.form = "section" ->
         IF l.key \notin Sections THEN [sec |-> sec, out |-> {}]
         ELSE [sec |-> l.key,
               out |-> {CASE l.key = "labels" -> [p EXCEPT !.labels = << >>]
                          [] l.key = "executors" -> [p EXCEPT !.executors = << >>]
                          [] OTHER -> p}]
    [] l.form = "scalar" /\ l.indented ->
         [sec |-> sec, out |-> SectionScalar(p, sec, l.key, l.value)]
    [] OTHER -> [sec |-> "top", out |-> TopScalar(p, l.key, l.value)]

Parse(l) ==
  /\ planStage = "parse" /\ lines < MaxLines
  /\ LET r == ReadLine(profile, section, l)
     IN  /\ section' = r.sec
         /\ \/ r.out = {} /\ planStage' = "error" /\ UNCHANGED profile
            \/ /\ profile' \in r.out
               /\ UNCHANGED planStage
  /\ lines' = lines + 1
  /\ UNCHANGED <<snapshot, plan, bundle>>

\* load_profile: a file with no line at all is not a profile.
EndOfFile ==
  /\ planStage = "parse" /\ section' = "top"
  /\ planStage' = IF lines = 0 THEN "error" ELSE "parsed"
  /\ UNCHANGED <<profile, lines, snapshot, plan, bundle>>

-----------------------------------------------------------------------------
(* The walk. The places of a tree in the order they are visited: a, the    *)
(* entries d and e of a, and b. What is at a place is a marker file, "dir",*)
(* "symlink", "ignored" (a build directory), "unsafe" or "none".           *)

Places == <<"a", "a/d", "a/e", "b">>
Above(place) == IF place \in {"a/d", "a/e"} THEN "a" ELSE "root"
DepthOf(place) == IF Above(place) = "root" THEN 0 ELSE 1

NewSnapshot ==
  [paths |-> << >>, symlinks |-> 0, skipped |-> 0, entered |-> {"root"}, marks |-> {}]

\* The walk ends here, and says so.
Stop(s) == [s EXCEPT !.marks = {"truncated", "stopped"}]

\* An entry that is counted, passed by or kept.
Skip(s) == [s EXCEPT !.skipped = @ + 1]
PassLink(s) == [s EXCEPT !.symlinks = @ + 1]
Keep(s, place) == [s EXCEPT !.paths = Append(@, place)]

\* Bug: a directory beyond the depth cap is passed over in silence.
EnterSilently(tree, s, place) ==
  IF tree[place] # "dir" \/ DepthOf(place) >= MaxDepth THEN s
  ELSE IF Len(s.paths) >= MaxPaths THEN Stop(s)
  ELSE [s EXCEPT !.entered = @ \cup {place}]

\* The head of the call for a directory that was kept.
Enter(tree, s, place) ==
  IF tree[place] # "dir" THEN s
  ELSE IF DepthOf(place) >= MaxDepth THEN [s EXCEPT !.marks = @ \cup {"truncated"}]
  ELSE IF Len(s.paths) >= MaxPaths THEN Stop(s)
  ELSE [s EXCEPT !.entered = @ \cup {place}]

\* One turn of profile_dir's loop.
Visit(tree, s, place) ==
  IF "stopped" \in s.marks \/ Above(place) \notin s.entered \/ tree[place] = "none" THEN s
  ELSE IF Len(s.paths) >= MaxPaths THEN Stop(s)
  ELSE IF tree[place] = "unsafe" THEN Skip(s)
  ELSE IF tree[place] = "ignored" THEN s
  ELSE IF tree[place] = "symlink" THEN PassLink(s)
  ELSE Enter(tree, Keep(s, place), place)

Profiled(tree) ==
  LET a == Visit(tree, NewSnapshot, "a")
      d == Visit(tree, a, "a/d")
      e == Visit(tree, d, "a/e")
  IN  Visit(tree, e, "b")

MarkersIn(tree, s) == {tree[s.paths[i]] : i \in DOMAIN s.paths}

\* profile, to_signals, with_changed_path_hints and plan_verification.
PlanRepo(tree, changed) ==
  /\ planStage = "parsed"
  /\ LET s == Profiled(tree)
         signals == WithHints(SignalsOf(MarkersIn(tree, s)), changed)
     IN  /\ snapshot' = [tree |-> tree, seen |-> s]
         /\ plan' = [changed |-> changed, signals |-> signals,
                     order |-> CommandOrder(changed, signals),
                     built |-> BuildPlan(profile, signals, ShapeOf(changed))]
  /\ planStage' = "planned"
  /\ UNCHANGED <<profile, section, lines, bundle>>

-----------------------------------------------------------------------------
(* The evidence bundle.                                                    *)

NewBundle(risks) ==
  [lifecycle |-> "Planning", commands |-> << >>, patch_hash |-> "", ci |-> "Unknown",
   receipts |-> 0, risks |-> risks]

\* from_verifier_plan; of the plan the bundle keeps the warnings.
StartBundle ==
  /\ planStage = "planned"
  /\ bundle' = NewBundle(Cardinality(plan.built.warnings))
  /\ planStage' = "bundled"
  /\ profile' = DefaultProfile /\ snapshot' = << >> /\ plan' = << >> /\ lines' = 0
  /\ UNCHANGED section

Bundle(b) ==
  /\ planStage = "bundled" /\ bundle' = b /\ b # bundle
  /\ UNCHANGED <<planStage, profile, section, lines, snapshot, plan>>

RecordCommand(passed) ==
  /\ planStage = "bundled" /\ Len(bundle.commands) < MaxCommands
  /\ LET ran == [bundle EXCEPT !.commands = Append(@, passed)]
     IN  Bundle([ran EXCEPT !.lifecycle = "Verifying"])
RecordPatch == planStage = "bundled" /\ Bundle([bundle EXCEPT !.patch_hash = "hash"])
RecordReceipt ==
  /\ planStage = "bundled" /\ bundle.receipts < MaxCommands
  /\ Bundle([bundle EXCEPT !.receipts = @ + 1])
RecordCi(ci) == planStage = "bundled" /\ Bundle([bundle EXCEPT !.ci = ci])
Block == planStage = "bundled" /\ Bundle([bundle EXCEPT !.lifecycle = "Blocked"])

\* Bug: the verdict is made from the exported commands.
VerdictOfExport(b) ==
  LET shown == SubSeq(b.commands, 1, IF Len(b.commands) < MaxExport
                                       THEN Len(b.commands) ELSE MaxExport)
  IN  IF b.lifecycle = "Blocked" THEN "Blocked"
      ELSE IF shown = << >> THEN "NoVerifierEvidence"
      ELSE IF \E i \in DOMAIN shown : ~shown[i] THEN "FailedVerifier"
      ELSE IF b.patch_hash = "" THEN "MissingPatch"
      ELSE IF b.ci = "Failed" THEN "CiFailed"
      ELSE IF b.receipts = 0 THEN "MissingReceipts" ELSE "Sufficient"

VerdictOf(b) ==
  IF b.lifecycle = "Blocked" THEN "Blocked"
  ELSE IF b.commands = << >> THEN "NoVerifierEvidence"
  ELSE IF \E i \in DOMAIN b.commands : ~b.commands[i] THEN "FailedVerifier"
  ELSE IF b.patch_hash = "" THEN "MissingPatch"
  ELSE IF b.ci = "Failed" THEN "CiFailed"
  ELSE IF b.receipts = 0 THEN "MissingReceipts" ELSE "Sufficient"

Shown(n) == IF n > MaxExport THEN MaxExport ELSE n

\* export_json: bounded lists beside a verdict over all of them.
ExportJson(b) ==
  [verdict |-> VerdictOf(b), human_review_required |-> TRUE,
   commands |-> SubSeq(b.commands, 1, Shown(Len(b.commands))),
   receipts |-> Shown(b.receipts), risks |-> Shown(b.risks),
   truncated |-> \/ Len(b.commands) > MaxExport \/ b.risks > MaxExport
                 \/ b.receipts > MaxExport]

\* to_markdown: the same lists, each with the number of entries left out.
ToMarkdown(b) ==
  [verdict |-> VerdictOf(b),
   commands |-> SubSeq(b.commands, 1, Shown(Len(b.commands))),
   moreCommands |-> Len(b.commands) - Shown(Len(b.commands)),
   moreReceipts |-> b.receipts - Shown(b.receipts)]

-----------------------------------------------------------------------------
PlannerInit ==
  /\ planStage = "parse" /\ profile = DefaultProfile /\ section = "top"
  /\ lines = 0
  /\ snapshot = << >> /\ plan = << >> /\ bundle = << >>

PlannerNext ==
  \/ \E l \in ProfileLines : Parse(l)
  \/ EndOfFile
  \/ \E tree \in Trees, changed \in Changes : PlanRepo(tree, changed)
  \/ StartBundle
  \/ \E passed \in BOOLEAN : RecordCommand(passed)
  \/ RecordPatch \/ RecordReceipt \/ Block
  \/ \E ci \in {"Pending", "Passed", "Failed", "Skipped"} : RecordCi(ci)

PlannerSpec == PlannerInit /\ [][PlannerNext]_plannerVars

-----------------------------------------------------------------------------
(* Properties.                                                             *)

\* The plan is as strong as it says (VerifierPlan::build over the walk): one
\* called strong has what its shape of task needs, and when the walk that fed
\* it is not marked truncated, every file outside skipped directories and
\* links was seen (profile_dir).
PlanIsHonest ==
  planStage = "planned" =>
    /\ plan.built.strength = "Strong" =>
         /\ profile.verify # << >>
         /\ plan.built.task # "DocsOnly" => AnyCommand(plan.built.commands, "full")
         /\ plan.built.task = "UiChange" => AnyCommand(plan.built.commands, "browser")
         /\ plan.built.task = "DependencyChange" =>
              plan.signals.lockfile /\ AnyCommand(plan.built.commands, "audit")
    /\ "truncated" \notin snapshot.seen.marks =>
         LET open == {p \in {"a", "b"} : snapshot.tree[p] = "dir"} \cup {"root"}
         IN  /\ \A p \in ToSet(snapshot.seen.paths) :
                  snapshot.tree[p] = "dir" => p \in snapshot.seen.entered
             /\ \A i \in DOMAIN Places :
                  (/\ Above(Places[i]) \in open
                   /\ snapshot.tree[Places[i]]
                        \notin {"none", "unsafe", "ignored", "symlink"})
                  => Places[i] \in ToSet(snapshot.seen.paths)

\* Both exports of a bundle agree with the whole of it (export_json,
\* to_markdown): a failed command that the bounded list leaves out is still
\* in the verdict, and a list that is cut says so.
ExportsNeverContradict ==
  planStage = "bundled" =>
    LET json == ExportJson(bundle)
        body == ToMarkdown(bundle)
    IN  /\ json.verdict = body.verdict
        /\ json.verdict = "Sufficient" =>
             /\ \A i \in DOMAIN bundle.commands : bundle.commands[i]
             /\ bundle.receipts > 0 /\ bundle.patch_hash # ""
        /\ json.verdict = "FailedVerifier" =>
             json.truncated \/ \E i \in DOMAIN json.commands : ~json.commands[i]
        /\ json.commands # bundle.commands => json.truncated /\ body.moreCommands > 0

\* What the planner says of its plan and of its evidence is what it has
\* (VerifierPlan::build, EvidenceBundle::verdict, export_json, to_markdown).
PlannerIsHonest == PlanIsHonest /\ ExportsNeverContradict

=============================================================================
