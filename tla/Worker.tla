------------------------------- MODULE Worker -------------------------------
(***************************************************************************)
(* How the supervisor finds out what an external worker did                *)
(* (crates/crustcore-backend/src/worker.rs: run_external_worker_with,      *)
(* GuardManifest; crates/crustcore-worktree/src/tools.rs: the git          *)
(* commands). Worktrees has the tasks beside each other; here one worker   *)
(* changes the files of its tree and those next to it, and both are looked *)
(* at through walks and git commands that are bounded. A process the       *)
(* worker left behind may go on meanwhile.                                 *)
(*                                                                         *)
(* A file next to the tree is a stamp: its size and time; 0 when it is not *)
(* there. A change that keeps both is none here, as the guard does not     *)
(* see it. A file of the tree is its version against HEAD, LeadsOut for a  *)
(* link that leads out of the tree, 0 when it is not there. Names do not   *)
(* end in a line break.                                                    *)
(***************************************************************************)
EXTENDS Worktrees, Integers, SequencesExt, FiniteSetsExt

CONSTANTS
  Nearby,            \* paths below the directory the tree is in, as sequences
  NearbyDirs,        \* those that are directories
  Names,             \* the tree's paths in the order git lists them: [place, base, ignored, head]
  MaxGuardEntries,   \* MAX_GUARD_ENTRIES
  MaxGuardDepth,     \* MAX_GUARD_DEPTH
  MaxGitOutput,      \* MAX_GIT_OUTPUT, in records
  MaxDiff,           \* MAX_DIFF_BYTES, in changed files
  MaxEdits           \* bound on the changes of a behaviour

ASSUME WorkerAssumption ==
  /\ {MaxGuardEntries, MaxGuardDepth, MaxGitOutput, MaxDiff, MaxEdits} \subseteq Nat
  /\ IsFiniteSet(Nearby) /\ Nearby \subseteq Seq(STRING) \ {<< >>}
  /\ \A p \in Nearby : Len(p) > 1 => Front(p) \in Nearby \intersect NearbyDirs
  /\ Names \in Seq([place : STRING, base : STRING, ignored : BOOLEAN, head : Nat])

VARIABLES
  nearby,     \* stamp of each path in Nearby
  tree,       \* version of each name of the tree
  edits,      \* changes made so far
  survivor,   \* a process of the worker outlives it
  wstep,      \* the supervisor's next step
  manifest,   \* the GuardManifest taken before the worker
  rewalk,     \* the one check took
  listed,     \* changed_files
  status,     \* status_bytes
  product,    \* << >>, or the WorkerProduct
  atStart     \* history: nearby when the worker was started

workerVars ==
  <<nearby, tree, edits, survivor, wstep, manifest, rewalk, listed, status, product, atStart>>

LeadsOut == -1
Versions == {LeadsOut, 0, 1, 2}

-----------------------------------------------------------------------------
(* The guard.                                                              *)

Visible == {p \in Nearby : nearby[p] # 0 /\ Len(p) <= MaxGuardDepth + 1}
Below(p) == {q \in Visible : Len(q) = Len(p) + 1 /\ IsPrefix(p, q)}

\* walk_guard: the first entries of a depth-first walk that reads every
\* directory in an order of the file system's own.
WalkPrefix(seen) ==
  /\ seen \subseteq Visible
  /\ Cardinality(seen) = Min({MaxGuardEntries, Cardinality(Visible)})
  /\ \A p \in seen : Len(p) > 1 => Front(p) \in seen
  /\ \A p, q \in seen : ~(Below(p) \subseteq seen) /\ ~(Below(q) \subseteq seen)
                        => IsPrefix(p, q) \/ IsPrefix(q, p)

\* Cut short by the entries, where meeting the tree itself counts, or by the depth.
WalkTruncated ==
  LET cut == \/ Cardinality(Visible) > MaxGuardEntries
             \/ \E p \in Visible \cap NearbyDirs : Len(p) = MaxGuardDepth + 1
  IN  {cut} \union (IF Cardinality(Visible) = MaxGuardEntries THEN {TRUE} ELSE {})

\* GuardManifest::snapshot.
Manifests ==
  {[entries |-> [p \in seen |-> nearby[p]], truncated |-> cut] :
     seen \in {s \in SUBSET Visible : WalkPrefix(s)}, cut \in WalkTruncated}

\* Bug: what was added is not looked for.
GuardHoldsKnown(before, now) ==
  \A p \in DOMAIN before : p \in DOMAIN now /\ now[p] = before[p]
\* GuardManifest::check: nothing modified, removed or added.
GuardHolds(before, now) ==
  /\ \A p \in DOMAIN before : p \in DOMAIN now /\ now[p] = before[p]
  /\ DOMAIN now \subseteq DOMAIN before

-----------------------------------------------------------------------------
(* The change, as git tells it.                                            *)

\* Positions in Names.
Changed == {i \in DOMAIN Names : tree[Names[i]] # Names[i].head /\ ~Names[i].ignored}
FirstChanged(k) == {i \in Changed : Cardinality({j \in Changed : j <= i}) <= k}
NamesAt(positions) == {Names[i] : i \in positions}

\* run_git: the output up to the bound; the record at the bound is cut, and
\* porcelain_path drops it when nothing of its path is left.
CutName(n) == [n EXCEPT !.place = "cut", !.base = "cut"]
StatusAll ==
  LET whole == FirstChanged(MaxGitOutput)
      rest == Changed \ whole
  IN  {NamesAt(whole)} \union
      (IF rest = {} THEN {} ELSE {NamesAt(whole) \union {CutName(Names[Min(rest)])}})

\* Bug: the base name decides first.
ClassifyByName(n) ==
  CASE n.base = "manifest" -> "dependency-manifest"
    [] n.base = "credential" -> "possible-credential"
    [] OTHER -> "normal"
\* classify: the first reason that applies.
ClassifyPath(n) ==
  CASE n.place = "workflows" -> "ci-workflow"
    [] n.place # "workflows" /\ n.base = "manifest" -> "dependency-manifest"
    [] n.place # "workflows" /\ n.base = "credential" -> "possible-credential"
    [] OTHER -> "normal"

Risks(names) == {<<ClassifyPath(n), n>> : n \in {m \in names : ClassifyPath(m) # "normal"}}

\* confine_read of a listed path; one that is not there, as a deleted file or
\* a name that was cut, resolves by its parent.
Escapes(n) == n \in DOMAIN tree /\ tree[n] = LeadsOut

\* git_worktree_diff with added files, and its truncation.
WorktreeDiff == {[name |-> Names[i], version |-> tree[Names[i]]] : i \in FirstChanged(MaxDiff)}

-----------------------------------------------------------------------------
(* The steps of run_external_worker_with.                                  *)

WorkerInit ==
  /\ nearby \in [Nearby -> {0, 1}]
  /\ \A p \in Nearby : Len(p) > 1 /\ nearby[p] # 0 => nearby[Front(p)] # 0
  /\ tree = [n \in ToSet(Names) |-> n.head]
  /\ edits = 0 /\ survivor = FALSE /\ wstep = "guard"
  /\ manifest = << >> /\ rewalk = << >> /\ listed = {} /\ status = {}
  /\ product = << >> /\ atStart = nearby

GuardTree ==
  /\ wstep = "guard" /\ wstep' = "exec"
  /\ \E m \in Manifests : manifest' = <<m>>
  /\ atStart' = nearby
  /\ UNCHANGED <<nearby, tree, edits, survivor, rewalk, listed, status, product>>

\* The worker, or what it left running, changes something. A file that comes
\* or goes also moves the stamp of its directory.
MayEdit == edits < MaxEdits /\ (wstep = "exec" \/ (survivor /\ product = << >>))
EditTree(n, version) ==
  /\ MayEdit /\ version # tree[n]
  /\ tree' = [tree EXCEPT ![n] = version] /\ edits' = edits + 1
  /\ UNCHANGED <<nearby, survivor, wstep, manifest, rewalk, listed, status, product, atStart>>
EditNearby(p, gone) ==
  /\ MayEdit
  /\ Len(p) > 1 => nearby[Front(p)] # 0
  /\ gone => nearby[p] # 0 /\ \A q \in Nearby : IsStrictPrefix(p, q) => nearby[q] = 0
  /\ nearby' = [q \in Nearby |->
       CASE q = p -> IF gone THEN 0 ELSE edits + 2
         [] Len(p) > 1 /\ q = Front(p) /\ (gone \/ nearby[p] = 0) -> edits + 2
         [] OTHER -> nearby[q]]
  /\ edits' = edits + 1
  /\ UNCHANGED <<tree, survivor, wstep, manifest, rewalk, listed, status, product, atStart>>

\* exec returns, or fails and ends it.
ExecReturns ==
  /\ wstep = "exec" /\ wstep' \in {"check", "refused"}
  /\ survivor' \in BOOLEAN
  /\ UNCHANGED <<nearby, tree, edits, manifest, rewalk, listed, status, product, atStart>>

CheckNearby ==
  /\ wstep = "check"
  /\ \E m \in Manifests :
       /\ rewalk' = <<m>>
       /\ wstep' = IF GuardHolds(manifest[1].entries, m.entries) THEN "confine" ELSE "refused"
  /\ UNCHANGED <<nearby, tree, edits, survivor, manifest, listed, status, product, atStart>>

\* Bug: an escaping path is left out instead of refused.
ListChangesSkipping ==
  /\ wstep = "confine" /\ wstep' = "status"
  /\ \E all \in StatusAll : listed' = {n \in all : ~Escapes(n)}
  /\ UNCHANGED <<nearby, tree, edits, survivor, manifest, rewalk, status, product, atStart>>
\* confine_worktree_changes.
ListChanges ==
  /\ wstep = "confine"
  /\ \E all \in StatusAll :
       IF \E n \in all : Escapes(n)
         THEN wstep' = "refused" /\ UNCHANGED listed
         ELSE wstep' = "status" /\ listed' = all
  /\ UNCHANGED <<nearby, tree, edits, survivor, manifest, rewalk, status, product, atStart>>

\* extract_change: a second status, then the diff.
ExtractStatus ==
  /\ wstep = "status" /\ wstep' = "diff"
  /\ \E all \in StatusAll : status' = all
  /\ UNCHANGED <<nearby, tree, edits, survivor, manifest, rewalk, listed, product, atStart>>

\* Refused without a listed change; otherwise the patch is addressed by both.
ExtractDiff ==
  /\ wstep = "diff"
  /\ IF listed = {} THEN wstep' = "refused" /\ UNCHANGED product
     ELSE /\ wstep' = "made"
          /\ product' = <<[address |-> <<status, WorktreeDiff>>, risks |-> Risks(listed)]>>
  /\ UNCHANGED <<nearby, tree, edits, survivor, manifest, rewalk, listed, status, atStart>>

\* git fails in any of the three commands.
GitFails ==
  /\ wstep \in {"confine", "status", "diff"} /\ wstep' = "refused"
  /\ UNCHANGED <<nearby, tree, edits, survivor, manifest, rewalk, listed, status, product, atStart>>

WorkerNext ==
  \/ GuardTree \/ ExecReturns \/ CheckNearby \/ ListChanges \/ ExtractStatus \/ ExtractDiff
  \/ GitFails
  \/ \E n \in ToSet(Names), version \in Versions : EditTree(n, version)
  \/ \E p \in Nearby, gone \in BOOLEAN : EditNearby(p, gone)

WorkerSpec == WorkerInit /\ [][WorkerNext]_workerVars

-----------------------------------------------------------------------------
\* A worker that left nothing running has a product only if it changed its
\* tree, led no listed change out of it, and, where neither walk was cut short,
\* left the sizes and times of everything next to it alone; while its change
\* fits the bound of git's output, every file the patch is addressed by was looked at, and one of a
\* sensitive kind is named as a risk (run_external_worker_with).
WorkIsWhatTheTreeShows ==
  wstep = "made" /\ ~survivor =>
    /\ \E n \in ToSet(Names) : tree[n] # n.head
    /\ ~manifest[1].truncated /\ ~rewalk[1].truncated => nearby = atStart
    /\ Cardinality(Changed) <= MaxGitOutput =>
         LET addressed == product[1].address
         IN  \A n \in addressed[1] \union {h.name : h \in addressed[2]} :
               /\ tree[n] # LeadsOut
               /\ n.place = "workflows" \/ n.base \in {"manifest", "credential"}
                    => \E r \in product[1].risks : r[2] = n

\* No worker gets away with work its tree does not show, nor with a change of a
\* sibling's tree that the bounded walk recorded: Worktrees and this module share
\* no state, and both must hold for a worker's change to be taken (WorktreeManager, GuardManifest, run_external_worker_with).
WorkersAreGuarded == TreesAreGuarded /\ WorkIsWhatTheTreeShows

=============================================================================
