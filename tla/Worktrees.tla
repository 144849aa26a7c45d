----------------------------- MODULE Worktrees ------------------------------
(***************************************************************************)
(* What the concurrent tasks of one daemon share: the canonical repository *)
(* and the directory their disposable worktrees live in                    *)
(* (crates/crustcore-worktree: WorktreeManager, neutralize_attribute_      *)
(* drivers; crates/crustcore-backend/src/worker.rs: run_external_worker,   *)
(* GuardManifest).                                                         *)
(*                                                                         *)
(* The repository's info/attributes file is one file for all its worktrees *)
(* (git resolves it to the common directory).  It is the set of its lines; *)
(* std::fs::write empties it before it fills it.  A worktree is a stamp:   *)
(* the sizes and times of its files, counted up by each change that moves  *)
(* them; one that keeps a file's size and puts its time back is none here, *)
(* as the guard does not see it.  TreeTask ids are fresh, so that          *)
(* create_for never meets an older tree.                                   *)
(***************************************************************************)
EXTENDS Integers

CONSTANTS
  TreeTask,       \* the tasks
  MaxWrites,  \* bound on the changes of a tree
  Absent

ASSUME AbsentAssumption ==
  /\ MaxWrites \in Nat
  /\ Absent \notin Nat /\ \A lines \in SUBSET {"lfs", "-filter"} : lines # Absent
  /\ Absent \notin {"failed", "rejected", "no-changes", "accepted"}

VARIABLES
  attrs,    \* the lines of info/attributes, or Absent when there is no file
  user,     \* the lines it had before the daemon started
  trees,    \* each task's worktree: its stamp, or Absent
  at,       \* each task's next step
  saved,    \* create_for's copy of the file
  buf,      \* what the pending write of the file will leave
  guard,    \* each worker's GuardManifest
  wrote,    \* history: the trees whose stamp each worker moved
  outcome   \* how the task ended, or Absent

treesVars == <<attrs, user, trees, at, saved, buf, guard, wrote, outcome>>

Lines(file) == IF file = Absent THEN {} ELSE file

\* snapshot_parent: the directory but for the task's own tree, as far as the
\* walk gets before MAX_GUARD_ENTRIES or MAX_GUARD_DEPTH stops it, in an order
\* of the file system's own.  A tree it does not reach is not recorded.
TreeManifests(t) ==
  {[o \in TreeTask \ {t} |-> IF o \in reached THEN trees[o] ELSE Absent] :
     reached \in SUBSET (TreeTask \ {t})}

Goes(t, step) == at' = [at EXCEPT ![t] = step]
Ends(t, how) == outcome' = [outcome EXCEPT ![t] = how]

TreesInit ==
  /\ user \in {Absent, {"lfs"}} /\ attrs = user
  /\ trees = [t \in TreeTask |-> Absent] /\ at = [t \in TreeTask |-> "create"]
  /\ saved = [t \in TreeTask |-> Absent] /\ buf = [t \in TreeTask |-> Absent]
  /\ guard = [t \in TreeTask |-> Absent]
  /\ wrote = [t \in TreeTask |-> {}] /\ outcome = [t \in TreeTask |-> Absent]

-----------------------------------------------------------------------------
(* neutralize_attribute_drivers, then `next`.                              *)

Neutralize(t, step, write, next) ==
  \/ /\ at[t] = step
     /\ IF "-filter" \in Lines(attrs)
          THEN Goes(t, next) /\ UNCHANGED <<attrs, buf>>
          ELSE /\ attrs' = {}
               /\ buf' = [buf EXCEPT ![t] = Lines(attrs) \union {"-filter"}]
               /\ Goes(t, write)
     /\ UNCHANGED <<user, trees, saved, guard, wrote, outcome>>
  \/ /\ at[t] = write
     /\ attrs' = buf[t] /\ buf' = [buf EXCEPT ![t] = Absent]
     /\ Goes(t, next)
     /\ UNCHANGED <<user, trees, saved, guard, wrote, outcome>>

-----------------------------------------------------------------------------
(* create_for.                                                             *)

ReadOriginal(t) ==
  /\ at[t] = "create"
  /\ saved' = [saved EXCEPT ![t] = attrs]
  /\ Goes(t, "neutralize")
  /\ UNCHANGED <<attrs, user, trees, buf, guard, wrote, outcome>>

NeutralizeRepo(t) == Neutralize(t, "neutralize", "neutralizing", "add")

Add(t) ==
  /\ at[t] = "add"
  /\ \/ trees' = [trees EXCEPT ![t] = 0] /\ UNCHANGED outcome
     \/ Ends(t, "failed") /\ UNCHANGED trees
  /\ Goes(t, "restore")
  /\ UNCHANGED <<attrs, user, saved, buf, guard, wrote>>

\* The original bytes are written back, or a file that was not there removed,
\* whether or not the add succeeded.
Restore(t) ==
  LET next == IF outcome[t] = "failed" THEN "done" ELSE "snapshot"
  IN  \/ /\ at[t] = "restore"
         /\ IF saved[t] = Absent THEN attrs' = Absent /\ Goes(t, next)
                               ELSE attrs' = {} /\ Goes(t, "restoring")
         /\ UNCHANGED <<user, trees, saved, buf, guard, wrote, outcome>>
      \/ /\ at[t] = "restoring"
         /\ attrs' = saved[t] /\ Goes(t, next)
         /\ UNCHANGED <<user, trees, saved, buf, guard, wrote, outcome>>

-----------------------------------------------------------------------------
(* run_external_worker.                                                    *)

Snapshot(t) ==
  /\ at[t] = "snapshot"
  /\ \E m \in TreeManifests(t) : guard' = [guard EXCEPT ![t] = m]
  /\ Goes(t, "worker")
  /\ UNCHANGED <<attrs, user, trees, saved, buf, wrote, outcome>>

\* The worker changes a tree, its own or, where no sandbox stops it, another.
WorkerWrites(t, o) ==
  /\ at[t] = "worker" /\ trees[o] # Absent /\ trees[o] < MaxWrites
  /\ trees' = [trees EXCEPT ![o] = @ + 1]
  /\ wrote' = [wrote EXCEPT ![t] = @ \union {o}]
  /\ UNCHANGED <<attrs, user, at, saved, buf, guard, outcome>>

\* exec returns: with the worker's result, or the sandbox's error.
WorkerExits(t) ==
  /\ at[t] = "worker"
  /\ \/ Goes(t, "check") /\ UNCHANGED outcome
     \/ Ends(t, "failed") /\ Goes(t, "remove")
  /\ UNCHANGED <<attrs, user, trees, saved, buf, guard, wrote>>

\* Bug: only the names are compared, not sizes and times.
UnchangedNamesOnly(before, now) ==
  \A o \in DOMAIN before : (before[o] = Absent) = (now[o] = Absent)

\* GuardManifest::check: nothing added, removed or modified.  Whether a walk
\* was cut short is not asked.
Unchanged(before, now) == before = now

CheckGuard(t) ==
  /\ at[t] = "check"
  /\ \E m \in TreeManifests(t) :
       IF Unchanged(guard[t], m)
         THEN Goes(t, "confine") /\ UNCHANGED outcome
         ELSE Ends(t, "rejected") /\ Goes(t, "remove")
  /\ UNCHANGED <<attrs, user, trees, saved, buf, guard, wrote>>

\* confine_worktree_changes and extract_change run three git commands on the
\* tree, each of which neutralizes the attributes first.
DeriveChange(t) ==
  \/ Neutralize(t, "confine", "confining", "status")
  \/ Neutralize(t, "status", "writing-status", "diff")
  \/ Neutralize(t, "diff", "writing-diff", "judge")

\* A git command fails, or a changed path leads out of the tree.
DeriveFails(t) ==
  /\ at[t] \in {"status", "diff", "judge"}
  /\ Ends(t, "failed") /\ Goes(t, "remove")
  /\ UNCHANGED <<attrs, user, trees, saved, buf, guard, wrote>>

Judge(t) ==
  /\ at[t] = "judge"
  /\ Ends(t, IF trees[t] = 0 THEN "no-changes" ELSE "accepted")
  /\ Goes(t, "remove")
  /\ UNCHANGED <<attrs, user, trees, saved, buf, guard, wrote>>

\* The manager removes the tree; a removal that fails is ignored and leaves
\* all or part of it, and a task that could not store its audit returns before
\* it tries.
RemoveTree(t) ==
  /\ at[t] = "remove"
  /\ \E left \in {Absent} \union trees[t] .. MaxWrites :
       trees' = [trees EXCEPT ![t] = left]
  /\ Goes(t, "done")
  /\ UNCHANGED <<attrs, user, saved, buf, guard, wrote, outcome>>

TreesNext ==
  \E t \in TreeTask :
    \/ ReadOriginal(t) \/ NeutralizeRepo(t) \/ Add(t) \/ Restore(t)
    \/ Snapshot(t) \/ \E o \in TreeTask : WorkerWrites(t, o)
    \/ WorkerExits(t) \/ CheckGuard(t) \/ DeriveChange(t)
    \/ DeriveFails(t) \/ Judge(t) \/ RemoveTree(t)

TreesSpec == TreesInit /\ [][TreesNext]_treesVars

-----------------------------------------------------------------------------
(* Properties.                                                             *)

Writing == {"neutralizing", "confining", "writing-status", "writing-diff"}
Deriving == {"confine", "status", "diff", "judge"} \union
            (Writing \ {"neutralizing"})

\* A task has a tree while it works in one and an outcome once it is done, and
\* a write of the attributes file is pending only in its step.
TreesTypeOK ==
  /\ \A t \in TreeTask :
       /\ trees[t] = Absent \/ trees[t] \in 0 .. MaxWrites
       /\ at[t] \in {"snapshot", "worker", "check", "remove"} \union Deriving
            => trees[t] # Absent
       /\ at[t] = "done" => outcome[t] # Absent
       /\ buf[t] # Absent <=> at[t] \in Writing
       /\ outcome[t] \in {Absent, "failed", "rejected", "no-changes", "accepted"}
  /\ Lines(attrs) \subseteq {"lfs", "-filter"}

\* A worker that moved the stamp of a tree its manifest recorded is never
\* accepted, though other tasks add, change and remove trees meanwhile, a tree
\* that was removed may be left behind, and the second walk may be cut short:
\* GuardManifest::check sees the change, or misses the tree.  A tree the first
\* walk did not reach, or that came later, is not guarded.
EscapeIsRejected ==
  \A t \in TreeTask : outcome[t] = "accepted" =>
    \A o \in wrote[t] \ {t} : guard[t][o] = Absent

AllDone == \A t \in TreeTask : at[t] = "done"

\* WorktreeManager: "the user's normal filters (e.g. Git LFS) are not
\* permanently disabled".
FiltersComeBack == AllDone => "-filter" \notin Lines(attrs)

\* A task's tree is there while it works, and a worker that changed a sibling's
\* tree its manifest recorded is refused (WorktreeManager, GuardManifest).
TreesAreGuarded == TreesTypeOK /\ EscapeIsRejected

=============================================================================
