------------------------------- MODULE Paths --------------------------------
(***************************************************************************)
(* crustcore-path's confinement and the file tools of crustcore-worktree   *)
(* that use it, against what the file system really does with the path. A  *)
(* location is a sequence of names from the file system's root; a node is  *)
(* a file, a directory, a link to a location, or nothing. Between calls    *)
(* the commands a task runs in the tree rearrange it.                      *)
(***************************************************************************)
EXTENDS Integers, Sequences, FiniteSets, SequencesExt

CONSTANTS
  FileNames,   \* of files and directories, with what else a path is written with
  Locations,   \* every location the model knows
  Links,       \* locations a link may point at
  Requests,    \* relative paths asked for: sequences of names, "." and ".."
  MaxHops,     \* links the file system follows for one name
  MaxChanges   \* rearrangements of the tree

(***************************************************************************)
(* Locations are a tree of ordinary names; the worktree, its .git and a    *)
(* neighbour of it are among them.                                         *)
(***************************************************************************)
ASSUME PathsAssumption ==
  /\ {"w", "o", ".git", ".."} \subseteq FileNames
  /\ Locations \subseteq Seq(FileNames \ {".", "..", "/", "nul"})
  /\ \A l \in Locations : l # <<>> /\ \A n \in 1..Len(l) : SubSeq(l, 1, n) \in Locations
  /\ {<<"w">>, <<"w", ".git">>, <<"o">>} \subseteq Locations
  /\ Links \subseteq Seq(FileNames) /\ Requests \subseteq Seq(FileNames)
  /\ MaxHops \in Nat /\ MaxChanges \in Nat

VARIABLES
  fs,        \* location -> node: the tree as it is
  changes,
  token,     \* the confined path in hand: <<>> or <<[mode, root, relative, fresh]>>
  touched    \* locations the last tool call read or wrote

pathVars == <<fs, changes, token, touched>>

Root == <<"w">>
Neighbour == <<"o">>
GitDir == Append(Root, ".git")
Plain(kind) == [is |-> kind, to |-> <<>>]
Link(l) == [is |-> "link", to |-> l]
IsLink(n) == n.is = "link"

Node(f, l) == IF l \in Locations THEN f[l] ELSE Plain("none")
Is(f, l, kind) == Node(f, l).is = kind

(***************************************************************************)
(* The file system f: follow links to the node a path names. The answer is *)
(* a location, "missing" or "error" (a loop, a file used as a directory).  *)
(***************************************************************************)
Found(l) == [at |-> l, how |-> "found"]
NotFound(l, how) == [at |-> l, how |-> how]

(* Where a chain of links ends, or its last link if it has more than MaxHops. *)
Follow(f, l) ==
  LET hop[n \in 0..MaxHops] ==
        IF n = 0 THEN l
        ELSE LET at == hop[n - 1] IN IF IsLink(Node(f, at)) THEN Node(f, at).to ELSE at
  IN  IF IsLink(Node(f, l)) THEN hop[MaxHops] ELSE l

Descend(f, cur, name) ==
  LET end == Follow(f, Append(cur, name))
  IN  IF Is(f, cur, "file") \/ IsLink(Node(f, end)) THEN NotFound(end, "error")
      ELSE IF Is(f, end, "none") THEN NotFound(end, "missing")
      ELSE Found(end)

Trail(f, path) ==
  LET walk[n \in 0..Len(path)] ==
        IF n = 0 THEN Found(<<>>)
        ELSE LET w == walk[n - 1] IN IF w.how = "found" THEN Descend(f, w.at, path[n]) ELSE w
  IN  walk
Walk(f, path) == Trail(f, path)[Len(path)]

(***************************************************************************)
(* crustcore-path.                                                         *)
(***************************************************************************)
Rejected == <<"..">>   \* no normal form holds one

NormalizeRelative(rel) ==
  LET pop[i \in 0..Len(rel)] ==
        IF i = 0 THEN <<>>
        ELSE IF pop[i - 1] = Rejected THEN Rejected
        ELSE CASE rel[i] = "." -> pop[i - 1]
               [] rel[i] \in {"/", "nul"} -> Rejected
               [] rel[i] = ".." -> IF pop[i - 1] = <<>> THEN Rejected ELSE Front(pop[i - 1])
               [] OTHER -> Append(pop[i - 1], rel[i])
  IN  pop[Len(rel)]

(* The canonical form of the longest beginning of the path that exists. *)
Exists(f, path, n) == Walk(f, SubSeq(path, 1, n)).how # "missing"
Depth(f, path) ==
  CHOOSE n \in 1..Len(path) :
    Exists(f, path, n) /\ \A m \in (n + 1)..Len(path) : ~Exists(f, path, m)
DeepestExisting(f, path) ==
  IF \E n \in 1..Len(path) : Exists(f, path, n) THEN Walk(f, SubSeq(path, 1, Depth(f, path)))
  ELSE NotFound(<<>>, "error")

UnderRoot(f, root, path) ==
  LET w == DeepestExisting(f, path) IN w.how = "found" /\ IsPrefix(root, w.at)

ConfineRead(f, root, rel) ==
  NormalizeRelative(rel) # Rejected /\ UnderRoot(f, root, root \o NormalizeRelative(rel))

(* Bug: the last component may be a link. *)
ConfineWriteLinks(f, root, rel) == ConfineRead(f, root, rel) /\ NormalizeRelative(rel) # <<>>

ConfineWrite(f, root, rel) ==
  LET norm == NormalizeRelative(rel)
      target == root \o norm
  IN  /\ norm \notin {Rejected, <<>>}
      /\ LET parent == Walk(f, Front(target))
         IN  parent.how = "found" => ~IsLink(Node(f, Append(parent.at, Last(target))))
      /\ UnderRoot(f, root, Front(target))

(***************************************************************************)
(* The tools.                                                              *)
(***************************************************************************)
(* A fresh worktree beside two files that are not its own. *)
PathsBase == [l \in Locations |-> Plain(IF l \in {Root, <<"o">>, GitDir} THEN "dir"
                                       ELSE IF Len(l) = 2 /\ l[1] = "o" THEN "file" ELSE "none")]
PathsInit ==
  /\ fs = PathsBase
  /\ changes = 0 /\ token = <<>> /\ touched = {}

(* A command of the task changes one node of the tree, links included. *)
Rearrange ==
  /\ changes < MaxChanges /\ changes' = changes + 1
  /\ \E l \in {m \in Locations : IsPrefix(Root, m) /\ m # Root /\ Is(fs, Front(m), "dir")} :
       \E n \in {Plain(k) : k \in {"none", "file", "dir"}} \cup {Link(t) : t \in Links \ {l}} :
         fs' = [m \in Locations |-> IF m = l THEN n
                                    ELSE IF IsPrefix(l, m) THEN Plain("none") ELSE fs[m]]
  /\ token' = [i \in DOMAIN token |-> [token[i] EXCEPT !.fresh = FALSE]]
  /\ touched' = {}

(* Two roots are held: this tree's, and that of the tree beside it. *)
Confine(rel) ==
  /\ token = <<>>
  /\ \E mode \in {"read", "write"}, root \in {Root, Neighbour} :
       /\ IF mode = "read" THEN ConfineRead(fs, root, rel) ELSE ConfineWrite(fs, root, rel)
       /\ token' = <<[mode |-> mode, root |-> root, relative |-> NormalizeRelative(rel),
                      fresh |-> TRUE]>>
  /\ touched' = {} /\ UNCHANGED <<fs, changes>>

(* Bug: a path confined by any tree will do. *)
RootsMatchAny(capRoot, pathRoot) == capRoot # <<>> /\ pathRoot # <<>>
(* The capability a call is made with is this tree's; its path may not be. *)
RootsMatch(capRoot, pathRoot) == capRoot = pathRoot

ReadFile ==
  /\ token # <<>> /\ token[1].mode = "read"
  /\ LET w == Walk(fs, token[1].root \o token[1].relative)
     IN  touched' = IF /\ RootsMatch(Root, token[1].root)
                       /\ w.how = "found" /\ Is(fs, w.at, "file")
                    THEN {[tool |-> "read", at |-> w.at, fresh |-> token[1].fresh]}
                    ELSE {}
  /\ token' = <<>> /\ UNCHANGED <<fs, changes>>

(* Refused by name, and by where it really leads. *)
GitDirRefused(f, relative) ==
  \/ \E i \in DOMAIN relative : relative[i] = ".git"
  \/ LET w == DeepestExisting(f, Root \o relative)
     IN  w.how = "found" /\ IsPrefix(GitDir, w.at)

(* create_dir_all makes every missing parent, and stops at anything that   *)
(* is not a directory; the write follows what is there.                    *)
ParentsOf(path) == {SubSeq(path, 1, n) : n \in 1..(Len(path) - 1)}
WriteFile ==
  /\ token # <<>> /\ token[1].mode = "write"
  /\ LET relative == token[1].relative
         target == token[1].root \o relative
         base == DeepestExisting(fs, Front(target))
         depth == Depth(fs, Front(target))
         \* where the parent is, once made; a dangling link stops it
         clear == /\ base.how = "found" /\ Is(fs, base.at, "dir")
                  /\ depth < Len(target) - 1 =>
                       ~IsLink(Node(fs, Append(base.at, target[depth + 1])))
         parent == base.at \o SubSeq(target, depth + 1, Len(target) - 1)
         place == Follow(fs, Append(parent, Last(target)))
         made == {m \in ParentsOf(Append(parent, "x")) : Is(fs, m, "none")}
         open == /\ place \in Locations /\ Node(fs, place).is \in {"none", "file"}
                 /\ Len(place) = 1 \/ Front(place) = parent \/ Is(fs, Front(place), "dir")
     IN  IF ~RootsMatch(Root, token[1].root) \/ GitDirRefused(fs, relative) \/ ~clear \/ ~open
         THEN UNCHANGED fs /\ touched' = {}
         ELSE /\ fs' = [m \in Locations |-> IF m = place THEN Plain("file")
                                          ELSE IF m \in made THEN Plain("dir") ELSE fs[m]]
              /\ touched' = {[tool |-> "write", at |-> place, fresh |-> token[1].fresh]}
  /\ token' = <<>> /\ UNCHANGED changes

(* search walks real directories but .git, and skips links. *)
Searched ==
  {l \in Locations :
     /\ IsPrefix(Root, l) /\ Is(fs, l, "file")
     /\ \A n \in 1..(Len(l) - 1) : Is(fs, SubSeq(l, 1, n), "dir") /\ (n > 1 => l[n] # ".git")}
Search ==
  /\ token = <<>>
  /\ touched' = {[tool |-> "search", at |-> l, fresh |-> TRUE] : l \in Searched}
  /\ UNCHANGED <<fs, changes, token>>

(***************************************************************************)
(* What a worker left: git's list of changed files, each path confined;    *)
(* one that leaves the tree rejects them all.                              *)
(***************************************************************************)
GitStatusAll ==
  {l \in Locations : /\ IsStrictPrefix(Root, l) /\ ~IsPrefix(GitDir, l)
                     /\ fs[l] # PathsBase[l] /\ fs[l].is \in {"file", "link"}}
ConfineWorktreeChanges(f, status) == \A l \in status : ConfineRead(f, Root, Tail(l))
Harvest ==
  /\ token = <<>> /\ GitStatusAll # {} /\ ConfineWorktreeChanges(fs, GitStatusAll)
  /\ touched' = {[tool |-> "harvest", at |-> Walk(fs, l).at, fresh |-> TRUE] :
                   l \in {m \in GitStatusAll : Walk(fs, m).how = "found"}}
  /\ UNCHANGED <<fs, changes, token>>

(* git apply: a patch that makes a link is refused by its mode line, git   *)
(* itself writes behind no link and in no .git.                            *)
PatchCreatesSymlink(node) == IsLink(node)
GitApply ==
  /\ token = <<>> /\ changes < MaxChanges
  /\ \E rel \in Requests, node \in {Plain("file")} \cup {Link(t) : t \in Links} :
       LET place == Root \o rel
       IN  /\ ~PatchCreatesSymlink(node) /\ place \in Locations /\ ".." \notin Range(rel)
           /\ \A n \in 2..Len(place) : place[n] # ".git"
           /\ \A n \in 1..(Len(place) - 1) : Node(fs, SubSeq(place, 1, n)).is \in {"none", "dir"}
           /\ Is(fs, place, "none")
           /\ fs' = [m \in Locations |-> IF m = place THEN node
                                         ELSE IF IsStrictPrefix(m, place) THEN Plain("dir") ELSE fs[m]]
           /\ touched' = {[tool |-> "write", at |-> place, fresh |-> TRUE]}
  /\ changes' = changes + 1 /\ UNCHANGED token

PathsNext ==
  \/ Rearrange \/ ReadFile \/ WriteFile \/ Search \/ Harvest \/ GitApply
  \/ \E rel \in Requests : Confine(rel)

PathsSpec == PathsInit /\ [][PathsNext]_pathVars

(***************************************************************************)
(* However the tree was rearranged with links, dangling ones included, a   *)
(* path confined and then used with no change in between is read or        *)
(* written inside the worktree the capability is for, also when it was     *)
(* confined by the tree next to it; nothing is written in the repository's *)
(* .git under any name, search enters no .git directory, and no change     *)
(* taken from a worker names a file outside (confine_read, confine_write,  *)
(* read_file, write_file, search, confine_worktree_changes). A change      *)
(* between the confinement and the use is outside it: nothing holds the    *)
(* path then.                                                              *)
(***************************************************************************)
ToolsStayInside ==
  \A t \in touched :
    t.fresh => /\ IsPrefix(Root, t.at)
               /\ t.tool = "write" => ~IsPrefix(GitDir, t.at)
               /\ t.tool = "search" => ~IsStrictPrefix(GitDir, t.at)

=============================================================================
