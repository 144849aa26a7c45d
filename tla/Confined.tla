------------------------------ MODULE Confined ------------------------------
(***************************************************************************)
(* One command from crustcore-sandbox's run_command to crustcore-runner's  *)
(* run: what refuses it, which backend wraps it, the process group it runs *)
(* in, its two bounded output readers, and the escalation on a timeout.    *)
(* The processes, pipes and pids are the operating system's: a command may *)
(* fork, leave its group, ignore a signal, write and exit as it likes.     *)
(***************************************************************************)
EXTENDS Integers, Sequences, FiniteSets

CONSTANTS
  Commands,      \* what is asked for: tier, network, cap, cwd, env
  Hosts,         \* what a host can have: backends, and a kill binary
  ListedEnv,     \* names of the profile's stripped_env
  PrefixedEnv,   \* names with one of STRIPPED_PREFIXES
  SecretEnv,     \* names that look like a credential
  PathListEnv,   \* PATH_LIST_VARS
  HomeEnv,       \* HOME_DIR_VARS
  MaxOutput,     \* max_output_bytes
  MaxWritten     \* bytes a command writes to one stream

Backends == {"bubblewrap", "seatbelt", "firecracker", "windows"}
(* What a component of a path list, or of any other value, can be. *)
Components == {"empty", "nul", "relative", "dots", "inside", "outside"}

ASSUME ConfinedAssumption ==
  /\ MaxOutput \in Nat /\ MaxWritten \in Nat
  /\ \A h \in Hosts : h \subseteq Backends \cup {"kill"}
  /\ \A c \in Commands :
       /\ c.network \in {"DenyAll", "Allowlist"}
       /\ \A n \in DOMAIN c.env : c.env[n] \in Seq(Components)

Stream == {"stdout", "stderr"}
Process == {"leader", "child"}

(* ExecutionTier, in its derived order *)
Tier == <<"None", "StructuredHost", "Sandboxed", "Hostile">>
TierRank(t) == CHOOSE i \in DOMAIN Tier : Tier[i] = t

ProvidedTier(b) == IF b = "firecracker" THEN "Hostile" ELSE "Sandboxed"

(* Bug: falls back to whatever the host has. *)
SelectBackendAny(required, host) == host \cap Backends

(* The least isolating backends that meet the tier; on a tie the first one *)
(* assembled, which the host's detection order fixes.                      *)
SelectBackend(required, host) ==
  LET fit == {b \in host \cap Backends : TierRank(ProvidedTier(b)) >= TierRank(required)}
  IN  {b \in fit : \A c \in fit :
         TierRank(ProvidedTier(b)) <= TierRank(ProvidedTier(c))}

IsStripped(name) == name \in ListedEnv \cup PrefixedEnv \cup SecretEnv

(* A component of a path list is [kind, inside]: inside names the worktree *)
(* by its own prefix, and a symbolic link to it does not.                  *)
ValidatePathList(value) ==
  \A i \in DOMAIN value : value[i] \notin {"empty", "nul", "relative", "dots"}

(* What a surviving variable is refused for. *)
BadVariable(name, value, cwd) ==
  \/ \E i \in DOMAIN value : value[i] = "nul"
  \/ name \in PathListEnv /\
     (~ValidatePathList(value) \/ (cwd /\ \E i \in DOMAIN value : value[i] = "inside"))
  \/ name \in HomeEnv /\
     (value[1] \in {"relative", "empty"} \/ (cwd /\ value[1] = "inside"))

SanitizeEnv(env) == [n \in {m \in DOMAIN env : ~IsStripped(m)} |-> env[n]]
EnvRefused(env, cwd) == \E n \in DOMAIN env : ~IsStripped(n) /\ BadVariable(n, env[n], cwd)

(* What each backend's run does with a command it is given. *)
BubblewrapRuns(cwd) == TRUE
SeatbeltRuns(cwd) == cwd
FirecrackerRuns(cwd) == FALSE
WindowsRuns(cwd) == FALSE
BackendRuns(b, cwd) ==
  CASE b = "bubblewrap"  -> BubblewrapRuns(cwd)
    [] b = "seatbelt"    -> SeatbeltRuns(cwd)
    [] b = "firecracker" -> FirecrackerRuns(cwd)
    [] b = "windows"     -> WindowsRuns(cwd)

VARIABLES
  phase,      \* of run_command and then run
  spawned,    \* what run was given: command, backend, environment, whether there is a kill binary
  process,    \* per process: none, running, zombie, gone
  grouped,    \* the processes still in the command's group
  written,    \* per stream, the bytes written so far
  pipe,       \* per stream, those not yet read
  capture,    \* per stream: buf, truncated, done
  writer,     \* the stdin thread: none, blocked, gone
  timedOut,
  result,     \* what run returned
  stranger    \* a later process group that got the command's old id

confinedVars == <<phase, spawned, process, grouped, written, pipe, capture,
                  writer, timedOut, result, stranger>>

NoResult == [status |-> "", out |-> [s \in Stream |-> <<>>], truncated |-> FALSE]
NewCapture == [buf |-> <<>>, truncated |-> FALSE, done |-> FALSE]

ConfinedInit ==
  /\ phase = "idle" /\ spawned = <<>>
  /\ process = [p \in Process |-> "none"] /\ grouped = {}
  /\ written = [s \in Stream |-> 0] /\ pipe = [s \in Stream |-> <<>>]
  /\ capture = [s \in Stream |-> NewCapture]
  /\ writer = "none" /\ timedOut = FALSE /\ result = NoResult /\ stranger = "none"

Alive(p) == process[p] = "running"
(* bubblewrap's pid namespace takes every process down with its init. *)
Tethered == spawned # <<>> /\ spawned[1].backend = "bubblewrap"
Dies(ps) ==
  [p \in Process |->
     IF p \in ps \/ ("leader" \in ps /\ Tethered)
     THEN IF process[p] # "running" THEN process[p]
          ELSE IF p = "leader" THEN "zombie" ELSE "gone"
     ELSE process[p]]
Holders == {p \in Process : Alive(p)}

(***************************************************************************)
(* run_command up to the spawn. Every refusal comes before a process.      *)
(***************************************************************************)
RunCommandRefuses(c, host) ==
  \/ c.cap # c.profile
  \/ c.tier \in {"None", "StructuredHost"}
  \/ c.network = "Allowlist"
  \/ SelectBackend(c.tier, host) = {}

RunCommand(c, host) ==
  /\ phase = "idle"
  /\ \/ /\ RunCommandRefuses(c, host)
        /\ phase' = "refused"
        /\ UNCHANGED <<spawned, process, grouped, writer>>
     \/ /\ ~RunCommandRefuses(c, host)
        /\ \E b \in SelectBackend(c.tier, host) :
             IF EnvRefused(c.env, c.cwd) \/ ~BackendRuns(b, c.cwd)
             THEN phase' = "refused" /\ UNCHANGED <<spawned, process, grouped, writer>>
             ELSE \/ phase' = "refused"        \* the spawn, or the private TMPDIR, fails
                     /\ UNCHANGED <<spawned, process, grouped, writer>>
                  \/ /\ phase' = "polling"
                     /\ spawned' = <<[command |-> c, backend |-> b, env |-> SanitizeEnv(c.env),
                                    kill |-> "kill" \in host]>>
                     /\ process' = [process EXCEPT !["leader"] = "running"]
                     /\ grouped' = {"leader"}
                     /\ writer' = IF c.stdin THEN "blocked" ELSE "none"
  /\ UNCHANGED <<written, pipe, capture, timedOut, result, stranger>>

(***************************************************************************)
(* The operating system and the command.                                   *)
(***************************************************************************)
osVars == <<spawned, capture, timedOut, result, stranger, phase>>

Fork ==
  /\ Alive("leader") /\ process["child"] = "none"
  /\ process' = [process EXCEPT !["child"] = "running"]
  /\ grouped' = grouped \cup {"child"}
  /\ UNCHANGED <<osVars, written, pipe, writer>>

LeaveGroup ==
  /\ Alive("child") /\ "child" \in grouped
  /\ grouped' = grouped \ {"child"}
  /\ UNCHANGED <<osVars, process, written, pipe, writer>>

Write(p, s) ==
  /\ Alive(p) /\ written[s] < MaxWritten
  /\ written' = [written EXCEPT ![s] = @ + 1]
  /\ pipe' = [pipe EXCEPT ![s] = Append(@, written[s] + 1)]
  /\ UNCHANGED <<osVars, process, grouped, writer>>

(* The command takes its input, or nobody is left to. *)
StdinEnds ==
  /\ writer = "blocked"
  /\ writer' = "gone"
  /\ UNCHANGED <<osVars, process, grouped, written, pipe>>

Exit(p) ==
  /\ Alive(p)
  /\ process' = Dies({p})
  /\ UNCHANGED <<osVars, grouped, written, pipe, writer>>

(***************************************************************************)
(* run: the poll loop, the escalation and the collection.                  *)
(***************************************************************************)
Reap == [process EXCEPT !["leader"] = "gone"]

(* A clean exit sweeps nothing. *)
PollExit ==
  /\ phase = "polling" /\ process["leader"] = "zombie"
  /\ process' = Reap /\ phase' = "collecting"
  /\ UNCHANGED <<spawned, grouped, written, pipe, capture, writer, timedOut, result, stranger>>

(* Sends TERM to the group; a member may ignore it, and without a kill     *)
(* binary none gets it.                                                    *)
PollTimeout ==
  /\ phase = "polling" /\ Alive("leader")
  /\ \E ps \in SUBSET {p \in grouped : Alive(p)} : process' = Dies(ps)
  /\ timedOut' = TRUE /\ phase' = "terminated"
  /\ UNCHANGED <<spawned, grouped, written, pipe, capture, writer, result, stranger>>

(* try_wait in the grace loop: a leader that went on TERM is reaped here. *)
GraceSeesExit ==
  /\ phase = "terminated" /\ process["leader"] = "zombie"
  /\ process' = Reap
  /\ phase' = "killing"
  /\ UNCHANGED <<spawned, grouped, written, pipe, capture, writer, timedOut, result, stranger>>
GraceEnds ==
  /\ phase = "terminated" /\ Alive("leader")
  /\ phase' = "killing"
  /\ UNCHANGED <<spawned, process, grouped, written, pipe, capture, writer, timedOut, result, stranger>>
(* The group's id is free once its leader is reaped and it is empty, and   *)
(* the kill is a process of its own that is still to start.                *)
IdReused ==
  /\ phase = "killing" /\ process["leader"] = "gone" /\ stranger = "none"
  /\ \A p \in grouped : ~Alive(p)
  /\ stranger' = "running"
  /\ UNCHANGED <<phase, spawned, process, grouped, written, pipe, capture, writer, timedOut, result>>

(* Bug: kills the leader and not its group. *)
KillGroupLeader(sig) == {"leader"}

(* Best effort: the signal is sent by a kill binary, and without one at    *)
(* either of its two places nothing is sent.                               *)
KillGroup(sig) == IF spawned[1].kill THEN grouped ELSE {}

(* KILL to the group, KILL to the leader through its handle, wait. *)
Kill ==
  /\ phase = "killing"
  /\ process' = [Dies(KillGroup("KILL") \cup {"leader"}) EXCEPT !["leader"] = "gone"]
  /\ stranger' = IF stranger = "running" /\ spawned[1].kill THEN "killed" ELSE stranger
  /\ phase' = "collecting"
  /\ UNCHANGED <<spawned, grouped, written, pipe, capture, writer, timedOut, result>>

Kept(s, n) == LET room == MaxOutput - Len(capture[s].buf) IN IF n < room THEN n ELSE room
(* Bug: flags only a read that finds the buffer already full. *)
OverflowsLate(s, n) == Len(capture[s].buf) = MaxOutput

Overflows(s, n) == Kept(s, n) < n

(* One read of a reader thread: n bytes, of which it keeps up to the cap. *)
ReadSome(s) ==
  \E n \in 1..Len(pipe[s]) :
    /\ capture' = [capture EXCEPT ![s] = [buf |-> @.buf \o SubSeq(pipe[s], 1, Kept(s, n)),
                                          truncated |-> @.truncated \/ Overflows(s, n),
                                          done |-> @.done]]
    /\ pipe' = [pipe EXCEPT ![s] = SubSeq(@, n + 1, Len(@))]
    /\ UNCHANGED <<phase, spawned, process, grouped, written, writer, timedOut, result, stranger>>

ReadEof(s) ==
  /\ phase \notin {"idle", "refused"} /\ ~capture[s].done
  /\ pipe[s] = <<>> /\ Holders = {}
  /\ capture' = [capture EXCEPT ![s].done = TRUE]
  /\ UNCHANGED <<phase, spawned, process, grouped, written, pipe, writer, timedOut, result, stranger>>

(* Bug: joins its readers however long they take. *)
CollectedJoin == \A s \in Stream : capture[s].done

(* Both readers are done, or five seconds are over: long enough to drain   *)
(* what is in a pipe that nobody holds.                                    *)
Collected == (\A s \in Stream : capture[s].done) \/ Holders # {}

FromStatus(code) == IF timedOut THEN "TimedOut" ELSE code

Collect ==
  /\ phase = "collecting" /\ Collected
  /\ \E code \in {"Code(0)", "Code", "Signal"} :
       result' = [status |-> FromStatus(code),
                  out |-> [s \in Stream |-> capture[s].buf],
                  truncated |-> \E s \in Stream : capture[s].truncated]
  /\ phase' = "returned"
  /\ UNCHANGED <<spawned, process, grouped, written, pipe, capture, writer, timedOut, stranger>>

Run == PollExit \/ PollTimeout \/ GraceSeesExit \/ GraceEnds \/ Kill \/ Collect

ConfinedNext ==
  \/ \E c \in Commands, h \in Hosts : RunCommand(c, h)
  \/ Run
  \/ phase # "returned" /\
     \/ Fork \/ LeaveGroup \/ StdinEnds \/ IdReused
     \/ \E p \in Process : Exit(p) \/ \E s \in Stream : Write(p, s)
     \/ \E s \in Stream : ReadSome(s) \/ ReadEof(s)

ConfinedSpec == ConfinedInit /\ [][ConfinedNext]_confinedVars

(* run's own thread is scheduled and its clocks advance; nothing is asked  *)
(* of the command. The readers are threads of the same program.            *)
ConfinedFairness ==
  /\ WF_confinedVars(Run)
  /\ \A s \in Stream : WF_confinedVars(phase # "returned" /\ (ReadSome(s) \/ ReadEof(s)))

(***************************************************************************)
(* A process exists only for a command whose capability names the profile  *)
(* it runs under, behind a backend of at least the profile's tier that     *)
(* really confines it, with no network, and with an environment in which   *)
(* no credential or loader variable survives and no search path reaches    *)
(* the worktree by its own name (run_command, select_backend,              *)
(* sanitize_env).                                                          *)
(***************************************************************************)
OnlyConfinedCommandsRun ==
  (\E p \in Process : process[p] # "none") =>
    LET run == spawned[1]
        c == run.command
    IN  /\ c.cap = c.profile /\ c.network = "DenyAll"
        /\ TierRank(ProvidedTier(run.backend)) >= TierRank(c.tier)
        /\ run.backend \in {"bubblewrap", "seatbelt"}
        /\ \A n \in DOMAIN run.env :
             /\ n \notin ListedEnv \cup PrefixedEnv \cup SecretEnv
             /\ (n \in PathListEnv /\ c.cwd) => \A i \in DOMAIN run.env[n] : run.env[n][i] = "outside"

(***************************************************************************)
(* When run returns, what it captured is the beginning of what each stream *)
(* carried, within the cap, and it is everything unless it is flagged or a *)
(* process of the command outlived it: what such a process has written and *)
(* the readers have not read by their deadline is missing without a flag   *)
(* (spawn_reader, collect_reader).                                         *)
(***************************************************************************)
CaptureIsHonest ==
  phase = "returned" =>
    \A s \in Stream :
      /\ result.out[s] = [i \in 1..Len(result.out[s]) |-> i]
      /\ Len(result.out[s]) <= MaxOutput
      /\ (~result.truncated /\ Holders = {}) => Len(result.out[s]) = written[s]

(***************************************************************************)
(* A command that timed out is not running and is never reported as a      *)
(* success; where the host has a kill binary no process of its group is    *)
(* running, and under bubblewrap none of its processes at all. Elsewhere a *)
(* process that left the group, and without a kill binary any descendant,  *)
(* may be left (the escalation in run, kill_group).                        *)
(***************************************************************************)
TimedOutTreeIsGone ==
  (phase \in {"collecting", "returned"} /\ timedOut) =>
    /\ ~Alive("leader")
    /\ spawned[1].kill /\ "child" \in grouped => ~Alive("child")
    /\ Tethered => Holders = {}
    /\ phase = "returned" => result.status = "TimedOut"

(***************************************************************************)
(* run returns whatever the command, its descendants and its pipes do      *)
(* (the timeout and the reader deadline).                                  *)
(***************************************************************************)
RunReturns == phase = "polling" ~> phase = "returned"

\* A command runs only as confined as it asked to be; its captured output says
\* when it is not all of it, unless a process that outlived the command still
\* held the pipe; and after a timeout the command, what a kill binary reaches
\* of its group, and every process in bubblewrap's namespace are gone
\* (select_backend, run, kill_group).
CommandsAreConfined == OnlyConfinedCommandsRun /\ CaptureIsHonest /\ TimedOutTreeIsGone

=============================================================================
