------------------------------ MODULE MCGates ------------------------------
(***************************************************************************)
(* What stands between a chat message and an effect: the approval gate,    *)
(* the run of one task, the worktrees its worker gets, and what is taken   *)
(* from the worker. Each is checked against everything the others may do   *)
(* to it, so a behaviour exercises one of them: part.                      *)
(***************************************************************************)
EXTENDS PrGate, TaskRun, Worker, TLC

CONSTANTS a, b, t1, t2

VARIABLE part

\* Prompts are compared for equality only.
Symmetry == Permutations({a, b})

\* Two directories, one at the guard's depth, and two files next to the tree.
MCNearby == {<<"d">>, <<"d", "s">>, <<"g">>, <<"h">>}
MCNearbyDirs == {<<"d">>, <<"d", "s">>}
\* A tracked file, a workflow, a credential and an ignored file.
MCNames ==
  LET Name(place, base, ignored, head) ==
        [place |-> place, base |-> base, ignored |-> ignored, head |-> head]
  IN  <<Name("src", "plain", FALSE, 1), Name("workflows", "plain", FALSE, 0),
        Name("src", "credential", FALSE, 0), Name("src", "plain", TRUE, 0)>>

GatesInit ==
  /\ part \in {"gate", "run", "trees", "worker"}
  /\ GateInit /\ Init /\ TreesInit /\ WorkerInit
  /\ part # "worker" => nearby = [p \in Nearby |-> 0]
  /\ part # "run" => ~native /\ ~pr
  /\ part # "trees" => user = Absent
GatesNext ==
  \/ part = "gate" /\ GateNext /\ UNCHANGED <<part, vars, treesVars, workerVars>>
  \/ part = "run" /\ Next /\ UNCHANGED <<part, gateVars, treesVars, workerVars>>
  \/ part = "trees" /\ TreesNext /\ UNCHANGED <<part, gateVars, vars, workerVars>>
  \/ part = "worker" /\ WorkerNext /\ UNCHANGED <<part, gateVars, vars, treesVars>>
GatesSpec == GatesInit /\ [][GatesNext]_<<part, gateVars, vars, treesVars, workerVars>>

=============================================================================
