-------------------------------- MODULE Flow --------------------------------
(***************************************************************************)
(* The flow engine (crustcore-flow: graph.rs, builder.rs, engine.rs,       *)
(* budget.rs, predicate.rs, drivers.rs): a plan of nodes, walked one node  *)
(* at a time. A loop body and a parallel child are walks of their own, so  *)
(* the walk in progress is a stack. The drivers (a model, a tool, the      *)
(* verifier, a reviewer) answer anything their types allow.                *)
(*                                                                         *)
(* A node is [is, next] with the fields of its kind; a predicate is in     *)
(* disjunctive form, a set of sets of literals [is, key, min, neg].        *)
(***************************************************************************)
EXTENDS Integers, Sequences, FiniteSets

CONSTANTS
  Plans,       \* [nodes, entry, cost, steps, fanout, flags, profile, expires, now]
  CallCosts    \* what a model call may cost

ASSUME FlowAssumption == CallCosts \subseteq Nat /\ \A p \in Plans : p.cost \in Nat

VARIABLES
  plan,         \* <<>> or the plan being run
  walks,        \* the stack of run_from calls: [at, entered, done]
  flowOutputs,  \* keys of the outputs stored
  iterations,   \* the counter __loop_iterations
  usage,        \* FlowUsage: [cost, steps, fanout]
  spent,        \* history: what the model calls cost
  answered,     \* history: the last driver call and its answer
  outcome       \* "none", "completed", "finished", or why it failed

flowVars == <<plan, walks, flowOutputs, iterations, usage, spent, answered, outcome>>

FlowInit ==
  /\ plan = <<>> /\ walks = <<>> /\ flowOutputs = {} /\ iterations = 0
  /\ usage = [cost |-> 0, steps |-> 0, fanout |-> 0]
  /\ spent = 0 /\ answered = "nothing" /\ outcome = "none"

Nodes == plan[1].nodes
NodeTargets(n) ==
  CASE n.is = "parallel" -> {n.children[i] : i \in DOMAIN n.children} \cup {n.next}
    [] n.is = "loop"     -> {n.body, n.next}
    [] n.is = "route"    -> {n.next, n.else}
    [] n.is = "end"      -> {}
    [] OTHER             -> {n.next}
Validate(p) ==
  p.entry \in DOMAIN p.nodes /\ \A id \in DOMAIN p.nodes : NodeTargets(p.nodes[id]) \subseteq DOMAIN p.nodes

Literal(l) ==
  LET holds == CASE l.is = "flag"    -> l.key \in plan[1].flags
                 [] l.is = "counter" -> iterations >= l.min
                 [] l.is = "output"  -> l.key \in flowOutputs
                 [] l.is = "always"  -> TRUE
  IN  holds # l.neg
Eval(predicate) == \E clause \in predicate : \A l \in clause : Literal(l)

RequiresApproval(tool) == tool \in {"irreversible", "destructive"}
HasValidApproval == plan[1].now <= plan[1].expires
(* gate_tool, over PolicySnapshot::classify. *)
GateTool(tool) ==
  CASE plan[1].profile = "read-only" -> "denied"
    [] RequiresApproval(tool) /\ ~HasValidApproval -> "approval-required"
    [] OTHER -> "allowed"

(* FlowEngine::run, on a plan FlowBuilder built. *)
Start ==
  /\ plan = <<>>
  /\ \E p \in Plans :
       /\ plan' = <<p>>
       /\ IF Validate(p)
          THEN walks' = <<[at |-> p.entry, entered |-> FALSE, done |-> 0]>> /\ outcome' = "none"
          ELSE walks' = <<>> /\ outcome' = "bad-plan"
  /\ UNCHANGED <<flowOutputs, iterations, usage, spent, answered>>

depth == Len(walks)
At == Nodes[walks[depth].at]
Entered == walks[depth].entered
Running == plan # <<>> /\ outcome = "none"
Move(to) == walks' = [walks EXCEPT ![depth] = [at |-> to, entered |-> FALSE, done |-> 0]]
Fail(why) == outcome' = why /\ UNCHANGED walks

(* Bug: a routing node is passed without a charge. *)
ChargeStepDriversOnly ==
  usage' = IF At.is \in {"route", "join"} THEN usage ELSE [usage EXCEPT !.steps = @ + 1]

ChargeStep == usage' = [usage EXCEPT !.steps = @ + 1]

(* The top of run_from's loop: every node costs a step before anything else. *)
Enter ==
  /\ Running /\ ~Entered
  /\ IF usage.steps + 1 > plan[1].steps
     THEN Fail("step-cap") /\ UNCHANGED usage
     ELSE /\ ChargeStep /\ UNCHANGED outcome
          /\ walks' = [walks EXCEPT ![depth].entered = TRUE]
  /\ UNCHANGED <<plan, flowOutputs, iterations, spent, answered>>
On(kind) == Running /\ Entered /\ At.is = kind

(* Bug: a breach is booked nowhere and ends nothing. *)
ChargeModelLoose(cost) ==
  IF usage.cost + cost > plan[1].cost THEN <<usage>> ELSE <<[usage EXCEPT !.cost = @ + cost]>>

(* charge_model: <<>> is a breach, which books nothing. *)
ChargeModel(cost) ==
  IF usage.cost + cost > plan[1].cost THEN <<>> ELSE <<[usage EXCEPT !.cost = @ + cost]>>
ChargeFanout(n) ==
  IF usage.fanout + n > plan[1].fanout THEN <<>> ELSE <<[usage EXCEPT !.fanout = @ + n]>>

(* The call is made, and paid for, before it is charged. *)
Model ==
  /\ On("model")
  /\ \/ /\ Fail("driver") /\ answered' = "model-failed" /\ UNCHANGED <<usage, spent, flowOutputs>>
     \/ \E cost \in CallCosts :
          /\ spent' = spent + cost /\ answered' = "model"
          /\ IF ChargeModel(cost) = <<>>
             THEN Fail("over-cost") /\ UNCHANGED <<usage, flowOutputs>>
             ELSE /\ usage' = ChargeModel(cost)[1] /\ flowOutputs' = flowOutputs \cup {At.key}
                  /\ Move(At.next) /\ UNCHANGED outcome
  /\ UNCHANGED <<plan, iterations>>

Tool ==
  /\ On("tool")
  /\ IF GateTool(At.tool) # "allowed"
     THEN Fail(GateTool(At.tool)) /\ UNCHANGED <<flowOutputs, answered>>
     ELSE \/ Fail("driver") /\ answered' = At.tool /\ UNCHANGED flowOutputs
          \/ /\ answered' = At.tool /\ flowOutputs' = flowOutputs \cup {At.key}
             /\ Move(At.next) /\ UNCHANGED outcome
  /\ UNCHANGED <<plan, iterations, usage, spent>>

Review ==
  /\ On("review") /\ answered' = "review"
  /\ \/ Fail("driver") /\ UNCHANGED flowOutputs
     \/ flowOutputs' = flowOutputs \cup {At.key} /\ Move(At.next) /\ UNCHANGED outcome
  /\ UNCHANGED <<plan, iterations, usage, spent>>

InParallelChild == \E i \in 1..(depth - 1) : Nodes[walks[i].at].is = "parallel"
(* Bug: a child's completion ends the whole flow as the top-level path's would. *)
CompletedAnywhere == Fail("completed")

(* A completion passes through loops; the first parallel it meets refuses it. *)
Completed == Fail(IF InParallelChild THEN "completed-in-a-child" ELSE "completed")
VerifyNode ==
  /\ On("verify")
  /\ \/ Completed /\ answered' = "verified"
     \/ Move(At.next) /\ UNCHANGED outcome /\ answered' \in {"failed", "refused"}
  /\ UNCHANGED <<plan, flowOutputs, iterations, usage, spent>>

Call(start) ==
  walks' = Append([walks EXCEPT ![depth].done = @ + 1], [at |-> start, entered |-> FALSE, done |-> 0])

(* run_parallel: the fan-out is charged whole, then the children run in turn. *)
Parallel ==
  /\ On("parallel")
  /\ LET done == walks[depth].done
         charged == IF done = 0 THEN ChargeFanout(Len(At.children)) ELSE <<usage>>
     IN  IF charged = <<>>
         THEN Fail("over-fanout") /\ UNCHANGED usage
         ELSE /\ usage' = charged[1] /\ UNCHANGED outcome
              /\ IF done < Len(At.children) THEN Call(At.children[done + 1]) ELSE Move(At.next)
  /\ UNCHANGED <<plan, flowOutputs, iterations, spent, answered>>

LoopUntil ==
  /\ On("loop")
  /\ IF walks[depth].done < At.max /\ ~Eval(At.until)
     THEN Call(At.body) /\ UNCHANGED iterations
     ELSE iterations' = walks[depth].done /\ Move(At.next)
  /\ UNCHANGED <<plan, flowOutputs, usage, spent, answered, outcome>>

Route ==
  /\ On("route") /\ Move(IF Eval(At.pred) THEN At.next ELSE At.else)
  /\ UNCHANGED <<plan, flowOutputs, iterations, usage, spent, answered, outcome>>
Join ==
  /\ On("join") /\ Move(At.next)
  /\ UNCHANGED <<plan, flowOutputs, iterations, usage, spent, answered, outcome>>

(* End returns Finished: to the caller's loop or fan-out, or to the caller of run. *)
End ==
  /\ On("end")
  /\ IF depth = 1 THEN Fail("finished") ELSE walks' = SubSeq(walks, 1, depth - 1) /\ UNCHANGED outcome
  /\ UNCHANGED <<plan, flowOutputs, iterations, usage, spent, answered>>

FlowNext ==
  Start \/ Enter \/ Model \/ Tool \/ Review \/ VerifyNode \/ Parallel \/ LoopUntil \/ Route \/ Join \/ End
FlowFairness == WF_flowVars(FlowNext)
FlowSpec == FlowInit /\ [][FlowNext]_flowVars

(***************************************************************************)
(* Properties.                                                             *)
(***************************************************************************)
(* A flow's good end is earned. It is complete only when the verifier's    *)
(* pass was the last thing that happened, on a path outside every parallel *)
(* child (engine.rs:163-173, 275-284); and whichever way it ends well, the *)
(* usage it reports holds every model call it paid for, within its budget, *)
(* though calls are paid before they are charged (engine.rs:134-140).      *)
FlowsEndHonestly ==
  /\ outcome = "completed" => answered = "verified" /\ ~InParallelChild
  /\ outcome \in {"completed", "finished"} => usage.cost = spent /\ spent <= plan[1].cost

(* Every flow ends, whatever cycles and nested loops its graph has: each   *)
(* node, the ones that call no driver too, takes a step of a finite budget *)
(* (engine.rs:121-125).                                                    *)
FlowsEnd == (plan # <<>>) ~> (outcome # "none")
=============================================================================
