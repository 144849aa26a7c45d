-------------------------- MODULE ServeLoopProofs ---------------------------
(***************************************************************************)
(* Proofs about ServeLoop, for any number of tasks, any cap, lease and     *)
(* budgets, and any interleaving of the loop with the task threads.  Then  *)
(* about the daemon's network helper: what its pipe carries and whom it    *)
(* charges, for any providers, requests and texts, and a helper that may   *)
(* die between any two lines.                                              *)
(***************************************************************************)
EXTENDS ServeLoop, NetPipe, TaskRegistryProofs, SequenceTheorems

ThreadLine == {"ready", "working", "verifying", "final"}

HasFinal(lines) == \E k \in 1 .. Len(lines) : lines[k] = "final"

Finishing == {"sent", "ended"}

BeforeWorker == {"setup", "check1", "work"}

BeforeVerify == BeforeWorker \union {"worker", "check2"}

-----------------------------------------------------------------------------
(* The inductive invariant.                                                *)

\* The loop's own state, by the phase it is in.
LoopPhases ==
  /\ now \in 0 .. MaxTime
  /\ pc \in {"top", "collect", "drop", "poll"}
  /\ seen \in {None, TRUE, FALSE}
  /\ pc # "collect" => todo = {} /\ drained = << >>
  /\ todo = {} => seen = None
  /\ pc # "drop" => drops = {}

\* The registry: it was never restarted, so that its count is exact.
RegistryExact == IsRegistry(reg, now) /\ FirstLife(reg)

\* The runner's maps: a slot for each handle that is not being dropped, a
\* thread for each handle, and work only on handles that have a slot.
HandlesAgree ==
  /\ handles = DOMAIN reg.slots \union drops
  /\ DOMAIN reg.slots \intersect drops = {}
  /\ handles \subseteq Nat
  /\ IsFiniteSet(handles) /\ Cardinality(handles) <= MaxConcurrent
  /\ DOMAIN threads = handles
  /\ todo \subseteq handles /\ DOMAIN drained \subseteq handles
  /\ todo \intersect DOMAIN drained = {}

\* A thread queues at most one line on each of its four legs.
QueueFits(thread) ==
  /\ thread \in [step : Step, queue : Seq(ThreadLine), cancel : BOOLEAN]
  /\ Len(thread.queue) <= 4
  /\ thread.step \notin Finishing => Len(thread.queue) <= 3
  /\ thread.step \in BeforeVerify => Len(thread.queue) <= 2
  /\ thread.step \in BeforeWorker => Len(thread.queue) <= 1
  /\ thread.step = "setup" => Len(thread.queue) = 0

ThreadsFit ==
  /\ threads = [id \in DOMAIN threads |-> threads[id]]
  /\ \A id \in DOMAIN threads : QueueFits(threads[id])

DrainedFits ==
  /\ drained = [id \in DOMAIN drained |-> drained[id]]
  /\ \A id \in DOMAIN drained : drained[id] \in [lines : Seq(ThreadLine), finished : BOOLEAN]

\* The final line of a thread that queued it is in the channel, in what was
\* collected, or with the operator; a task seen finished has no line left in
\* the channel.
FinalLineIsSomewhere ==
  /\ \A id \in DOMAIN threads :
       threads[id].step \in Finishing =>
         \/ HasFinal(threads[id].queue)
         \/ id \in DOMAIN drained /\ HasFinal(drained[id].lines)
         \/ id \in told
  /\ \A id \in DOMAIN drained :
       drained[id].finished = TRUE => HasFinal(drained[id].lines) \/ id \in told
  /\ seen = TRUE => threads[First(todo)].step = "ended"

\* Only a task whose final line was forwarded is completed, and once a handle
\* has been fed in this round its lease holds until the tick.
SlotsAreTold ==
  \A id \in DOMAIN reg.slots :
    /\ reg.slots[id].phase # "Expired"
    /\ reg.slots[id].phase = "Completed" => id \in told
    /\ pc = "collect" /\ id \notin todo /\ id \notin DOMAIN drained
         /\ reg.slots[id].phase \in Active
         => reg.slots[id].expires_at >= now

SInv ==
  /\ LoopPhases /\ RegistryExact /\ HandlesAgree /\ ThreadsFit /\ DrainedFits
  /\ FinalLineIsSomewhere /\ SlotsAreTold
  /\ HealthyNeverExpires /\ FinalLineDelivered

-----------------------------------------------------------------------------
(* Operators.                                                              *)

\* The next handle is one of the handles left.
LEMMA FirstIsOne ==
  ASSUME NEW ids, ids \subseteq Nat, ids # {}
  PROVE  First(ids) \in ids
<1> DEFINE R == {x \in Nat \X Nat : x[1] < x[2]}
<1>1. R = OpToRel(<, Nat)
  BY DEF OpToRel
<1>2. IsWellFoundedOn(R, Nat)
  BY <1>1, NatLessThanWellFounded
<1> HIDE DEF R
<1>3. PICK x \in ids : \A y \in ids : <<y, x>> \notin R
  BY <1>2, WFMin
<1>4. ASSUME NEW y \in ids PROVE x <= y
  <2>1. x \in Nat /\ y \in Nat
    OBVIOUS
  <2>2. y < x => <<y, x>> \in R
    BY <2>1 DEF R
  <2> QED
    BY <1>3, <2>1, <2>2
<1> QED
  BY <1>4 DEF First

\* A map without keys is the empty map.
LEMMA EmptyIsEmpty ==
  ASSUME NEW map, map = [i \in DOMAIN map |-> map[i]], DOMAIN map = {}
  PROVE  map = << >>
<1> DEFINE empty == << >>
<1>1. DOMAIN empty = {} /\ empty = [i \in DOMAIN empty |-> empty[i]]
  OBVIOUS
<1>2. map = [i \in {} |-> map[i]] /\ empty = [i \in {} |-> empty[i]]
  BY <1>1
<1> HIDE DEF empty
<1>3. map = empty
  BY <1>2
<1> QED
  BY <1>3 DEF empty

\* Queueing more lines keeps a final line.
LEMMA QueueKeepsFinal ==
  ASSUME NEW queue \in Seq(ThreadLine), NEW lines \in Seq(ThreadLine)
  PROVE  /\ queue \o lines \in Seq(ThreadLine)
         /\ Len(queue \o lines) = Len(queue) + Len(lines)
         /\ HasFinal(queue) \/ HasFinal(lines) => HasFinal(queue \o lines)
<1>1. /\ queue \o lines \in Seq(ThreadLine)
      /\ Len(queue \o lines) = Len(queue) + Len(lines)
  OBVIOUS
<1>2. ASSUME HasFinal(queue) PROVE HasFinal(queue \o lines)
  BY <1>1, <1>2 DEF HasFinal
<1>3. ASSUME HasFinal(lines) PROVE HasFinal(queue \o lines)
  <2>1. PICK k \in 1 .. Len(lines) : lines[k] = "final"
    BY <1>3 DEF HasFinal
  <2>2. Len(queue) + k \in 1 .. Len(queue \o lines) /\ (queue \o lines)[Len(queue) + k] = "final"
    BY <1>1, <2>1
  <2> QED
    BY <2>2 DEF HasFinal
<1> QED
  BY <1>1, <1>2, <1>3

\* Forwarding a line other than the final one leaves the final one to come.
LEMMA TailKeepsFinal ==
  ASSUME NEW lines \in Seq(ThreadLine), lines # << >>
  PROVE  /\ Tail(lines) \in Seq(ThreadLine)
         /\ HasFinal(lines) /\ Head(lines) # "final" => HasFinal(Tail(lines))
<1>1. Tail(lines) \in Seq(ThreadLine) /\ Len(Tail(lines)) = Len(lines) - 1 /\ Len(lines) \in Nat
  OBVIOUS
<1>2. ASSUME HasFinal(lines), Head(lines) # "final" PROVE HasFinal(Tail(lines))
  <2>1. PICK k \in 1 .. Len(lines) : lines[k] = "final"
    BY <1>2 DEF HasFinal
  <2>2. k # 1
    BY <1>2, <2>1
  <2>3. k - 1 \in 1 .. Len(Tail(lines)) /\ Tail(lines)[k - 1] = "final"
    BY <1>1, <2>1, <2>2
  <2> QED
    BY <2>3 DEF HasFinal
<1> QED
  BY <1>1, <1>2

-----------------------------------------------------------------------------
(* The task threads.                                                       *)

\* A move that keeps the queue within the thread's legs and ends the thread
\* only after its final line.
MayMove(thread, step, lines) ==
  /\ step \in Step /\ lines \in Seq(ThreadLine)
  /\ thread.step # "ended" /\ step # "setup"
  /\ Len(thread.queue) + Len(lines) <= 4
  /\ step \notin Finishing => Len(thread.queue) + Len(lines) <= 3
  /\ step \in BeforeVerify => Len(thread.queue) + Len(lines) <= 2
  /\ step \in BeforeWorker => Len(thread.queue) + Len(lines) <= 1
  /\ step \in Finishing => thread.step = "sent" \/ HasFinal(lines)

\* Such a move, at whatever point the loop is, keeps the invariant.
LEMMA MoveKeeps ==
  ASSUME SInv, NEW id \in DOMAIN threads, NEW step, NEW lines,
         ThreadMoves(id, step, lines), MayMove(threads[id], step, lines)
  PROVE  SInv'
<1> DEFINE thread == [threads[id] EXCEPT !.step = step, !.queue = @ \o lines]
<1>1. /\ threads' = [threads EXCEPT ![id] = thread]
      /\ UNCHANGED <<now, pc, reg, handles, todo, seen, drained, drops, told, retired>>
  BY DEF ThreadMoves, loopVars, history
<1>2. threads[id] \in [step : Step, queue : Seq(ThreadLine), cancel : BOOLEAN]
  BY DEF SInv, ThreadsFit, QueueFits
<1>3. /\ threads[id].queue \o lines \in Seq(ThreadLine)
      /\ Len(threads[id].queue \o lines) = Len(threads[id].queue) + Len(lines)
      /\ HasFinal(threads[id].queue) \/ HasFinal(lines) =>
           HasFinal(threads[id].queue \o lines)
  BY <1>2, QueueKeepsFinal DEF MayMove
<1>4. /\ thread \in [step : Step, queue : Seq(ThreadLine), cancel : BOOLEAN]
      /\ thread.step = step /\ thread.queue = threads[id].queue \o lines
  BY <1>2, <1>3 DEF MayMove
<1> HIDE DEF thread
<1>5. QueueFits(thread)
  BY <1>3, <1>4 DEF QueueFits, MayMove
<1>6. /\ DOMAIN threads' = DOMAIN threads
      /\ threads'[id] = thread
      /\ \A i \in DOMAIN threads : i # id => threads'[i] = threads[i]
      /\ threads' = [i \in DOMAIN threads' |-> threads'[i]]
  BY <1>1 DEF SInv, ThreadsFit
<1>7. ThreadsFit'
  BY <1>5, <1>6 DEF SInv, ThreadsFit
<1>8. FinalLineIsSomewhere'
  <2>1. ASSUME NEW i \in DOMAIN threads', threads'[i].step \in Finishing
        PROVE  \/ HasFinal(threads'[i].queue)
               \/ i \in DOMAIN drained /\ HasFinal(drained[i].lines)
               \/ i \in told
    <3>1. CASE i # id
      BY <1>6, <2>1, <3>1 DEF SInv, FinalLineIsSomewhere
    <3>2. CASE i = id
      BY <1>3, <1>4, <1>6, <2>1, <3>2 DEF SInv, FinalLineIsSomewhere, Finishing, MayMove
    <3> QED
      BY <3>1, <3>2
  <2>2. ASSUME seen = TRUE PROVE threads'[First(todo)].step = "ended"
    <3>1. todo # {} /\ todo \subseteq Nat /\ todo \subseteq DOMAIN threads
      BY <2>2, LoopAssumption DEF SInv, LoopPhases, HandlesAgree
    <3>2. First(todo) \in DOMAIN threads
      BY <3>1, FirstIsOne
    <3> QED
      BY <1>6, <2>2, <3>2 DEF SInv, FinalLineIsSomewhere, MayMove
  <2> QED
    BY <1>1, <2>1, <2>2 DEF SInv, FinalLineIsSomewhere
<1>9. LoopPhases' /\ RegistryExact' /\ DrainedFits' /\ SlotsAreTold'
  BY <1>1 DEF SInv, LoopPhases, RegistryExact, DrainedFits, SlotsAreTold
<1>10. HandlesAgree'
  BY <1>1, <1>6 DEF SInv, HandlesAgree
<1>11. HealthyNeverExpires' /\ FinalLineDelivered'
  BY <1>1 DEF SInv, HealthyNeverExpires, FinalLineDelivered
<1> QED
  BY <1>7, <1>8, <1>9, <1>10, <1>11 DEF SInv

\* Every step of a thread is such a move.
LEMMA ThreadKeeps ==
  ASSUME SInv, NEW id \in DOMAIN threads, Thread(id)
  PROVE  SInv'
<1> DEFINE thread == threads[id]
<1>1. QueueFits(thread) /\ Len(thread.queue) \in Nat
  BY DEF SInv, ThreadsFit, QueueFits
<1>2. /\ << >> \in Seq(ThreadLine) /\ Len(<< >>) = 0
      /\ \A l \in ThreadLine : <<l>> \in Seq(ThreadLine) /\ Len(<<l>>) = 1
  OBVIOUS
<1>3. HasFinal(<<"final">>)
  BY DEF HasFinal
<1>4. /\ "ready" \in ThreadLine /\ "working" \in ThreadLine
      /\ "verifying" \in ThreadLine /\ "final" \in ThreadLine
  BY DEF ThreadLine
<1> DEFINE moves(step, lines) == MayMove(thread, step, lines)
<1>5. CASE ThreadSetup(id)
  <2>1. moves("final", << >>) /\ moves("check1", <<"ready">>)
    BY <1>1, <1>2, <1>4, <1>5 DEF ThreadSetup, MayMove, QueueFits, Finishing, BeforeVerify, BeforeWorker, Step
  <2> QED
    BY <1>5, <2>1, MoveKeeps DEF ThreadSetup
<1>6. CASE ThreadCheck(id)
  <2>1. moves("final", << >>)
    BY <1>1, <1>2, <1>6 DEF ThreadCheck, MayMove, QueueFits, Finishing, BeforeVerify, BeforeWorker, Step
  <2>2. thread.step = "check1" => moves("work", << >>)
    BY <1>1, <1>2 DEF MayMove, QueueFits, Finishing, BeforeVerify, BeforeWorker, Step
  <2>3. thread.step = "check2" => moves("verify", <<"verifying">>)
    BY <1>1, <1>2, <1>4 DEF MayMove, QueueFits, Finishing, BeforeVerify, BeforeWorker, Step
  <2> QED
    BY <1>6, <2>1, <2>2, <2>3, MoveKeeps DEF ThreadCheck
<1>7. CASE ThreadWork(id)
  <2>1. /\ moves("check2", << >>)
        /\ thread.step = "work" => moves("worker", <<"working">>)
        /\ thread.step = "worker" => moves("final", << >>)
    BY <1>1, <1>2, <1>4, <1>7
    DEF ThreadWork, MayMove, QueueFits, Finishing, BeforeVerify, BeforeWorker, Step
  <2> QED
    BY <1>7, <2>1, MoveKeeps DEF ThreadWork
<1>8. CASE ThreadVerify(id)
  <2>1. moves("final", << >>)
    BY <1>1, <1>2, <1>8 DEF ThreadVerify, MayMove, QueueFits, Finishing, BeforeVerify, BeforeWorker, Step
  <2> QED
    BY <1>8, <2>1, MoveKeeps DEF ThreadVerify
<1>9. CASE ThreadFinish(id)
  <2>1. thread.step = "final" => moves("sent", <<"final">>)
    BY <1>1, <1>2, <1>3, <1>4 DEF MayMove, QueueFits, Finishing, BeforeVerify, BeforeWorker, Step
  <2>2. thread.step = "sent" => moves("ended", << >>)
    BY <1>1, <1>2 DEF MayMove, QueueFits, Finishing, BeforeVerify, BeforeWorker, Step
  <2> QED
    BY <1>9, <2>1, <2>2, MoveKeeps DEF ThreadFinish
<1>10. CASE ThreadPanics(id)
  <2>1. moves("panicked", << >>)
    BY <1>1, <1>2, <1>10
    DEF ThreadPanics, MayMove, QueueFits, Finishing, BeforeVerify, BeforeWorker, Step
  <2> QED
    BY <1>10, <2>1, MoveKeeps DEF ThreadPanics
<1> QED
  BY <1>5, <1>6, <1>7, <1>8, <1>9, <1>10 DEF Thread

-----------------------------------------------------------------------------
(* The loop.                                                               *)

LEMMA InitKeeps ==
  ASSUME Init
  PROVE  SInv
<1>1. IsRegistry(reg, now) /\ FirstLife(reg) /\ DOMAIN reg.slots = {}
  BY NewRegistryIsOne DEF Init
<1>2. /\ DOMAIN threads = {} /\ threads = [id \in DOMAIN threads |-> threads[id]]
      /\ DOMAIN drained = {} /\ drained = [id \in DOMAIN drained |-> drained[id]]
      /\ DOMAIN retired = {}
  BY DEF Init
<1>3. IsFiniteSet(handles) /\ Cardinality(handles) = 0 /\ 0 <= MaxConcurrent
  BY FS_EmptySet, RegistryAssumption DEF Init
<1>4. seen # TRUE
  BY LoopAssumption DEF Init
<1>5. LoopPhases /\ RegistryExact
  BY <1>1, LoopAssumption DEF Init, LoopPhases, RegistryExact
<1>6. HandlesAgree /\ ThreadsFit /\ DrainedFits
  BY <1>1, <1>2, <1>3 DEF Init, HandlesAgree, ThreadsFit, DrainedFits
<1>7. FinalLineIsSomewhere /\ SlotsAreTold
  BY <1>1, <1>2, <1>4 DEF FinalLineIsSomewhere, SlotsAreTold
<1>8. HealthyNeverExpires /\ FinalLineDelivered
  BY <1>2 DEF HealthyNeverExpires, FinalLineDelivered
<1> QED
  BY <1>5, <1>6, <1>7, <1>8 DEF SInv

\* A round starts with every slot's handle still to collect.
LEMMA TopKeeps ==
  ASSUME SInv, Top
  PROVE  SInv'
<1>1. /\ UNCHANGED <<reg, handles, threads, seen, drained, drops, told, retired>>
      /\ todo = {} /\ drops = {} /\ drained = << >> /\ seen = None /\ DOMAIN drained = {}
      /\ todo' = handles /\ pc' = "collect" /\ now' \in now .. MaxTime
  BY DEF SInv, LoopPhases, Top, history
<1>2. now \in Nat /\ now' \in Nat /\ now <= now' /\ now' \in 0 .. MaxTime
  BY <1>1, LoopAssumption DEF SInv, LoopPhases
<1>3. RegistryExact'
  BY <1>1, <1>2, RegistryAges DEF SInv, RegistryExact
<1>4. LoopPhases'
  BY <1>1, <1>2 DEF SInv, LoopPhases
<1>5. HandlesAgree' /\ ThreadsFit' /\ DrainedFits'
  BY <1>1 DEF SInv, HandlesAgree, ThreadsFit, DrainedFits
<1>6. seen' # TRUE
  BY <1>1, LoopAssumption
<1>7. FinalLineIsSomewhere'
  BY <1>1, <1>6 DEF SInv, FinalLineIsSomewhere
<1>8. SlotsAreTold'
  BY <1>1 DEF SInv, SlotsAreTold, HandlesAgree
<1>9. HealthyNeverExpires' /\ FinalLineDelivered'
  BY <1>1 DEF SInv, HealthyNeverExpires, FinalLineDelivered
<1> QED
  BY <1>3, <1>4, <1>5, <1>7, <1>8, <1>9 DEF SInv

\* finished() is read before drain(): a thread seen ended has queued its final
\* line, and what is drained afterwards holds it.
LEMMA CollectKeeps ==
  ASSUME SInv, todo # {}, Collect(First(todo))
  PROVE  SInv'
<1> DEFINE id == First(todo)
<1>1. id \in todo /\ id \in DOMAIN threads /\ id \notin DOMAIN drained
  BY FirstIsOne DEF SInv, HandlesAgree
<1>2. /\ pc = "collect" /\ UNCHANGED <<now, pc, reg, handles, drops, told, retired>>
  BY DEF Collect, history
<1>3. CASE seen = None /\ seen' = Done(id) /\ UNCHANGED <<todo, drained, threads>>
  <2>1. seen' \in {TRUE, FALSE} /\ (seen' = TRUE => threads[id].step = "ended")
    BY <1>3 DEF Done
  <2>2. LoopPhases'
    BY <1>2, <1>3, <2>1 DEF SInv, LoopPhases
  <2>3. FinalLineIsSomewhere'
    BY <1>2, <1>3, <2>1 DEF SInv, FinalLineIsSomewhere
  <2>4. RegistryExact' /\ HandlesAgree' /\ ThreadsFit' /\ DrainedFits' /\ SlotsAreTold'
    BY <1>2, <1>3 DEF SInv, RegistryExact, HandlesAgree, ThreadsFit, DrainedFits, SlotsAreTold
  <2>5. HealthyNeverExpires' /\ FinalLineDelivered'
    BY <1>2 DEF SInv, HealthyNeverExpires, FinalLineDelivered
  <2> QED
    BY <2>2, <2>3, <2>4, <2>5 DEF SInv
<1>4. CASE /\ seen # None /\ Collected(id, threads[id].queue, seen)
           /\ threads' = [threads EXCEPT ![id].queue = << >>]
  <2> DEFINE entry == [lines |-> threads[id].queue, finished |-> seen]
             thread == [threads[id] EXCEPT !.queue = << >>]
  <2>1. /\ drained' = [i \in DOMAIN drained \union {id} |-> IF i = id THEN entry ELSE drained[i]]
        /\ todo' = todo \ {id} /\ seen' = None
        /\ threads' = [threads EXCEPT ![id] = thread]
    BY <1>4 DEF Collected
  <2>2. threads[id] \in [step : Step, queue : Seq(ThreadLine), cancel : BOOLEAN] /\ QueueFits(threads[id])
    BY <1>1 DEF SInv, ThreadsFit, QueueFits
  <2>3. /\ thread.step = threads[id].step /\ thread.queue = << >> /\ Len(thread.queue) = 0
        /\ thread \in [step : Step, queue : Seq(ThreadLine), cancel : BOOLEAN]
    <3>1. << >> \in Seq(ThreadLine) /\ Len(<< >>) = 0
      OBVIOUS
    <3>2. /\ thread.step = threads[id].step /\ thread.queue = << >>
          /\ thread \in [step : Step, queue : Seq(ThreadLine), cancel : BOOLEAN]
      BY <2>2, <3>1
    <3> QED
      BY <3>1, <3>2
  <2>4. /\ entry \in [lines : Seq(ThreadLine), finished : BOOLEAN]
        /\ entry.lines = threads[id].queue /\ entry.finished = seen
    BY <1>4, <2>2 DEF SInv, LoopPhases
  <2> HIDE DEF thread, entry
  <2>5. QueueFits(thread)
    BY <2>3 DEF QueueFits
  <2>6. /\ DOMAIN threads' = DOMAIN threads
        /\ threads'[id] = thread
        /\ \A i \in DOMAIN threads : i # id => threads'[i] = threads[i]
        /\ threads' = [i \in DOMAIN threads' |-> threads'[i]]
    BY <1>1, <2>1 DEF SInv, ThreadsFit
  <2>7. /\ DOMAIN drained' = DOMAIN drained \union {id}
        /\ drained'[id] = entry
        /\ \A i \in DOMAIN drained : i # id => drained'[i] = drained[i]
        /\ drained' = [i \in DOMAIN drained' |-> drained'[i]]
    BY <2>1
  <2> HIDE DEF id
  <2>8. LoopPhases' /\ RegistryExact'
    BY <1>2, <2>1 DEF SInv, LoopPhases, RegistryExact
  <2>9. HandlesAgree'
    BY <1>1, <1>2, <2>1, <2>6, <2>7 DEF SInv, HandlesAgree
  <2>10. ThreadsFit' /\ DrainedFits'
    BY <2>4, <2>5, <2>6, <2>7 DEF SInv, ThreadsFit, DrainedFits
  <2>11. FinalLineIsSomewhere'
    <3>1. ASSUME NEW i \in DOMAIN threads', threads'[i].step \in Finishing
          PROVE  \/ HasFinal(threads'[i].queue)
                 \/ i \in DOMAIN drained' /\ HasFinal(drained'[i].lines)
                 \/ i \in told
      <4>1. CASE i # id
        BY <2>6, <2>7, <3>1, <4>1 DEF SInv, FinalLineIsSomewhere
      <4>2. CASE i = id
        BY <1>1, <2>3, <2>4, <2>6, <2>7, <3>1, <4>2 DEF SInv, FinalLineIsSomewhere
      <4> QED
        BY <4>1, <4>2
    <3>2. ASSUME NEW i \in DOMAIN drained', drained'[i].finished = TRUE
          PROVE  HasFinal(drained'[i].lines) \/ i \in told
      <4>1. CASE i # id
        BY <2>7, <3>2, <4>1 DEF SInv, FinalLineIsSomewhere
      <4>2. CASE i = id
        <5>1. threads[id].step = "ended"
          BY <2>4, <2>7, <3>2, <4>2 DEF SInv, FinalLineIsSomewhere, id
        <5>2. "ended" \in Finishing
          BY DEF Finishing
        <5> QED
          BY <1>1, <2>4, <2>7, <4>2, <5>1, <5>2 DEF SInv, FinalLineIsSomewhere
      <4> QED
        BY <4>1, <4>2
    <3>3. seen' # TRUE
      BY <2>1, LoopAssumption
    <3> QED
      BY <1>2, <3>1, <3>2, <3>3 DEF FinalLineIsSomewhere
  <2>12. SlotsAreTold'
    BY <1>2, <2>1, <2>7 DEF SInv, SlotsAreTold
  <2>13. HealthyNeverExpires' /\ FinalLineDelivered'
    BY <1>2 DEF SInv, HealthyNeverExpires, FinalLineDelivered
  <2> QED
    BY <2>8, <2>9, <2>10, <2>11, <2>12, <2>13 DEF SInv
<1> QED
  BY <1>3, <1>4 DEF Collect

\* Charging and forwarding a line: the final line passes from what was
\* collected to the operator.  Settling: a finished task was told.
LEMMA FeedKeeps ==
  ASSUME SInv, drained # << >>, Feed(First(DOMAIN drained))
  PROVE  SInv'
<1> DEFINE id == First(DOMAIN drained)
<1>1. /\ pc = "collect" /\ todo = {} /\ seen = None /\ drops = {}
      /\ UNCHANGED <<now, pc, handles, threads, todo, seen, drops, retired>>
  BY DEF Feed, SInv, LoopPhases
<1>2. id \in DOMAIN drained /\ id \in handles /\ drained[id] \in [lines : Seq(ThreadLine), finished : BOOLEAN]
  <2>1. DOMAIN drained # {}
    BY EmptyIsEmpty DEF SInv, DrainedFits
  <2>2. id \in DOMAIN drained
    BY <2>1, FirstIsOne DEF SInv, HandlesAgree
  <2> QED
    BY <2>2 DEF SInv, DrainedFits, HandlesAgree
<1>3. /\ IsRegistry(reg, now) /\ FirstLife(reg) /\ now \in Nat
      /\ handles = DOMAIN reg.slots
  BY <1>1, LoopAssumption DEF SInv, RegistryExact, LoopPhases, HandlesAgree
<1>4. seen' # TRUE
  BY <1>1, LoopAssumption
<1>5. HealthyNeverExpires' /\ ThreadsFit'
  BY <1>1 DEF SInv, HealthyNeverExpires, ThreadsFit
<1>6. ASSUME IsRegistry(reg', now), FirstLife(reg'), DOMAIN reg'.slots = DOMAIN reg.slots,
             DOMAIN drained' \subseteq DOMAIN drained
      PROVE  LoopPhases' /\ RegistryExact' /\ HandlesAgree'
  BY <1>1, <1>6 DEF SInv, LoopPhases, RegistryExact, HandlesAgree
<1>7. CASE /\ drained[id].lines # << >>
           /\ reg' = ObserveProgress(reg, id, 1, now)
           /\ told' = IF Head(drained[id].lines) = "final" THEN told \union {id} ELSE told
           /\ drained' = [drained EXCEPT ![id].lines = Tail(@)]
  <2> DEFINE entry == [drained[id] EXCEPT !.lines = Tail(@)]
  <2>1. drained' = [drained EXCEPT ![id] = entry]
    BY <1>7
  <2>2. /\ Tail(drained[id].lines) \in Seq(ThreadLine)
        /\ HasFinal(drained[id].lines) /\ Head(drained[id].lines) # "final"
             => HasFinal(Tail(drained[id].lines))
    BY <1>2, <1>7, TailKeepsFinal
  <2>3. /\ entry \in [lines : Seq(ThreadLine), finished : BOOLEAN]
        /\ entry.lines = Tail(drained[id].lines) /\ entry.finished = drained[id].finished
    BY <1>2, <2>2
  <2> HIDE DEF entry
  <2>4. /\ DOMAIN drained' = DOMAIN drained /\ drained'[id] = entry
        /\ \A i \in DOMAIN drained : i # id => drained'[i] = drained[i]
        /\ drained' = [i \in DOMAIN drained' |-> drained'[i]]
    BY <1>2, <2>1 DEF SInv, DrainedFits
  <2>5. HasFinal(drained[id].lines) => HasFinal(drained'[id].lines) \/ id \in told'
    BY <1>7, <2>2, <2>3, <2>4
  <2>6. told \subseteq told'
    BY <1>7
  <2> HIDE DEF id
  <2>7. Touched(reg, reg', now)
    BY <1>3, <1>7, CallsTouch
  <2>8. /\ IsRegistry(reg', now) /\ FirstLife(reg') /\ DOMAIN reg'.slots = DOMAIN reg.slots
    BY <1>3, <2>7, TouchedKeeps
  <2>9. \A i \in DOMAIN reg.slots :
          /\ reg'.slots[i].phase \in {reg.slots[i].phase, "BudgetExhausted"}
          /\ i # id => reg'.slots[i] = reg.slots[i]
    BY <1>3, <1>7, ProgressMoves
  <2>10. LoopPhases' /\ RegistryExact' /\ HandlesAgree'
    BY <1>6, <2>4, <2>8
  <2>11. DrainedFits'
    BY <2>3, <2>4 DEF SInv, DrainedFits
  <2>12. FinalLineIsSomewhere'
    BY <1>1, <1>4, <2>3, <2>4, <2>5, <2>6 DEF SInv, FinalLineIsSomewhere
  <2>13. SlotsAreTold'
    BY <1>1, <1>2, <2>4, <2>6, <2>8, <2>9 DEF SInv, SlotsAreTold, Active
  <2>14. FinalLineDelivered'
    BY <1>1, <2>6 DEF SInv, FinalLineDelivered
  <2> QED
    BY <1>5, <2>10, <2>11, <2>12, <2>13, <2>14 DEF SInv
<1>8. CASE /\ drained[id].lines = << >>
           /\ reg' = Settle(reg, id, drained[id].finished)
           /\ drained' = Restrict(drained, DOMAIN drained \ {id})
           /\ UNCHANGED told
  <2>1. /\ DOMAIN drained' = DOMAIN drained \ {id}
        /\ \A i \in DOMAIN drained' : drained'[i] = drained[i]
        /\ drained' = [i \in DOMAIN drained' |-> drained'[i]]
    BY <1>8 DEF Restrict
  <2>2. ~ HasFinal(drained[id].lines)
    BY <1>8 DEF HasFinal
  <2>3. drained[id].finished = TRUE => id \in told
    BY <1>2, <2>2 DEF SInv, FinalLineIsSomewhere
  <2> HIDE DEF id
  <2>4. \/ drained[id].finished = TRUE /\ reg' = ObserveFinished(reg, id)
        \/ reg' = Heartbeat(reg, id, now)
    BY <1>2, <1>8 DEF Settle
  <2>5. Touched(reg, reg', now)
    BY <1>3, <2>4, CallsTouch
  <2>6. /\ IsRegistry(reg', now) /\ FirstLife(reg') /\ DOMAIN reg'.slots = DOMAIN reg.slots
    BY <1>3, <2>5, TouchedKeeps
  <2>7. \A i \in DOMAIN reg.slots :
          /\ reg'.slots[i].phase \in {reg.slots[i].phase, "Completed"}
          /\ i # id => reg'.slots[i] = reg.slots[i]
          /\ i = id /\ reg'.slots[i].phase = "Completed" /\ reg.slots[i].phase # "Completed"
               => i \in told
          /\ i = id /\ reg'.slots[i].phase \in Active => reg'.slots[i].expires_at >= now
    <3>1. CASE reg' = Heartbeat(reg, id, now)
      BY <1>3, <3>1, HeartbeatMoves
    <3>2. CASE drained[id].finished = TRUE /\ reg' = ObserveFinished(reg, id)
      BY <1>3, <2>3, <3>2, FinishMoves
    <3> QED
      BY <2>4, <3>1, <3>2
  <2>8. LoopPhases' /\ RegistryExact' /\ HandlesAgree'
    BY <1>6, <2>1, <2>6
  <2>9. DrainedFits'
    BY <2>1 DEF SInv, DrainedFits
  <2>10. FinalLineIsSomewhere'
    BY <1>1, <1>4, <1>8, <2>1, <2>2 DEF SInv, FinalLineIsSomewhere
  <2>11. SlotsAreTold'
    BY <1>1, <1>8, <2>1, <2>6, <2>7 DEF SInv, SlotsAreTold
  <2>12. FinalLineDelivered'
    BY <1>1, <1>8 DEF SInv, FinalLineDelivered
  <2> QED
    BY <1>5, <2>8, <2>9, <2>10, <2>11, <2>12 DEF SInv
<1> QED
  BY <1>7, <1>8 DEF Feed

\* tick: every lease holds, so that no task is presumed dead.
LEMMA SuperviseKeeps ==
  ASSUME SInv, Supervise
  PROVE  SInv'
<1> DEFINE cancel == Tick(reg, now).cancel
           ended == Tick(reg, now).ended
<1>1. /\ pc = "collect" /\ todo = {} /\ drained = << >> /\ seen = None /\ drops = {}
      /\ DOMAIN drained = {}
      /\ reg' = Tick(reg, now).registry
      /\ threads' = [id \in DOMAIN threads |->
                       IF id \in cancel \intersect handles
                         THEN [threads[id] EXCEPT !.cancel = TRUE]
                         ELSE threads[id]]
      /\ drops' = DOMAIN ended \intersect handles
      /\ retired' = [id \in DOMAIN retired \union DOMAIN ended |->
                       IF id \in DOMAIN ended THEN ended[id] ELSE retired[id]]
      /\ pc' = "drop"
      /\ UNCHANGED <<now, handles, todo, seen, drained, told>>
  BY DEF Supervise, SInv, LoopPhases
<1>2. /\ IsRegistry(reg, now) /\ FirstLife(reg) /\ now \in Nat /\ handles = DOMAIN reg.slots
  BY <1>1, LoopAssumption DEF SInv, RegistryExact, LoopPhases, HandlesAgree
<1>3. IsRegistry(reg', now) /\ FirstLife(reg')
  BY <1>1, <1>2, TickKeeps
<1>4. /\ DOMAIN ended \subseteq DOMAIN reg.slots
      /\ DOMAIN reg'.slots = DOMAIN reg.slots \ DOMAIN ended
      /\ \A id \in DOMAIN ended : ended[id] = SuperviseSlot(reg.slots[id], now).phase
      /\ \A id \in DOMAIN reg'.slots : reg'.slots[id] = SuperviseSlot(reg.slots[id], now)
  BY <1>1, <1>2, TickTakes
<1> HIDE DEF ended, cancel
<1>5. \A id \in DOMAIN reg.slots :
        LET after == SuperviseSlot(reg.slots[id], now)
        IN  after.phase # "Expired" /\ (after.phase = "Completed" => id \in told)
  <2> SUFFICES ASSUME NEW id \in DOMAIN reg.slots
               PROVE  LET after == SuperviseSlot(reg.slots[id], now)
                      IN  after.phase # "Expired" /\ (after.phase = "Completed" => id \in told)
    OBVIOUS
  <2>1. /\ Metered(reg.slots[id], now) /\ reg.slots[id].phase # "Expired"
        /\ reg.slots[id].phase \in Active => reg.slots[id].expires_at >= now
        /\ reg.slots[id].phase = "Completed" => id \in told
    BY <1>1, <1>2 DEF SInv, SlotsAreTold, IsRegistry
  <2> QED
    BY <1>2, <2>1, SuperviseSpares
<1>6. /\ DOMAIN threads' = DOMAIN threads
      /\ threads' = [id \in DOMAIN threads' |-> threads'[id]]
      /\ \A id \in DOMAIN threads : threads'[id] \in {threads[id], [threads[id] EXCEPT !.cancel = TRUE]}
  BY <1>1
<1>7. \A id \in DOMAIN threads :
        /\ QueueFits(threads'[id])
        /\ threads'[id].step = threads[id].step /\ threads'[id].queue = threads[id].queue
  <2> SUFFICES ASSUME NEW id \in DOMAIN threads
               PROVE  /\ QueueFits(threads'[id])
                      /\ threads'[id].step = threads[id].step
                      /\ threads'[id].queue = threads[id].queue
    OBVIOUS
  <2>1. QueueFits(threads[id])
    BY DEF SInv, ThreadsFit
  <2> QED
    BY <1>6, <2>1 DEF QueueFits
<1>8. seen' # TRUE
  BY <1>1, LoopAssumption
<1>9. LoopPhases' /\ RegistryExact'
  BY <1>1, <1>3 DEF SInv, LoopPhases, RegistryExact
<1>10. HandlesAgree'
  BY <1>1, <1>2, <1>4, <1>6 DEF SInv, HandlesAgree
<1>11. ThreadsFit' /\ DrainedFits'
  BY <1>1, <1>6, <1>7 DEF SInv, ThreadsFit, DrainedFits
<1>12. FinalLineIsSomewhere'
  BY <1>1, <1>6, <1>7, <1>8 DEF SInv, FinalLineIsSomewhere
<1>13. SlotsAreTold'
  BY <1>1, <1>4, <1>5 DEF SInv, SlotsAreTold
<1>14. HealthyNeverExpires' /\ FinalLineDelivered'
  BY <1>1, <1>4, <1>5 DEF SInv, HealthyNeverExpires, FinalLineDelivered
<1> QED
  BY <1>9, <1>10, <1>11, <1>12, <1>13, <1>14 DEF SInv

\* A handle is forgotten only when its thread has ended.
LEMMA DropKeeps ==
  ASSUME SInv, drops # {}, Drop(First(drops))
  PROVE  SInv'
<1> DEFINE id == First(drops)
<1>1. /\ pc = "drop" /\ todo = {} /\ drained = << >> /\ seen = None /\ DOMAIN drained = {}
      /\ UNCHANGED <<now, pc, reg, todo, seen, drained, told, retired>>
  BY DEF Drop, SInv, LoopPhases, history
<1>2. id \in drops /\ id \in DOMAIN threads /\ id \in handles /\ id \notin DOMAIN reg.slots
  BY FirstIsOne DEF SInv, HandlesAgree
<1>3. seen' # TRUE
  BY <1>1, LoopAssumption
<1>4. RegistryExact' /\ DrainedFits' /\ SlotsAreTold' /\ HealthyNeverExpires' /\ FinalLineDelivered'
  BY <1>1 DEF SInv, RegistryExact, DrainedFits, SlotsAreTold, HealthyNeverExpires, FinalLineDelivered
<1>5. CASE /\ threads' = [threads EXCEPT ![id].cancel = TRUE]
           /\ UNCHANGED <<handles, drops>>
  <2> DEFINE thread == [threads[id] EXCEPT !.cancel = TRUE]
  <2>1. threads' = [threads EXCEPT ![id] = thread]
    BY <1>5
  <2>2. QueueFits(threads[id])
    BY <1>2 DEF SInv, ThreadsFit
  <2>3. QueueFits(thread) /\ thread.step = threads[id].step /\ thread.queue = threads[id].queue
    BY <2>2 DEF QueueFits
  <2> HIDE DEF thread
  <2>4. /\ DOMAIN threads' = DOMAIN threads
        /\ threads'[id] = thread
        /\ \A i \in DOMAIN threads : i # id => threads'[i] = threads[i]
        /\ threads' = [i \in DOMAIN threads' |-> threads'[i]]
    BY <1>2, <2>1 DEF SInv, ThreadsFit
  <2> HIDE DEF id
  <2>5. LoopPhases' /\ HandlesAgree'
    BY <1>1, <1>5, <2>4 DEF SInv, LoopPhases, HandlesAgree
  <2>6. ThreadsFit'
    BY <2>3, <2>4 DEF SInv, ThreadsFit
  <2>7. FinalLineIsSomewhere'
    BY <1>1, <1>3, <2>3, <2>4 DEF SInv, FinalLineIsSomewhere
  <2> QED
    BY <1>4, <2>5, <2>6, <2>7 DEF SInv
<1>6. CASE /\ handles' = handles \ {id} /\ drops' = drops \ {id}
           /\ threads' = Restrict(threads, DOMAIN threads \ {id})
  <2>1. /\ DOMAIN threads' = DOMAIN threads \ {id}
        /\ \A i \in DOMAIN threads' : threads'[i] = threads[i]
        /\ threads' = [i \in DOMAIN threads' |-> threads'[i]]
    BY <1>6 DEF Restrict
  <2> HIDE DEF id
  <2>2. IsFiniteSet(handles') /\ Cardinality(handles') <= MaxConcurrent
    <3>1. IsFiniteSet(handles) /\ Cardinality(handles) <= MaxConcurrent
      BY DEF SInv, HandlesAgree
    <3>2. IsFiniteSet(handles \ {id}) /\ Cardinality(handles \ {id}) <= Cardinality(handles)
      BY <3>1, FS_Subset
    <3>3. Cardinality(handles) \in Nat /\ Cardinality(handles \ {id}) \in Nat
      BY <3>1, <3>2, FS_CardinalityType
    <3> QED
      BY <1>6, <3>1, <3>2, <3>3, RegistryAssumption
  <2>3. LoopPhases' /\ HandlesAgree'
    BY <1>1, <1>2, <1>6, <2>1, <2>2 DEF SInv, LoopPhases, HandlesAgree
  <2>4. ThreadsFit'
    BY <2>1 DEF SInv, ThreadsFit
  <2>5. FinalLineIsSomewhere'
    BY <1>1, <1>3, <2>1 DEF SInv, FinalLineIsSomewhere
  <2> QED
    BY <1>4, <2>3, <2>4, <2>5 DEF SInv
<1> QED
  BY <1>5, <1>6 DEF Drop

\* The steps that only move the loop on.
LEMMA RestKeeps ==
  ASSUME SInv, Poll \/ EndRound
  PROVE  SInv'
<1>1. /\ pc \in {"drop", "poll"} /\ pc' \in {"poll", "top"} /\ drops = {}
      /\ UNCHANGED <<now, reg, handles, threads, todo, seen, drained, drops, told, retired>>
  BY DEF Poll, EndRound, SInv, LoopPhases, loopVars, history
<1>2. LoopPhases' /\ RegistryExact' /\ HandlesAgree' /\ ThreadsFit' /\ DrainedFits'
  BY <1>1 DEF SInv, LoopPhases, RegistryExact, HandlesAgree, ThreadsFit, DrainedFits
<1>3. FinalLineIsSomewhere' /\ SlotsAreTold'
  BY <1>1 DEF SInv, FinalLineIsSomewhere, SlotsAreTold
<1>4. HealthyNeverExpires' /\ FinalLineDelivered'
  BY <1>1 DEF SInv, HealthyNeverExpires, FinalLineDelivered
<1> QED
  BY <1>2, <1>3, <1>4 DEF SInv

-----------------------------------------------------------------------------
(* The operators.                                                          *)

\* A launch takes a slot and a handle together, within the cap.
LEMMA LaunchKeeps ==
  ASSUME SInv, NEW chat \in ChatId, NEW budget \in Budgets, Launch(chat, budget)
  PROVE  SInv'
<1> DEFINE id == reg.next_id
           admitted == Admit(reg, chat, budget, now)
<1>1. /\ pc = "poll" /\ todo = {} /\ drained = << >> /\ drops = {} /\ DOMAIN drained = {}
      /\ HasCapacity(reg)
      /\ reg' = MarkRunning(admitted, id, now)
      /\ handles' = handles \union {id}
      /\ threads' = [i \in DOMAIN threads \union {id} |-> IF i = id THEN NewThread ELSE threads[i]]
      /\ UNCHANGED <<now, pc, todo, seen, drained, drops, told, retired>>
  BY DEF Launch, SInv, LoopPhases, loopVars, history
<1>2. /\ IsRegistry(reg, now) /\ FirstLife(reg) /\ now \in Nat /\ handles = DOMAIN reg.slots
  BY <1>1, LoopAssumption DEF SInv, RegistryExact, LoopPhases, HandlesAgree
<1>3. id \in Nat /\ id \notin handles
  BY <1>2 DEF IsRegistry
<1>4. /\ IsRegistry(admitted, now) /\ FirstLife(admitted)
      /\ \A i \in DOMAIN reg.slots : i \in DOMAIN admitted.slots /\ admitted.slots[i] = reg.slots[i]
  <2>1. budget \in Budget
    BY RegistryAssumption DEF Budget
  <2> QED
    BY <1>1, <1>2, <2>1, AdmitKeeps
<1>5. DOMAIN admitted.slots = DOMAIN reg.slots \union {id} /\ admitted.slots[id].phase = "Pending"
  BY <1>2, AdmitAdds
<1> HIDE DEF admitted
<1>6. Touched(admitted, reg', now)
  BY <1>1, <1>2, <1>4, CallsTouch
<1>7. /\ IsRegistry(reg', now) /\ FirstLife(reg') /\ DOMAIN reg'.slots = DOMAIN admitted.slots
  BY <1>2, <1>4, <1>6, TouchedKeeps
<1>8. \A i \in DOMAIN admitted.slots : reg'.slots[i].phase \in {admitted.slots[i].phase, "Running"}
  BY <1>1, <1>2, <1>4, RunningMoves
<1>9. DOMAIN reg'.slots = handles'
  BY <1>1, <1>2, <1>5, <1>7
<1>10. IsFiniteSet(handles') /\ Cardinality(handles') <= MaxConcurrent
  BY <1>7, <1>9 DEF IsRegistry, FirstLife
<1> HIDE DEF id
<1>11. /\ DOMAIN threads' = handles' /\ threads'[id] = NewThread
       /\ \A i \in DOMAIN threads : threads'[i] = threads[i]
       /\ threads' = [i \in DOMAIN threads' |-> threads'[i]]
  BY <1>1, <1>3 DEF SInv, HandlesAgree
<1>12. QueueFits(NewThread) /\ NewThread.step \notin Finishing
  <2>1. << >> \in Seq(ThreadLine) /\ Len(<< >>) = 0
    OBVIOUS
  <2> QED
    BY <2>1 DEF NewThread, QueueFits, Step, Finishing, BeforeVerify, BeforeWorker
<1>13. LoopPhases' /\ RegistryExact'
  BY <1>1, <1>7 DEF SInv, LoopPhases, RegistryExact
<1>14. HandlesAgree'
  BY <1>1, <1>3, <1>9, <1>10, <1>11 DEF SInv, HandlesAgree
<1>15. ThreadsFit' /\ DrainedFits'
  BY <1>1, <1>11, <1>12 DEF SInv, ThreadsFit, HandlesAgree, DrainedFits
<1>16. FinalLineIsSomewhere'
  <2>1. seen' # TRUE
    BY <1>1, LoopAssumption DEF SInv, LoopPhases
  <2> QED
    BY <1>1, <1>11, <1>12, <2>1 DEF SInv, FinalLineIsSomewhere, HandlesAgree
<1>17. SlotsAreTold'
  BY <1>1, <1>4, <1>5, <1>7, <1>8 DEF SInv, SlotsAreTold
<1>18. HealthyNeverExpires' /\ FinalLineDelivered'
  BY <1>1 DEF SInv, HealthyNeverExpires, FinalLineDelivered
<1> QED
  BY <1>13, <1>14, <1>15, <1>16, <1>17, <1>18 DEF SInv

\* /cancel and /kill change a phase and leave the handle to the tick.
LEMMA StopKeeps ==
  ASSUME SInv, NEW id, NEW chat, Cancel(id, chat) \/ Kill(id, chat)
  PROVE  SInv'
<1>1. /\ pc = "poll"
      /\ reg' = RequestCancel(reg, id, chat) \/ reg' = RequestKill(reg, id, chat)
      /\ UNCHANGED <<now, pc, handles, threads, todo, seen, drained, drops, told, retired>>
  BY DEF Cancel, Kill, loopVars, history
<1>2. IsRegistry(reg, now) /\ FirstLife(reg) /\ now \in Nat
  BY LoopAssumption DEF SInv, RegistryExact, LoopPhases
<1>3. Touched(reg, reg', now)
  BY <1>1, <1>2, CallsTouch
<1>4. /\ IsRegistry(reg', now) /\ FirstLife(reg') /\ DOMAIN reg'.slots = DOMAIN reg.slots
  BY <1>2, <1>3, TouchedKeeps
<1>5. \A i \in DOMAIN reg.slots : reg'.slots[i].phase \in {reg.slots[i].phase, "Cancelling", "Killed"}
  BY <1>1, <1>2, StopMoves
<1>6. LoopPhases' /\ RegistryExact' /\ HandlesAgree' /\ ThreadsFit' /\ DrainedFits'
  BY <1>1, <1>4 DEF SInv, LoopPhases, RegistryExact, HandlesAgree, ThreadsFit, DrainedFits
<1>7. FinalLineIsSomewhere' /\ SlotsAreTold'
  BY <1>1, <1>4, <1>5 DEF SInv, FinalLineIsSomewhere, SlotsAreTold
<1>8. HealthyNeverExpires' /\ FinalLineDelivered'
  BY <1>1 DEF SInv, HealthyNeverExpires, FinalLineDelivered
<1> QED
  BY <1>6, <1>7, <1>8 DEF SInv

-----------------------------------------------------------------------------
(* The theorems.                                                           *)

\* What the runtime loop keeps at every point of every round, whatever the
\* task threads do meanwhile.
THEOREM LoopInvariant == Spec => []SInv
<1>1. Init => SInv
  BY InitKeeps
<1>2. SInv /\ [Next]_vars => SInv'
  <2> SUFFICES ASSUME SInv, [Next]_vars PROVE SInv'
    OBVIOUS
  <2>1. CASE Loop
    BY <2>1, TopKeeps, CollectKeeps, FeedKeeps, SuperviseKeeps, DropKeeps, RestKeeps DEF Loop
  <2>2. CASE Operator
    BY <2>2, LaunchKeeps, StopKeeps DEF Operator
  <2>3. CASE \E id \in DOMAIN threads : Thread(id)
    BY <2>3, ThreadKeeps
  <2>4. CASE UNCHANGED vars
    <3>1. UNCHANGED <<now, pc, reg, handles, threads, todo, seen, drained, drops, told, retired>>
      BY <2>4 DEF vars, loopVars, history
    <3>2. LoopPhases' /\ RegistryExact' /\ HandlesAgree' /\ ThreadsFit' /\ DrainedFits'
      BY <3>1 DEF SInv, LoopPhases, RegistryExact, HandlesAgree, ThreadsFit, DrainedFits
    <3>3. FinalLineIsSomewhere' /\ SlotsAreTold'
      BY <3>1 DEF SInv, FinalLineIsSomewhere, SlotsAreTold
    <3>4. HealthyNeverExpires' /\ FinalLineDelivered'
      BY <3>1 DEF SInv, HealthyNeverExpires, FinalLineDelivered
    <3> QED
      BY <3>2, <3>3, <3>4 DEF SInv
  <2> QED
    BY <2>1, <2>2, <2>3, <2>4 DEF Next
<1> QED
  BY <1>1, <1>2, PTL DEF Spec

\* "No task thread is ever detached": for any cap and any number of tasks, the
\* loop holds every live thread, within the cap, presumes none dead, and
\* reports none complete whose summary it has not forwarded (run_serve_loop,
\* pump, TaskHandle).
THEOREM ThreadsAreHeld == Spec => []EveryThreadIsHeld
<1>1. SInv => EveryThreadIsHeld
  <2> SUFFICES ASSUME SInv PROVE EveryThreadIsHeld
    OBVIOUS
  <2>1. TypeOK
    BY DEF SInv, LoopPhases, HandlesAgree, ThreadsFit, QueueFits, TypeOK
  <2>2. SlotsHaveHandles
    BY DEF SInv, HandlesAgree, SlotsHaveHandles
  <2>3. ThreadsAreBounded
    <3> DEFINE alive == {id \in DOMAIN threads : ~ Stopped(id)}
    <3>1. alive \subseteq handles /\ IsFiniteSet(handles) /\ Cardinality(handles) <= MaxConcurrent
      BY DEF SInv, HandlesAgree
    <3> HIDE DEF alive
    <3>2. IsFiniteSet(alive) /\ Cardinality(alive) <= Cardinality(handles)
      BY <3>1, FS_Subset
    <3>3. Cardinality(alive) \in Nat /\ Cardinality(handles) \in Nat
      BY <3>1, <3>2, FS_CardinalityType
    <3>4. Cardinality(alive) <= MaxConcurrent
      BY <3>1, <3>2, <3>3, RegistryAssumption
    <3> QED
      BY <3>1, <3>4 DEF ThreadsAreBounded, alive
  <2> QED
    BY <2>1, <2>2, <2>3 DEF SInv, EveryThreadIsHeld
<1> QED
  BY <1>1, LoopInvariant, PTL

(***************************************************************************)
(* Induction over sequences, with the set of the good ones as a value, and *)
(* loops over them.                                                        *)
(***************************************************************************)
\* The beginnings of a sequence, one longer than the other.
LEMMA Beginnings ==
  ASSUME NEW C, NEW s \in Seq(C)
  PROVE  /\ SubSeq(s, 1, 0) = << >> /\ SubSeq(s, 1, Len(s)) = s
         /\ \A n \in 1 .. Len(s) : SubSeq(s, 1, n) = Append(SubSeq(s, 1, n - 1), s[n])
<1>1. Len(s) \in Nat
  OBVIOUS
<1>2. SubSeq(s, 1, 0) = << >> /\ SubSeq(s, 1, Len(s)) = s
  OBVIOUS
<1>3. ASSUME NEW n \in 1 .. Len(s) PROVE SubSeq(s, 1, n) = Append(SubSeq(s, 1, n - 1), s[n])
  <2> DEFINE m == n - 1
             a == SubSeq(s, 1, m)
             b == SubSeq(s, 1, n)
             x == s[n]
  <2>1. n \in Nat /\ m \in Nat /\ n = m + 1 /\ n <= Len(s) /\ m <= Len(s) /\ x \in C
    BY <1>1
  <2>2. \A i \in 1 .. n : s[i] \in C
    BY <1>1
  <2>3. a \in Seq(C) /\ Len(a) = m /\ \A i \in 1 .. m : a[i] = s[i]
    BY <1>1, <2>1, <2>2
  <2>4. b \in Seq(C) /\ Len(b) = n /\ \A i \in 1 .. n : b[i] = s[i]
    BY <1>1, <2>1, <2>2
  <2> HIDE DEF m, a, b, x
  <2>5. /\ Append(a, x) \in Seq(C) /\ Len(Append(a, x)) = Len(a) + 1
        /\ \A i \in 1 .. Len(a) : Append(a, x)[i] = a[i]
        /\ Append(a, x)[Len(a) + 1] = x
    BY <2>1, <2>3, AppendProperties
  <2>6. \A i \in 1 .. n : b[i] = Append(a, x)[i]
    <3> TAKE i \in 1 .. n
    <3>1. i \in 1 .. m \/ i = n
      BY <2>1
    <3>2. CASE i \in 1 .. m
      BY <2>3, <2>4, <2>5, <3>2
    <3>3. CASE i = n
      BY <2>1, <2>3, <2>4, <2>5, <3>3 DEF x
    <3> QED BY <3>1, <3>2, <3>3
  <2>7. Len(Append(a, x)) = n
    BY <2>1, <2>3, <2>5
  <2> DEFINE c == Append(a, x)
  <2> HIDE DEF c
  <2>8. b = c
    BY <2>4, <2>5, <2>6, <2>7, SeqEqual DEF c
  <2> QED BY <2>8 DEF a, b, c, m, x
<1> QED BY <1>2, <1>3

\* A set with the empty sequence, and with each of its sequences extended by
\* any element, has every sequence.
LEMMA SeqSet ==
  ASSUME NEW C, NEW T, << >> \in T, \A s \in Seq(C), c \in C : s \in T => Append(s, c) \in T,
         NEW all \in Seq(C)
  PROVE  all \in T
<1> DEFINE N == Len(all)
           U == {n \in 0 .. N : SubSeq(all, 1, n) \in T}
<1>1. N \in Nat
  OBVIOUS
<1>2. /\ SubSeq(all, 1, 0) = << >> /\ SubSeq(all, 1, N) = all
      /\ \A n \in 1 .. N : SubSeq(all, 1, n) = Append(SubSeq(all, 1, n - 1), all[n])
  BY Beginnings
<1>3. 0 \in U
  <2>1. SubSeq(all, 1, 0) \in T
    BY Zenon, <1>2
  <2>2. 0 \in 0 .. N
    BY <1>1
  <2> QED BY <2>1, <2>2
<1>4. ASSUME NEW n \in 1 .. N, n - 1 \in U PROVE n \in U
  <2> DEFINE a == SubSeq(all, 1, n - 1)
  <2>1. n \in 0 .. N /\ n - 1 \in Nat /\ n - 1 <= N /\ all[n] \in C
    BY <1>1
  <2>2. a \in Seq(C)
    <3>1. \A i \in 1 .. n - 1 : all[i] \in C
      BY <1>1
    <3> QED BY <1>1, <2>1, <3>1
  <2>3. a \in T
    BY <1>4
  <2> HIDE DEF a
  <2>4. Append(a, all[n]) \in T
    BY <2>1, <2>2, <2>3
  <2>5. SubSeq(all, 1, n) \in T
    BY <1>2, <2>4 DEF a
  <2> QED BY <2>1, <2>5
<1> HIDE DEF U
<1>5. \A n \in 0 .. N : n \in U
  BY <1>1, <1>3, <1>4, UpTo
<1>6. N \in U
  BY <1>1, <1>5
<1> QED BY <1>2, <1>6 DEF U

(* A loop of such steps, and where it is after each element. *)
IsLoop(step, C, S) == step \in [C -> [S -> S]]
IsScan(f, step, S, from, seq) ==
  /\ f \in [0 .. Len(seq) -> S] /\ f[0] = from
  /\ \A n \in 1 .. Len(seq) : f[n] = step[seq[n]][f[n - 1]]

\* A loop can be followed element by element.
LEMMA ScanIs ==
  ASSUME NEW C, NEW S, NEW step, IsLoop(step, C, S), NEW from \in S, NEW seq \in Seq(C)
  PROVE  \E f : IsScan(f, step, S, from, seq) /\ Scan(step, from, seq) = f[Len(seq)]
<1> DEFINE N == Len(seq)
           g == [i \in 1 .. N |-> step[seq[i]]]
           Eq(h) == h = [i \in 0 .. N |-> IF i = 0 THEN from ELSE step[seq[i]][h[i - 1]]]
           f == CHOOSE h : Eq(h)
<1>1. N \in Nat /\ \A i \in 1 .. N : seq[i] \in C
  OBVIOUS
<1>2. Scan(step, from, seq) = f[N]
  BY DEF Scan
<1> HIDE DEF N
<1>3. IsStep(g, N, S)
  BY <1>1 DEF IsStep, IsLoop
<1> HIDE DEF g
<1>4. PICK h : Iterates(h, N, S, from, g)
  <2> HIDE DEF f, Eq
  <2> QED BY <1>1, <1>3, Recursion
<1>5. \A i \in 1 .. N : i - 1 \in 0 .. N /\ i # 0 /\ i \in 0 .. N
  BY <1>1
<1>6. Eq(h)
  <2>1. \A i \in 1 .. N : h[i] = step[seq[i]][h[i - 1]]
    BY <1>4, <1>5 DEF g, Iterates
  <2>2. \A i \in 0 .. N : i # 0 => i \in 1 .. N
    BY <1>1
  <2>3. \A i \in 0 .. N : h[i] = IF i = 0 THEN from ELSE step[seq[i]][h[i - 1]]
    BY <1>4, <2>1, <2>2 DEF Iterates
  <2> QED BY <1>4, <2>3 DEF Iterates
<1>7. Eq(f)
  <2> HIDE DEF Eq
  <2> QED BY <1>6
<1> HIDE DEF f
<1>8. f[0] = from /\ \A i \in 1 .. N : f[i] = step[seq[i]][f[i - 1]]
  <2>1. 0 \in 0 .. N
    BY <1>1
  <2>2. \A i \in 0 .. N : f[i] = IF i = 0 THEN from ELSE step[seq[i]][f[i - 1]]
    BY <1>7
  <2> HIDE DEF Eq
  <2> QED BY <1>5, <2>1, <2>2
<1>9. \A i \in 0 .. N : f[i] \in S
  <2> DEFINE T == {i \in 0 .. N : f[i] \in S}
  <2>1. 0 \in T
    BY <1>1, <1>8
  <2>2. ASSUME NEW i \in 1 .. N, i - 1 \in T PROVE i \in T
    <3>1. f[i - 1] \in S /\ seq[i] \in C
      BY <1>1, <2>2
    <3>2. step[seq[i]][f[i - 1]] \in S
      BY <3>1 DEF IsLoop
    <3> QED BY <1>5, <1>8, <3>2
  <2> HIDE DEF T
  <2>3. \A i \in 0 .. N : i \in T
    BY <1>1, <2>1, <2>2, UpTo
  <2> QED BY <2>3 DEF T
<1>10. f \in [0 .. N -> S]
  BY <1>7, <1>9
<1>11. IsScan(f, step, S, from, seq)
  BY <1>8, <1>10 DEF IsScan, N
<1> QED BY <1>2, <1>11 DEF N

(* Two sequences are the same in their first N elements. *)
Same(a, b, N) == N \in Nat /\ N <= Len(a) /\ N <= Len(b) /\ \A i \in 1 .. N : a[i] = b[i]

\* Two runs of a loop over sequences that begin alike are alike so far.
LEMMA ScansAgree ==
  ASSUME NEW C, NEW S, NEW step, NEW from, NEW a \in Seq(C), NEW b \in Seq(C), NEW f, NEW g, NEW N,
         IsScan(f, step, S, from, a), IsScan(g, step, S, from, b), Same(a, b, N)
  PROVE  f[N] = g[N]
<1>0. N \in Nat /\ N <= Len(a) /\ N <= Len(b) /\ \A i \in 1 .. N : a[i] = b[i]
  BY DEF Same
<1> DEFINE T == {n \in 0 .. N : f[n] = g[n]}
<1>1. Len(a) \in Nat /\ Len(b) \in Nat /\ f[0] = from /\ g[0] = from
  BY DEF IsScan
<1>2. 0 \in T
  BY <1>0, <1>1
<1>3. ASSUME NEW n \in 1 .. N, n - 1 \in T PROVE n \in T
  <2>1. n \in 1 .. Len(a) /\ n \in 1 .. Len(b) /\ n \in 0 .. N
    BY <1>0, <1>1
  <2>2. f[n - 1] = g[n - 1]
    BY <1>3
  <2> HIDE DEF T
  <2>3. f[n] = step[a[n]][f[n - 1]] /\ g[n] = step[b[n]][g[n - 1]]
    BY <2>1 DEF IsScan
  <2>4. a[n] = b[n]
    BY <1>0
  <2>5. f[n] = g[n]
    BY Zenon, <2>2, <2>3, <2>4
  <2> QED BY <2>1, <2>5 DEF T
<1>4. \A n \in 0 .. N : n \in T
  <2> HIDE DEF T
  <2> QED BY <1>0, <1>2, <1>3, UpTo
<1> QED BY <1>0, <1>4

\* What a loop ends with is of its kind; over one more element it takes one
\* more step.
LEMMA ScanSteps ==
  ASSUME NEW C, NEW S, NEW step, IsLoop(step, C, S), NEW from \in S
  PROVE  /\ Scan(step, from, << >>) = from
         /\ \A seq \in Seq(C) : Scan(step, from, seq) \in S
         /\ \A seq \in Seq(C), c \in C : Scan(step, from, Append(seq, c)) = step[c][Scan(step, from, seq)]
<1>0. \A seq \in Seq(C) : \E f : IsScan(f, step, S, from, seq) /\ Scan(step, from, seq) = f[Len(seq)]
  BY ScanIs
<1>1. Scan(step, from, << >>) = from
  <2> DEFINE e == << >>
  <2>1. e \in Seq(C) /\ Len(e) = 0
    OBVIOUS
  <2> HIDE DEF e
  <2>2. PICK f : IsScan(f, step, S, from, e) /\ Scan(step, from, e) = f[Len(e)]
    BY Zenon, <1>0, <2>1
  <2>3. Scan(step, from, e) = from
    BY <2>1, <2>2 DEF IsScan
  <2> QED BY <2>3 DEF e
<1>2. ASSUME NEW seq \in Seq(C) PROVE Scan(step, from, seq) \in S
  <2>1. PICK f : IsScan(f, step, S, from, seq) /\ Scan(step, from, seq) = f[Len(seq)]
    BY ScanIs
  <2>2. Len(seq) \in 0 .. Len(seq)
    OBVIOUS
  <2> QED BY <2>1, <2>2 DEF IsScan
<1>3. ASSUME NEW seq \in Seq(C), NEW c \in C PROVE Scan(step, from, Append(seq, c)) = step[c][Scan(step, from, seq)]
  <2> DEFINE N == Len(seq)
             more == Append(seq, c)
  <2>1. N \in Nat
    OBVIOUS
  <2>2. more \in Seq(C) /\ Len(more) = N + 1 /\ more[N + 1] = c /\ \A i \in 1 .. N : more[i] = seq[i]
    BY AppendProperties
  <2> HIDE DEF N, more
  <2>3. PICK f : IsScan(f, step, S, from, seq) /\ Scan(step, from, seq) = f[N]
    BY ScanIs DEF N
  <2>4. PICK g : IsScan(g, step, S, from, more) /\ Scan(step, from, more) = g[Len(more)]
    BY <2>2, ScanIs
  <2>5. Same(seq, more, N)
    BY <2>1, <2>2 DEF N, Same
  <2>6. f[N] = g[N]
    BY <2>1, <2>2, <2>3, <2>4, <2>5, ScansAgree
  <2>7. N + 1 \in 1 .. Len(more) /\ (N + 1) - 1 = N
    BY <2>1, <2>2
  <2>8. g[N + 1] = step[more[N + 1]][g[N]]
    <3>1. g[N + 1] = step[more[N + 1]][g[(N + 1) - 1]]
      BY <2>4, <2>7 DEF IsScan
    <3> QED BY Zenon, <2>7, <3>1
  <2>9. Scan(step, from, more) = step[c][Scan(step, from, seq)]
    BY Zenon, <2>2, <2>3, <2>4, <2>6, <2>8
  <2> QED BY <2>9 DEF more
<1> QED BY <1>1, <1>2, <1>3
(***************************************************************************)
(* The encodings.  Each loop is one, and its inverse undoes it.            *)
(***************************************************************************)
\* Two characters at once.
LEMMA TwoMore ==
  ASSUME NEW C, NEW s \in Seq(C), NEW a \in C, NEW b \in C
  PROVE  s \o <<a, b>> = Append(Append(s, a), b) /\ Append(s, a) \in Seq(C) /\ Append(Append(s, a), b) \in Seq(C)
<1> DEFINE p == <<a, b>>
           x == s \o p
           y == Append(s, a)
           z == Append(y, b)
<1>1. p \in Seq(C) /\ Len(p) = 2 /\ p[1] = a /\ p[2] = b
  OBVIOUS
<1> HIDE DEF p
<1>2. /\ x \in Seq(C) /\ Len(x) = Len(s) + Len(p)
      /\ \A i \in 1 .. Len(s) + Len(p) : x[i] = IF i <= Len(s) THEN s[i] ELSE p[i - Len(s)]
  BY <1>1, ConcatProperties
<1>3. /\ y \in Seq(C) /\ Len(y) = Len(s) + 1 /\ y[Len(s) + 1] = a /\ \A i \in 1 .. Len(s) : y[i] = s[i]
  BY AppendProperties
<1> HIDE DEF x, y
<1>4. /\ z \in Seq(C) /\ Len(z) = Len(y) + 1 /\ z[Len(y) + 1] = b /\ \A i \in 1 .. Len(y) : z[i] = y[i]
  BY <1>3, AppendProperties
<1> HIDE DEF z
<1> DEFINE n == Len(s)
<1>5. n \in Nat
  OBVIOUS
<1> HIDE DEF n
<1>6. Len(x) = n + 2 /\ Len(z) = n + 2 /\ Len(y) = n + 1
  BY <1>1, <1>2, <1>3, <1>4, <1>5 DEF n
<1>7. ASSUME NEW i \in 1 .. n + 2 PROVE x[i] = z[i]
  <2>1. x[i] = IF i <= n THEN s[i] ELSE p[i - n]
    BY <1>1, <1>2, <1>5 DEF n
  <2>2. CASE i <= n
    <3>1. i \in 1 .. n /\ i \in 1 .. n + 1
      BY <1>5, <2>2
    <3> QED BY <1>3, <1>4, <1>6, <2>1, <2>2, <3>1 DEF n
  <2>3. CASE i = n + 1
    <3>1. ~(i <= n) /\ i - n = 1 /\ i \in 1 .. n + 1
      BY <1>5, <2>3
    <3>2. x[i] = a
      BY <1>1, <2>1, <3>1
    <3>3. z[i] = a
      BY <1>3, <1>4, <1>6, <2>3, <3>1 DEF n
    <3> QED BY <3>2, <3>3
  <2>4. CASE i = n + 2
    <3>1. ~(i <= n) /\ i - n = 2 /\ i = (n + 1) + 1
      BY <1>5, <2>4
    <3> QED BY <1>1, <1>4, <1>6, <2>1, <3>1
  <2>5. i <= n \/ i = n + 1 \/ i = n + 2
    BY <1>5
  <2> QED BY <2>2, <2>3, <2>4, <2>5
<1>8. x = z
  BY <1>2, <1>4, <1>6, <1>7, SeqEqual
<1> QED BY <1>3, <1>4, <1>8 DEF p, x, y, z

\* The characters that are special are characters, and differ.
LEMMA Special ==
  /\ Quote \in Chars /\ Slash \in Chars /\ LF \in Chars /\ "n" \in Chars
  /\ Quote # Slash /\ Quote # LF /\ Slash # LF /\ Quote # "n" /\ Slash # "n" /\ LF # "n"
BY WireAssumption DEF Quote, Slash, LF

\* The escapes are steps of a loop.
LEMMA EncodeLoops == IsLoop(EncodeChar, Chars, Text) /\ IsLoop(EscapeChar, Chars, Text)
<1>1. ASSUME NEW c \in Chars, NEW out \in Text
      PROVE  /\ Append(out, c) \in Text /\ out \o <<Slash, Quote>> \in Text
             /\ out \o <<Slash, Slash>> \in Text /\ out \o <<Slash, "n">> \in Text
  <2>1. Append(out, c) \in Text
    BY DEF Text
  <2>2. \A b \in Chars : out \o <<Slash, b>> \in Text
    BY Special, TwoMore DEF Text
  <2> QED BY <2>1, <2>2, Special
<1>2. ASSUME NEW c \in Chars PROVE EncodeChar[c] \in [Text -> Text] /\ EscapeChar[c] \in [Text -> Text]
  BY <1>1 DEF EncodeChar, EscapeChar
<1>3. EncodeChar \in [Chars -> [Text -> Text]]
  BY <1>2 DEF EncodeChar
<1>4. EscapeChar \in [Chars -> [Text -> Text]]
  BY <1>2 DEF EscapeChar
<1> QED BY <1>3, <1>4 DEF IsLoop
\* What encode_str and escape_delim do with one more character.
LEMMA EncodeSteps ==
  /\ EncodeStr(<< >>) = << >> /\ EscapeDelim(<< >>) = << >>
  /\ \A t \in Text : EncodeStr(t) \in Text /\ EscapeDelim(t) \in Text
  /\ \A t \in Text, c \in Chars :
       EncodeStr(Append(t, c)) = IF c = Quote THEN Append(Append(EncodeStr(t), Slash), Quote)
                                 ELSE IF c = Slash THEN Append(Append(EncodeStr(t), Slash), Slash)
                                 ELSE IF c = LF THEN Append(Append(EncodeStr(t), Slash), "n")
                                 ELSE Append(EncodeStr(t), c)
  /\ \A t \in Text, c \in Chars :
       EscapeDelim(Append(t, c)) = IF c = Slash THEN Append(Append(EscapeDelim(t), Slash), Slash)
                                   ELSE IF c = LF THEN Append(Append(EscapeDelim(t), Slash), "n")
                                   ELSE Append(EscapeDelim(t), c)
<1>1. << >> \in Text
  BY DEF Text
<1>2. /\ EncodeStr(<< >>) = << >>
      /\ \A t \in Text : EncodeStr(t) \in Text
      /\ \A t \in Text, c \in Chars : EncodeStr(Append(t, c)) = EncodeChar[c][EncodeStr(t)]
  BY <1>1, EncodeLoops, ScanSteps DEF EncodeStr, Text
<1>3. /\ EscapeDelim(<< >>) = << >>
      /\ \A t \in Text : EscapeDelim(t) \in Text
      /\ \A t \in Text, c \in Chars : EscapeDelim(Append(t, c)) = EscapeChar[c][EscapeDelim(t)]
  BY <1>1, EncodeLoops, ScanSteps DEF EscapeDelim, Text
<1>4. \A out \in Text, b \in Chars : out \o <<Slash, b>> = Append(Append(out, Slash), b)
  BY Special, TwoMore DEF Text
<1>5. ASSUME NEW c \in Chars, NEW out \in Text
      PROVE  EncodeChar[c][out] = IF c = Quote THEN Append(Append(out, Slash), Quote)
                                  ELSE IF c = Slash THEN Append(Append(out, Slash), Slash)
                                  ELSE IF c = LF THEN Append(Append(out, Slash), "n")
                                  ELSE Append(out, c)
  BY <1>4, Special DEF EncodeChar
<1>6. ASSUME NEW c \in Chars, NEW out \in Text
      PROVE  EscapeChar[c][out] = IF c = Slash THEN Append(Append(out, Slash), Slash)
                                  ELSE IF c = LF THEN Append(Append(out, Slash), "n")
                                  ELSE Append(out, c)
  BY <1>4, Special DEF EscapeChar
<1>7. ASSUME NEW t \in Text, NEW c \in Chars
      PROVE  EncodeStr(Append(t, c)) = IF c = Quote THEN Append(Append(EncodeStr(t), Slash), Quote)
                                       ELSE IF c = Slash THEN Append(Append(EncodeStr(t), Slash), Slash)
                                       ELSE IF c = LF THEN Append(Append(EncodeStr(t), Slash), "n")
                                       ELSE Append(EncodeStr(t), c)
  <2>1. EncodeStr(t) \in Text /\ EncodeStr(Append(t, c)) = EncodeChar[c][EncodeStr(t)]
    BY <1>2
  <2> QED BY <1>5, <2>1
<1>8. ASSUME NEW t \in Text, NEW c \in Chars
      PROVE  EscapeDelim(Append(t, c)) = IF c = Slash THEN Append(Append(EscapeDelim(t), Slash), Slash)
                                         ELSE IF c = LF THEN Append(Append(EscapeDelim(t), Slash), "n")
                                         ELSE Append(EscapeDelim(t), c)
  <2>1. EscapeDelim(t) \in Text /\ EscapeDelim(Append(t, c)) = EscapeChar[c][EscapeDelim(t)]
    BY <1>3
  <2> QED BY <1>6, <2>1
<1> QED BY <1>2, <1>3, <1>7, <1>8

\* The state of parse_string after one more character.
LEMMA ParseSteps ==
  /\ ParseString(<< >>) = [state |-> "in", out |-> << >>]
  /\ \A t \in Text : ParseString(t) \in Reading
  /\ \A t \in Text, c \in Chars : ParseString(Append(t, c)) = ParseChar[c][ParseString(t)]
<1>1. ASSUME NEW c \in Chars, NEW s \in Reading PROVE ParseChar[c][s] \in Reading
  <2>1. s.out \in Text /\ s.state \in {"in", "escape", "done", "error"}
    BY DEF Reading
  <2>2. Append(s.out, c) \in Text /\ Append(s.out, LF) \in Text
    BY <2>1, Special DEF Text
  <2>3. /\ [state |-> "in", out |-> Append(s.out, c)] \in Reading
        /\ [state |-> "in", out |-> Append(s.out, LF)] \in Reading
        /\ [s EXCEPT !.state = "error"] \in Reading /\ [s EXCEPT !.state = "done"] \in Reading
        /\ [s EXCEPT !.state = "escape"] \in Reading /\ [s EXCEPT !.out = Append(@, c)] \in Reading
    BY <2>2 DEF Reading
  <2> QED BY <2>3 DEF ParseChar
<1>2. IsLoop(ParseChar, Chars, Reading)
  <2>1. \A c \in Chars : ParseChar[c] \in [Reading -> Reading]
    BY <1>1 DEF ParseChar
  <2> QED BY <2>1 DEF ParseChar, IsLoop
<1> DEFINE i == [state |-> "in", out |-> << >>]
<1>3. i \in Reading
  BY DEF Reading, Text
<1> HIDE DEF i
<1>4. /\ Scan(ParseChar, i, << >>) = i
      /\ \A t \in Seq(Chars) : Scan(ParseChar, i, t) \in Reading
      /\ \A t \in Seq(Chars), c \in Chars : Scan(ParseChar, i, Append(t, c)) = ParseChar[c][Scan(ParseChar, i, t)]
  BY <1>2, <1>3, ScanSteps
<1> QED BY <1>4 DEF i, ParseString, Text

\* A record of a state and what was read.
LEMMA ReadingIs ==
  ASSUME NEW out \in Text, NEW c \in Chars
  PROVE  /\ c # Quote /\ c # Slash => ParseChar[c][[state |-> "in", out |-> out]] = [state |-> "in", out |-> Append(out, c)]
         /\ ParseChar[Slash][[state |-> "in", out |-> out]] = [state |-> "escape", out |-> out]
         /\ ParseChar[Quote][[state |-> "in", out |-> out]] = [state |-> "done", out |-> out]
         /\ ParseChar[Quote][[state |-> "escape", out |-> out]] = [state |-> "in", out |-> Append(out, Quote)]
         /\ ParseChar[Slash][[state |-> "escape", out |-> out]] = [state |-> "in", out |-> Append(out, Slash)]
         /\ ParseChar["n"][[state |-> "escape", out |-> out]] = [state |-> "in", out |-> Append(out, LF)]
<1> DEFINE a == [state |-> "in", out |-> out]
           e == [state |-> "escape", out |-> out]
<1>1. a \in Reading /\ e \in Reading /\ a.state = "in" /\ e.state = "escape" /\ a.out = out /\ e.out = out
  BY DEF Reading
<1>2. /\ [a EXCEPT !.out = Append(@, c)] = [state |-> "in", out |-> Append(out, c)]
      /\ [a EXCEPT !.state = "escape"] = [state |-> "escape", out |-> out]
      /\ [a EXCEPT !.state = "done"] = [state |-> "done", out |-> out]
  OBVIOUS
<1> HIDE DEF a, e
<1>3. c # Quote /\ c # Slash => ParseChar[c][a] = [a EXCEPT !.out = Append(@, c)]
  BY <1>1 DEF ParseChar
<1>4. ParseChar[Slash][a] = [a EXCEPT !.state = "escape"] /\ ParseChar[Quote][a] = [a EXCEPT !.state = "done"]
  BY <1>1, Special DEF ParseChar
<1>5. /\ ParseChar[Quote][e] = [state |-> "in", out |-> Append(out, Quote)]
      /\ ParseChar[Slash][e] = [state |-> "in", out |-> Append(out, Slash)]
      /\ ParseChar["n"][e] = [state |-> "in", out |-> Append(out, LF)]
  BY <1>1, Special DEF ParseChar
<1> QED BY <1>2, <1>3, <1>4, <1>5 DEF a, e

\* parse_string reads back what encode_str wrote.
LEMMA ParseUndoesEncode ==
  ASSUME NEW text \in Text
  PROVE  ParseString(Append(EncodeStr(text), Quote)).out = text
<1> DEFINE T == {t \in Text : ParseString(EncodeStr(t)) = [state |-> "in", out |-> t]}
<1>1. << >> \in T
  BY EncodeSteps, ParseSteps DEF Text
<1>2. ASSUME NEW t \in Text, NEW c \in Chars, t \in T PROVE Append(t, c) \in T
  <2> DEFINE x == EncodeStr(t)
             y == Append(x, Slash)
  <2>1. x \in Text /\ y \in Text /\ Append(t, c) \in Text /\ ParseString(x) = [state |-> "in", out |-> t]
    <3>1. x \in Text
      BY EncodeSteps
    <3> QED BY <1>2, <3>1, Special DEF Text
  <2> HIDE DEF T, x
  <2>0. \A b \in Chars : ParseString(Append(x, b)) = ParseChar[b][[state |-> "in", out |-> t]]
    BY Zenon, <2>1, ParseSteps
  <2>2. ParseString(y) = [state |-> "escape", out |-> t]
    BY <2>0, Special, ReadingIs
  <2>3. \A b \in Chars : ParseString(Append(y, b)) = ParseChar[b][[state |-> "escape", out |-> t]]
    BY <2>1, <2>2, ParseSteps
  <2>4. CASE c = Quote
    <3>1. EncodeStr(Append(t, c)) = Append(y, Quote)
      BY <2>4, EncodeSteps DEF x
    <3>2. ParseString(Append(y, Quote)) = [state |-> "in", out |-> Append(t, Quote)]
      BY <2>3, Special, ReadingIs
    <3> QED BY <2>1, <2>4, <3>1, <3>2 DEF T
  <2>5. CASE c = Slash
    <3>1. EncodeStr(Append(t, c)) = Append(y, Slash)
      BY <2>5, EncodeSteps, Special DEF x
    <3>2. ParseString(Append(y, Slash)) = [state |-> "in", out |-> Append(t, Slash)]
      BY <2>3, Special, ReadingIs
    <3> QED BY <2>1, <2>5, <3>1, <3>2 DEF T
  <2>6. CASE c = LF
    <3>1. EncodeStr(Append(t, c)) = Append(y, "n")
      BY <2>6, EncodeSteps, Special DEF x
    <3>2. ParseString(Append(y, "n")) = [state |-> "in", out |-> Append(t, LF)]
      BY <2>3, Special, ReadingIs
    <3> QED BY <2>1, <2>6, <3>1, <3>2 DEF T
  <2>7. CASE c # Quote /\ c # Slash /\ c # LF
    <3>1. EncodeStr(Append(t, c)) = Append(x, c)
      BY <2>7, EncodeSteps DEF x
    <3>2. ParseChar[c][[state |-> "in", out |-> t]] = [state |-> "in", out |-> Append(t, c)]
      BY <2>7, ReadingIs
    <3>3. ParseString(Append(x, c)) = [state |-> "in", out |-> Append(t, c)]
      BY Zenon, <2>0, <3>2
    <3> QED BY <2>1, <3>1, <3>3 DEF T
  <2> QED BY <2>4, <2>5, <2>6, <2>7
<1> HIDE DEF T
<1>3. text \in T
  BY <1>1, <1>2, SeqSet DEF Text
<1>4. ParseString(EncodeStr(text)) = [state |-> "in", out |-> text] /\ EncodeStr(text) \in Text
  BY <1>3, EncodeSteps DEF T
<1>5. ParseString(Append(EncodeStr(text), Quote)) = [state |-> "done", out |-> text]
  <2>1. ParseString(Append(EncodeStr(text), Quote)) = ParseChar[Quote][[state |-> "in", out |-> text]]
    BY Zenon, <1>4, Special, ParseSteps
  <2> QED BY <2>1, Special, ReadingIs
<1> QED BY <1>5
\* The state of unescape_delim after one more character.
LEMMA UnescapeSteps ==
  LET i == [state |-> "in", out |-> << >>]
  IN  /\ Scan(UnescapeChar, i, << >>) = i
      /\ \A t \in Text, c \in Chars : Scan(UnescapeChar, i, Append(t, c)) = UnescapeChar[c][Scan(UnescapeChar, i, t)]
<1>1. ASSUME NEW c \in Chars, NEW s \in Unescaping PROVE UnescapeChar[c][s] \in Unescaping
  <2>1. s.out \in Text /\ s.state \in {"in", "escape"}
    BY DEF Unescaping
  <2>2. Append(s.out, c) \in Text /\ Append(s.out, LF) \in Text /\ Append(s.out, Slash) \in Text
    BY <2>1, Special DEF Text
  <2>3. s.out \o <<Slash, c>> \in Text
    BY <2>1, Special, TwoMore DEF Text
  <2>4. /\ [s EXCEPT !.state = "escape"] \in Unescaping /\ [s EXCEPT !.out = Append(@, c)] \in Unescaping
        /\ \A o \in Text : [state |-> "in", out |-> o] \in Unescaping
    BY <2>2 DEF Unescaping
  <2> DEFINE o == CASE c = "n" -> Append(s.out, LF) [] c = Slash -> Append(s.out, Slash) [] OTHER -> s.out \o <<Slash, c>>
  <2>5. o \in Text
    BY <2>2, <2>3
  <2>6. UnescapeChar[c][s] = IF s.state = "in" THEN IF c = Slash THEN [s EXCEPT !.state = "escape"] ELSE [s EXCEPT !.out = Append(@, c)]
                             ELSE [state |-> "in", out |-> o]
    BY DEF UnescapeChar
  <2> HIDE DEF o
  <2> QED BY <2>4, <2>5, <2>6
<1>2. IsLoop(UnescapeChar, Chars, Unescaping)
  <2>1. \A c \in Chars : UnescapeChar[c] \in [Unescaping -> Unescaping]
    BY <1>1 DEF UnescapeChar
  <2> QED BY <2>1 DEF UnescapeChar, IsLoop
<1> DEFINE i == [state |-> "in", out |-> << >>]
<1>3. i \in Unescaping
  BY DEF Unescaping, Text
<1> HIDE DEF i
<1>4. /\ Scan(UnescapeChar, i, << >>) = i
      /\ \A t \in Seq(Chars), c \in Chars : Scan(UnescapeChar, i, Append(t, c)) = UnescapeChar[c][Scan(UnescapeChar, i, t)]
  BY <1>2, <1>3, ScanSteps
<1> QED BY <1>4 DEF i, Text

\* What is read of an escaped text, and after a backslash.
LEMMA UnescapingIs ==
  ASSUME NEW out \in Text, NEW c \in Chars
  PROVE  /\ c # Slash => UnescapeChar[c][[state |-> "in", out |-> out]] = [state |-> "in", out |-> Append(out, c)]
         /\ UnescapeChar[Slash][[state |-> "in", out |-> out]] = [state |-> "escape", out |-> out]
         /\ UnescapeChar[Slash][[state |-> "escape", out |-> out]] = [state |-> "in", out |-> Append(out, Slash)]
         /\ UnescapeChar["n"][[state |-> "escape", out |-> out]] = [state |-> "in", out |-> Append(out, LF)]
<1> DEFINE a == [state |-> "in", out |-> out]
           e == [state |-> "escape", out |-> out]
<1>1. a \in Unescaping /\ e \in Unescaping /\ a.state = "in" /\ e.state = "escape" /\ a.out = out /\ e.out = out
  BY DEF Unescaping
<1>2. /\ [a EXCEPT !.out = Append(@, c)] = [state |-> "in", out |-> Append(out, c)]
      /\ [a EXCEPT !.state = "escape"] = [state |-> "escape", out |-> out]
  OBVIOUS
<1> HIDE DEF a, e
<1>3. c # Slash => UnescapeChar[c][a] = [a EXCEPT !.out = Append(@, c)]
  BY <1>1 DEF UnescapeChar
<1>4. UnescapeChar[Slash][a] = [a EXCEPT !.state = "escape"]
  BY <1>1, Special DEF UnescapeChar
<1>5. /\ UnescapeChar[Slash][e] = [state |-> "in", out |-> Append(out, Slash)]
      /\ UnescapeChar["n"][e] = [state |-> "in", out |-> Append(out, LF)]
  BY <1>1, Special DEF UnescapeChar
<1> QED BY <1>2, <1>3, <1>4, <1>5 DEF a, e

\* unescape_delim reads back what escape_delim wrote.
LEMMA UnescapeUndoesEscape ==
  ASSUME NEW text \in Text
  PROVE  UnescapeDelim(EscapeDelim(text)) = text
<1> DEFINE i == [state |-> "in", out |-> << >>]
           R(x) == Scan(UnescapeChar, i, x)
           T == {t \in Text : R(EscapeDelim(t)) = [state |-> "in", out |-> t]}
<1>1. R(<< >>) = [state |-> "in", out |-> << >>] /\ \A t \in Text, c \in Chars : R(Append(t, c)) = UnescapeChar[c][R(t)]
  BY UnescapeSteps
<1> HIDE DEF R
<1>2. << >> \in T
  BY <1>1, EncodeSteps DEF Text
<1>3. ASSUME NEW t \in Text, NEW c \in Chars, t \in T PROVE Append(t, c) \in T
  <2> DEFINE x == EscapeDelim(t)
             y == Append(x, Slash)
  <2>1. x \in Text /\ y \in Text /\ Append(t, c) \in Text /\ R(x) = [state |-> "in", out |-> t]
    <3>1. x \in Text
      BY EncodeSteps
    <3> QED BY <1>3, <3>1, Special DEF Text
  <2> HIDE DEF T, x
  <2>2. \A b \in Chars : R(Append(x, b)) = UnescapeChar[b][[state |-> "in", out |-> t]]
    BY Zenon, <1>1, <2>1
  <2>3. R(y) = [state |-> "escape", out |-> t]
    BY <2>2, Special, UnescapingIs
  <2>4. \A b \in Chars : R(Append(y, b)) = UnescapeChar[b][[state |-> "escape", out |-> t]]
    BY <1>1, <2>1, <2>3
  <2>5. CASE c = Slash
    <3>1. EscapeDelim(Append(t, c)) = Append(y, Slash)
      BY <2>5, EncodeSteps DEF x
    <3>2. R(Append(y, Slash)) = [state |-> "in", out |-> Append(t, Slash)]
      BY <2>4, Special, UnescapingIs
    <3> QED BY <2>1, <2>5, <3>1, <3>2 DEF T
  <2>6. CASE c = LF
    <3>1. EscapeDelim(Append(t, c)) = Append(y, "n")
      BY <2>6, EncodeSteps, Special DEF x
    <3>2. R(Append(y, "n")) = [state |-> "in", out |-> Append(t, LF)]
      BY <2>4, Special, UnescapingIs
    <3> QED BY <2>1, <2>6, <3>1, <3>2 DEF T
  <2>7. CASE c # Slash /\ c # LF
    <3>1. EscapeDelim(Append(t, c)) = Append(x, c)
      BY <2>7, EncodeSteps DEF x
    <3>2. UnescapeChar[c][[state |-> "in", out |-> t]] = [state |-> "in", out |-> Append(t, c)]
      BY <2>7, UnescapingIs
    <3>3. R(Append(x, c)) = [state |-> "in", out |-> Append(t, c)]
      BY Zenon, <2>2, <3>2
    <3> QED BY <2>1, <3>1, <3>3 DEF T
  <2> QED BY <2>5, <2>6, <2>7
<1> HIDE DEF T
<1>4. text \in T
  BY <1>2, <1>3, SeqSet DEF Text
<1>5. R(EscapeDelim(text)) = [state |-> "in", out |-> text]
  BY <1>4 DEF T
<1> QED BY <1>5 DEF R, UnescapeDelim

(* Texts with no line feed, and one part more of one of them. *)
Plain == Seq(Chars \ {LF})

\* An escaped text has no line feed.
LEMMA EscapedIsPlain ==
  ASSUME NEW text \in Text
  PROVE  EscapeDelim(text) \in Plain
<1> DEFINE T == {t \in Text : EscapeDelim(t) \in Plain}
<1>1. << >> \in T
  <2>1. EscapeDelim(<< >>) = << >> /\ << >> \in Text
    BY EncodeSteps DEF Text
  <2>2. << >> \in Plain
    BY DEF Plain
  <2> QED BY <2>1, <2>2
<1>2. \A x \in Plain, c \in Chars \ {LF} : Append(x, c) \in Plain
  BY DEF Plain
<1>3. ASSUME NEW t \in Text, NEW c \in Chars, t \in T PROVE Append(t, c) \in T
  <2> DEFINE x == EscapeDelim(t)
  <2>1. x \in Plain /\ Append(t, c) \in Text
    BY <1>3 DEF Text
  <2>2. EscapeDelim(Append(t, c)) = IF c = Slash THEN Append(Append(x, Slash), Slash)
                                    ELSE IF c = LF THEN Append(Append(x, Slash), "n") ELSE Append(x, c)
    BY EncodeSteps
  <2> HIDE DEF x, T
  <2>3. Append(Append(x, Slash), Slash) \in Plain /\ Append(Append(x, Slash), "n") \in Plain
    BY <1>2, <2>1, Special
  <2>4. c # LF => Append(x, c) \in Plain
    BY <1>2, <2>1
  <2>5. EscapeDelim(Append(t, c)) \in Plain
    BY <2>2, <2>3, <2>4
  <2> QED BY <2>1, <2>5 DEF T
<1> HIDE DEF T
<1>4. text \in T
  BY <1>1, <1>3, SeqSet DEF Text
<1> QED BY <1>4 DEF T

(* The parts of what is split so far, and those of a join, the last one grown. *)
Splits == Seq(Text) \ {<< >>}
Parts(x) == Scan(SplitChar, << << >> >>, x)
LastGrown(p, x) == [p EXCEPT ![Len(p)] = @ \o x]

\* What decode_texts has after one more character.
LEMMA SplitSteps ==
  /\ Parts(<< >>) = << << >> >>
  /\ \A t \in Text : Parts(t) \in Splits
  /\ \A t \in Text, c \in Chars :
       Parts(Append(t, c)) = IF c = LF THEN Append(Parts(t), << >>)
                             ELSE [Parts(t) EXCEPT ![Len(Parts(t))] = Append(@, c)]
<1>1. ASSUME NEW c \in Chars, NEW p \in Splits PROVE SplitChar[c][p] \in Splits
  <2>1. p \in Seq(Text) /\ p # << >> /\ << >> \in Text
    BY DEF Splits, Text
  <2>2. Append(p, << >>) \in Splits
    <3> DEFINE e == << >>
    <3>1. e \in Text
      BY <2>1
    <3> HIDE DEF e
    <3>2. Append(p, e) \in Seq(Text) /\ Append(p, e) # << >>
      BY <2>1, <3>1
    <3> QED BY <3>2 DEF Splits, e
  <2>3. Len(p) \in Nat /\ Len(p) # 0 /\ Len(p) \in 1 .. Len(p) /\ p[Len(p)] \in Text
    BY <2>1
  <2>4. Append(p[Len(p)], c) \in Text
    BY <2>3 DEF Text
  <2>5. [p EXCEPT ![Len(p)] = Append(@, c)] \in Splits
    <3> DEFINE q == [p EXCEPT ![Len(p)] = Append(@, c)]
    <3>1. q \in Seq(Text) /\ Len(q) = Len(p)
      BY <2>1, <2>3, <2>4
    <3>2. q # << >>
      BY <2>3, <3>1
    <3> QED BY <3>1, <3>2 DEF Splits
  <2> QED BY <2>2, <2>5 DEF SplitChar, Splits
<1>2. IsLoop(SplitChar, Chars, Splits)
  <2>1. \A c \in Chars : SplitChar[c] \in [Splits -> Splits]
    BY <1>1 DEF SplitChar, Splits
  <2> QED BY <2>1 DEF SplitChar, IsLoop
<1> DEFINE i == << << >> >>
<1>3. i \in Splits
  BY DEF Splits, Text
<1> HIDE DEF i
<1>4. /\ Scan(SplitChar, i, << >>) = i
      /\ \A t \in Seq(Chars) : Scan(SplitChar, i, t) \in Splits
      /\ \A t \in Seq(Chars), c \in Chars : Scan(SplitChar, i, Append(t, c)) = SplitChar[c][Scan(SplitChar, i, t)]
  BY <1>2, <1>3, ScanSteps
<1>5. ASSUME NEW c \in Chars, NEW p \in Splits
      PROVE  SplitChar[c][p] = IF c = LF THEN Append(p, << >>) ELSE [p EXCEPT ![Len(p)] = Append(@, c)]
  BY DEF SplitChar, Splits
<1>6. ASSUME NEW t \in Text PROVE Parts(t) \in Splits
  BY <1>4 DEF i, Parts, Text
<1>7. ASSUME NEW t \in Text, NEW c \in Chars PROVE Parts(Append(t, c)) = SplitChar[c][Parts(t)]
  BY <1>4 DEF i, Parts, Text
<1>8. Parts(<< >>) = << << >> >>
  BY <1>4 DEF i, Parts
<1> QED BY <1>5, <1>6, <1>7, <1>8

\* What joining two texts and one more character gives.
LEMMA ConcatOne ==
  ASSUME NEW C, NEW a \in Seq(C), NEW b \in Seq(C), NEW c \in C
  PROVE  a \o Append(b, c) = Append(a \o b, c) /\ a \o b \in Seq(C) /\ a \o << >> = a /\ << >> \o a = a
<1> DEFINE d == Append(b, c)
           x == a \o d
           y == a \o b
           z == Append(y, c)
           n == Len(a)
           m == Len(b)
<1>1. d \in Seq(C) /\ Len(d) = m + 1 /\ d[m + 1] = c /\ \A i \in 1 .. m : d[i] = b[i]
  BY AppendProperties
<1>2. /\ y \in Seq(C) /\ Len(y) = n + m
      /\ \A i \in 1 .. n + m : y[i] = IF i <= n THEN a[i] ELSE b[i - n]
  BY ConcatProperties
<1> HIDE DEF d
<1>3. /\ x \in Seq(C) /\ Len(x) = n + Len(d)
      /\ \A i \in 1 .. n + Len(d) : x[i] = IF i <= n THEN a[i] ELSE d[i - n]
  BY <1>1, ConcatProperties
<1> HIDE DEF x, y
<1>4. z \in Seq(C) /\ Len(z) = Len(y) + 1 /\ z[Len(y) + 1] = c /\ \A i \in 1 .. Len(y) : z[i] = y[i]
  <2>1. y \in Seq(C)
    BY <1>2
  <2> HIDE DEF n, m
  <2> QED BY <2>1, AppendProperties
<1> HIDE DEF z
<1>5. n \in Nat /\ m \in Nat
  OBVIOUS
<1> HIDE DEF n, m
<1>6. Len(x) = n + m + 1 /\ Len(z) = n + m + 1
  BY <1>1, <1>2, <1>3, <1>4, <1>5
<1>7. ASSUME NEW i \in 1 .. n + m + 1 PROVE x[i] = z[i]
  <2>1. x[i] = IF i <= n THEN a[i] ELSE d[i - n]
    BY <1>1, <1>3, <1>5
  <2>2. CASE i <= n
    <3>1. i \in 1 .. n + m
      BY <1>5, <2>2
    <3> QED BY <1>2, <1>4, <2>1, <2>2, <3>1
  <2>3. CASE i > n /\ i <= n + m
    <3>1. i \in 1 .. n + m /\ ~(i <= n) /\ i - n \in 1 .. m
      BY <1>5, <2>3
    <3> QED BY <1>1, <1>2, <1>4, <2>1, <3>1
  <2>4. CASE i = n + m + 1
    <3>1. ~(i <= n) /\ i - n = m + 1
      BY <1>5, <2>4
    <3>2. x[i] = c
      BY <1>1, <2>1, <3>1
    <3>3. z[i] = c
      BY <1>2, <1>4, <2>4
    <3> QED BY <3>2, <3>3
  <2>5. i <= n \/ (i > n /\ i <= n + m) \/ i = n + m + 1
    BY <1>5
  <2> QED BY <2>2, <2>3, <2>4, <2>5
<1>8. x = z
  BY <1>3, <1>4, <1>6, <1>7, SeqEqual
<1>9. a \o << >> = a /\ << >> \o a = a
  BY ConcatEmptySeq
<1> QED BY <1>2, <1>8, <1>9 DEF d, x, y, z

\* A text without a line feed goes into the last part.
LEMMA PlainGrowsLast ==
  ASSUME NEW y \in Text, NEW x \in Plain
  PROVE  Parts(y \o x) = LastGrown(Parts(y), x)
<1> DEFINE C == Chars \ {LF}
           p == Parts(y)
           n == Len(p)
           T == {t \in Text : Parts(y \o t) = LastGrown(p, t)}
<1>1. p \in Seq(Text) /\ n \in Nat /\ n # 0 /\ n \in DOMAIN p /\ p[n] \in Text
  <2>1. p \in Splits
    BY SplitSteps
  <2> QED BY <2>1 DEF Splits
<1>2. << >> \in T
  <2>1. p[n] \o << >> = p[n] /\ y \o << >> = y
    BY <1>1, ConcatEmptySeq DEF Text
  <2>2. LastGrown(p, << >>) = p
    BY <1>1, <2>1 DEF LastGrown
  <2> QED BY <2>1, <2>2 DEF Text
<1>3. ASSUME NEW t \in Text, NEW c \in C, t \in T PROVE Append(t, c) \in T
  <2>1. c \in Chars /\ c # LF /\ Append(t, c) \in Text
    BY DEF Text
  <2>2. y \o Append(t, c) = Append(y \o t, c) /\ y \o t \in Text
    BY <2>1, ConcatOne DEF Text
  <2> DEFINE q == Parts(y \o t)
  <2>3. q = LastGrown(p, t)
    BY <1>3
  <2> HIDE DEF T, p, q
  <2>4. Parts(Append(y \o t, c)) = [q EXCEPT ![Len(q)] = Append(@, c)]
    BY <2>1, <2>2, SplitSteps DEF q
  <2>5. p[n] \o Append(t, c) = Append(p[n] \o t, c) /\ p[n] \o t \in Text
    BY <1>1, <2>1, ConcatOne DEF Text
  <2>6. q = [p EXCEPT ![n] = p[n] \o t]
    BY <2>3 DEF LastGrown
  <2> HIDE DEF n
  <2>7. Len(q) = n /\ q[n] = p[n] \o t
    BY <1>1, <2>5, <2>6 DEF n
  <2>8. [q EXCEPT ![Len(q)] = Append(@, c)] = [q EXCEPT ![n] = Append(p[n] \o t, c)]
    BY Zenon, <2>7
  <2>9. [q EXCEPT ![n] = Append(p[n] \o t, c)] = [p EXCEPT ![n] = Append(p[n] \o t, c)]
    BY <1>1, <2>6
  <2>10. LastGrown(p, Append(t, c)) = [p EXCEPT ![n] = Append(p[n] \o t, c)]
    BY <2>5 DEF LastGrown, n
  <2>11. Parts(y \o Append(t, c)) = LastGrown(p, Append(t, c))
    BY Zenon, <2>2, <2>4, <2>8, <2>9, <2>10
  <2> QED BY <2>1, <2>11 DEF T
<1>4. \A t \in Seq(C) : t \in Text
  BY DEF Text
<1> HIDE DEF T, C, p
<1>5. \A s \in Seq(C), c \in C : s \in T => Append(s, c) \in T
  BY <1>3, <1>4
<1>6. x \in Seq(C)
  BY DEF Plain, C
<1>7. x \in T
  BY <1>2, <1>5, <1>6, SeqSet
<1> QED BY <1>7 DEF T, p

(* What encode_texts has joined so far. *)
JoinedText(ts) == Scan(JoinText, [i |-> 0, out |-> << >>], ts)
Joining == [i : Nat, out : Text]

\* What encode_texts does with one more text.
LEMMA JoinSteps ==
  /\ JoinedText(<< >>) = [i |-> 0, out |-> << >>]
  /\ \A ts \in Seq(Text) : JoinedText(ts) \in Joining
  /\ \A ts \in Seq(Text), t \in Text :
       JoinedText(Append(ts, t)) = [i |-> JoinedText(ts).i + 1,
                                out |-> (IF JoinedText(ts).i > 0 THEN Append(JoinedText(ts).out, LF) ELSE JoinedText(ts).out)
                                        \o EscapeDelim(t)]
<1>1. ASSUME NEW t \in Text, NEW s \in Joining
      PROVE  /\ JoinText[t][s] \in Joining
             /\ JoinText[t][s] = [i |-> s.i + 1, out |-> (IF s.i > 0 THEN Append(s.out, LF) ELSE s.out) \o EscapeDelim(t)]
  <2> DEFINE a == IF s.i > 0 THEN Append(s.out, LF) ELSE s.out
  <2>1. s.i \in Nat /\ s.out \in Text
    BY DEF Joining
  <2>2. a \in Text /\ EscapeDelim(t) \in Text
    BY <2>1, Special, EncodeSteps DEF Text
  <2>3. JoinText[t][s] = [i |-> s.i + 1, out |-> a \o EscapeDelim(t)]
    BY DEF JoinText, Joining
  <2> HIDE DEF a
  <2>4. a \o EscapeDelim(t) \in Text
    BY <2>2, ConcatProperties DEF Text
  <2>5. [i |-> s.i + 1, out |-> a \o EscapeDelim(t)] \in Joining
    BY <2>1, <2>4 DEF Joining
  <2> QED BY <2>3, <2>5 DEF a
<1>2. IsLoop(JoinText, Text, Joining)
  <2>1. \A t \in Text : JoinText[t] \in [Joining -> Joining]
    BY <1>1 DEF JoinText, Joining
  <2> QED BY <2>1 DEF JoinText, IsLoop
<1> DEFINE f == [i |-> 0, out |-> << >>]
<1>3. f \in Joining
  BY DEF Joining, Text
<1> HIDE DEF f
<1>4. /\ Scan(JoinText, f, << >>) = f
      /\ \A ts \in Seq(Text) : Scan(JoinText, f, ts) \in Joining
      /\ \A ts \in Seq(Text), t \in Text : Scan(JoinText, f, Append(ts, t)) = JoinText[t][Scan(JoinText, f, ts)]
  BY <1>2, <1>3, ScanSteps
<1>5. /\ JoinedText(<< >>) = [i |-> 0, out |-> << >>]
      /\ \A ts \in Seq(Text) : JoinedText(ts) \in Joining
      /\ \A ts \in Seq(Text), t \in Text : JoinedText(Append(ts, t)) = JoinText[t][JoinedText(ts)]
  BY <1>4 DEF f, JoinedText
<1>6. ASSUME NEW ts \in Seq(Text), NEW t \in Text
      PROVE  JoinedText(Append(ts, t)) = [i |-> JoinedText(ts).i + 1,
                                      out |-> (IF JoinedText(ts).i > 0 THEN Append(JoinedText(ts).out, LF) ELSE JoinedText(ts).out)
                                              \o EscapeDelim(t)]
  <2> DEFINE j == JoinedText(ts)
  <2>1. j \in Joining /\ JoinedText(Append(ts, t)) = JoinText[t][j]
    BY <1>5
  <2> HIDE DEF j
  <2>2. JoinText[t][j] = [i |-> j.i + 1, out |-> (IF j.i > 0 THEN Append(j.out, LF) ELSE j.out) \o EscapeDelim(t)]
    BY <1>1, <2>1
  <2> QED BY Zenon, <2>1, <2>2 DEF j
<1> QED BY <1>5, <1>6

(* The parts of a join are the escaped texts; of no text, one empty part. *)
IsSplitAt(p, ts) ==
  /\ p \in Seq(Text) /\ Len(p) = (IF Len(ts) = 0 THEN 1 ELSE Len(ts))
  /\ Len(ts) = 0 => p[1] = << >>
  /\ \A i \in 1 .. Len(ts) : p[i] = EscapeDelim(ts[i])

\* The parts with the last one, which was empty, grown into a text.
LEMMA LastIs ==
  ASSUME NEW n \in Nat, NEW q \in Seq(Text), Len(q) = n + 1, q[n + 1] = << >>, NEW e \in Text
  PROVE  /\ LastGrown(q, e) \in Seq(Text) /\ Len(LastGrown(q, e)) = n + 1 /\ LastGrown(q, e)[n + 1] = e
         /\ \A i \in 1 .. n : LastGrown(q, e)[i] = q[i]
<1>1. << >> \o e = e
  BY ConcatEmptySeq DEF Text
<1>2. LastGrown(q, e) = [q EXCEPT ![n + 1] = q[n + 1] \o e]
  BY DEF LastGrown
<1>3. LastGrown(q, e) = [q EXCEPT ![n + 1] = e]
  BY Zenon, <1>1, <1>2
<1>4. n + 1 \in 1 .. Len(q) /\ \A i \in 1 .. n : i \in 1 .. Len(q) /\ i # n + 1
  OBVIOUS
<1>5. [q EXCEPT ![n + 1] = e] \in Seq(Text) /\ Len([q EXCEPT ![n + 1] = e]) = n + 1
  BY <1>4
<1> QED BY <1>3, <1>4, <1>5

\* decode_texts splits what encode_texts joined.
LEMMA SplitUndoesJoin ==
  ASSUME NEW texts \in Seq(Text)
  PROVE  JoinedText(texts).out \in Text /\ IsSplitAt(Parts(JoinedText(texts).out), texts)
<1> DEFINE T == {ts \in Seq(Text) : JoinedText(ts).i = Len(ts) /\ IsSplitAt(Parts(JoinedText(ts).out), ts)}
<1>1. << >> \in T
  <2> DEFINE e == << >>
  <2>1. e \in Seq(Text) /\ Len(e) = 0 /\ e \in Text
    BY DEF Text
  <2>2. JoinedText(e).i = 0 /\ JoinedText(e).out = e
    BY JoinSteps
  <2>3. Parts(e) = <<e>>
    BY SplitSteps
  <2> HIDE DEF e
  <2>4. <<e>> \in Seq(Text) /\ Len(<<e>>) = 1 /\ <<e>>[1] = e
    BY <2>1
  <2>5. IsSplitAt(<<e>>, e)
    BY <2>1, <2>4 DEF IsSplitAt, e
  <2>6. e \in T
    BY <2>1, <2>2, <2>3, <2>5
  <2> QED BY <2>6 DEF e
<1>2. ASSUME NEW ts \in Seq(Text), NEW t \in Text, ts \in T PROVE Append(ts, t) \in T
  <2> DEFINE j == JoinedText(ts)
             n == Len(ts)
             more == Append(ts, t)
             e == EscapeDelim(t)
             a == IF j.i > 0 THEN Append(j.out, LF) ELSE j.out
             q == Parts(a)
             r == Parts(a \o e)
  <2>1. j.i = n /\ IsSplitAt(Parts(j.out), ts)
    BY <1>2
  <2>2. j.out \in Text /\ n \in Nat
    <3>1. j \in Joining
      BY JoinSteps
    <3> QED BY <3>1 DEF Joining
  <2>3. more \in Seq(Text) /\ Len(more) = n + 1 /\ more[n + 1] = t /\ \A i \in 1 .. n : more[i] = ts[i]
    BY AppendProperties
  <2>4. e \in Plain /\ e \in Text
    BY EscapedIsPlain, EncodeSteps
  <2>5. JoinedText(more) = [i |-> j.i + 1, out |-> a \o e]
    BY JoinSteps
  <2>6. JoinedText(more).i = n + 1 /\ JoinedText(more).out = a \o e
    BY <2>1, <2>5
  <2> HIDE DEF T, j, n, more, e
  <2>7. a \in Text
    BY <2>2, Special DEF Text
  <2>8. q \in Seq(Text) /\ Len(q) = n + 1 /\ q[n + 1] = << >> /\ \A i \in 1 .. n : q[i] = EscapeDelim(ts[i])
    <3> DEFINE p == Parts(j.out)
    <3>1. /\ p \in Seq(Text) /\ Len(p) = (IF n = 0 THEN 1 ELSE n)
          /\ n = 0 => p[1] = << >>
          /\ \A i \in 1 .. n : p[i] = EscapeDelim(ts[i])
      BY <2>1 DEF IsSplitAt, n
    <3>2. CASE n = 0
      <4>1. a = j.out
        BY <2>1, <3>2
      <4> HIDE DEF a
      <4>2. q = p
        BY <4>1
      <4> HIDE DEF p, q
      <4> QED BY <3>1, <3>2, <4>2
    <3>3. CASE n # 0
      <4>1. a = Append(j.out, LF)
        BY <2>1, <2>2, <3>3
      <4>2. q = Append(p, << >>)
        BY <2>2, <4>1, Special, SplitSteps
      <4> DEFINE z == << >>
      <4>3. z \in Text
        BY DEF Text
      <4> HIDE DEF p, q, z
      <4>4. /\ Append(p, z) \in Seq(Text) /\ Len(Append(p, z)) = Len(p) + 1
            /\ Append(p, z)[Len(p) + 1] = z /\ \A i \in 1 .. Len(p) : Append(p, z)[i] = p[i]
        <5>1. p \in Seq(Text)
          BY <3>1
        <5> QED BY <4>3, <5>1, AppendProperties
      <4>5. Len(p) = n /\ q = Append(p, z)
        BY <3>1, <3>3, <4>2 DEF z
      <4> QED BY <3>1, <4>4, <4>5 DEF z
    <3> QED BY <3>2, <3>3
  <2>9. r = LastGrown(q, e)
    BY <2>4, <2>7, PlainGrowsLast
  <2> HIDE DEF a, q, r
  <2>10. /\ r \in Seq(Text) /\ Len(r) = n + 1 /\ r[n + 1] = e
         /\ \A i \in 1 .. n : r[i] = q[i]
    BY <2>2, <2>4, <2>8, <2>9, LastIs
  <2>11. ASSUME NEW i \in 1 .. n + 1 PROVE r[i] = EscapeDelim(more[i])
    <3>1. i \in 1 .. n \/ i = n + 1
      BY <2>2
    <3>2. CASE i \in 1 .. n
      <4>1. r[i] = EscapeDelim(ts[i]) /\ more[i] = ts[i]
        BY <2>3, <2>8, <2>10, <3>2
      <4> QED BY Zenon, <4>1
    <3>3. CASE i = n + 1
      <4>1. r[i] = e /\ more[i] = t
        BY <2>3, <2>10, <3>3
      <4> QED BY Zenon, <4>1 DEF e
    <3> QED BY <3>1, <3>2, <3>3
  <2>12. IsSplitAt(r, more)
    BY <2>2, <2>3, <2>10, <2>11 DEF IsSplitAt
  <2>13. JoinedText(more).i = Len(more) /\ IsSplitAt(Parts(JoinedText(more).out), more)
    BY <2>3, <2>6, <2>12 DEF r
  <2> QED BY <2>3, <2>13 DEF T, more
<1> HIDE DEF T
<1>3. texts \in T
  BY <1>1, <1>2, SeqSet
<1>4. JoinedText(texts).out \in Text
  <2>1. JoinedText(texts) \in Joining
    BY JoinSteps
  <2> QED BY <2>1 DEF Joining
<1> QED BY <1>3, <1>4 DEF T

\* A beginning of a sequence.
LEMMA CutIs ==
  ASSUME NEW C, NEW s \in Seq(C), NEW n \in Nat
  PROVE  /\ Cut(s, n) \in Seq(C) /\ Len(Cut(s, n)) = (IF Len(s) < n THEN Len(s) ELSE n)
         /\ \A i \in 1 .. Len(Cut(s, n)) : Cut(s, n)[i] = s[i]
<1> DEFINE m == IF Len(s) < n THEN Len(s) ELSE n
<1>1. m \in Nat /\ m <= Len(s) /\ Len(s) \in Nat
  OBVIOUS
<1>2. \A i \in 1 .. m : s[i] \in C
  BY <1>1
<1>3. Cut(s, n) = SubSeq(s, 1, m)
  BY DEF Cut
<1> HIDE DEF m
<1>4. SubSeq(s, 1, m) \in Seq(C) /\ Len(SubSeq(s, 1, m)) = m /\ \A i \in 1 .. m : SubSeq(s, 1, m)[i] = s[i]
  BY <1>1, <1>2
<1>5. Len(Cut(s, n)) = m
  BY Zenon, <1>3, <1>4
<1>6. \A i \in 1 .. m : Cut(s, n)[i] = s[i]
  BY Zenon, <1>3, <1>4
<1>7. Cut(s, n) \in Seq(C)
  BY Zenon, <1>3, <1>4
<1> QED BY Zenon, <1>5, <1>6, <1>7 DEF m

\* A batch arrives as it was sent, at most MAX_BATCH texts of it and each cut to
\* MAX_TEXT_BYTES; a batch of one empty text arrives as no text.
LEMMA BatchArrives ==
  ASSUME NEW texts \in Seq(Text)
  PROVE  OverTheWire(texts) =
           IF Cut(texts, MaxBatch) = << << >> >> THEN << >>
           ELSE [k \in DOMAIN Cut(texts, MaxBatch) |-> Cut(Cut(texts, MaxBatch)[k], MaxText)]
<1> DEFINE sent == Cut(texts, MaxBatch)
           out == JoinedText(sent).out
           p == Parts(out)
           q == Cut(p, MaxBatch)
           got == [i \in 1 .. Len(q) |-> Cut(UnescapeDelim(p[i]), MaxText)]
           kept == [k \in DOMAIN sent |-> Cut(sent[k], MaxText)]
           n == Len(sent)
<1>1. MaxBatch \in Nat
  BY WireAssumption
<1>2. sent \in Seq(Text) /\ Len(sent) <= MaxBatch /\ n \in Nat
  <2>1. sent \in Seq(Text) /\ Len(sent) = (IF Len(texts) < MaxBatch THEN Len(texts) ELSE MaxBatch)
    BY <1>1, CutIs
  <2> QED BY <1>1, <2>1
<1> HIDE DEF sent
<1>3. out \in Text /\ IsSplitAt(p, sent)
  BY <1>2, SplitUndoesJoin
<1>4. EncodeTexts(texts) = out
  BY DEF EncodeTexts, JoinedText, sent
<1> HIDE DEF out
<1>5. OverTheWire(texts) = DecodeTexts(out)
  <2>1. ParseString(Append(EncodeStr(out), Quote)).out = out
    BY <1>3, ParseUndoesEncode
  <2> QED BY <1>4, <2>1 DEF OverTheWire
<1>6. DecodeTexts(out) = IF out = << >> THEN << >> ELSE got
  BY DEF DecodeTexts, Parts
<1> HIDE DEF p
<1>7. /\ p \in Seq(Text) /\ Len(p) = (IF n = 0 THEN 1 ELSE n)
      /\ \A i \in 1 .. n : p[i] = EscapeDelim(sent[i])
  BY <1>3 DEF IsSplitAt
<1>8. Len(q) = IF Len(p) < MaxBatch THEN Len(p) ELSE MaxBatch
  BY <1>1, <1>7, CutIs
<1> HIDE DEF q
<1>9. n # 0 => Len(q) = n
  BY <1>1, <1>2, <1>7, <1>8
<1>10. n # 0 => got = kept
  <2> SUFFICES ASSUME n # 0 PROVE got = kept
    OBVIOUS
  <2>1. \A i \in 1 .. n : p[i] = EscapeDelim(sent[i]) /\ sent[i] \in Text
    BY <1>2, <1>7
  <2>2. \A i \in 1 .. n : UnescapeDelim(p[i]) = sent[i]
    BY <2>1, UnescapeUndoesEscape
  <2>3. DOMAIN sent = 1 .. n /\ Len(q) = n
    BY <1>2, <1>9
  <2> QED BY Zenon, <2>2, <2>3
<1>11. n = 0 => out = << >>
  <2> SUFFICES ASSUME n = 0 PROVE out = << >>
    OBVIOUS
  <2>1. sent = << >>
    BY <1>2
  <2>2. JoinedText(<< >>).out = << >>
    BY JoinSteps
  <2> QED BY <2>1, <2>2 DEF out
<1>12. out = << >> /\ n # 0 => sent = << << >> >>
  <2> SUFFICES ASSUME out = << >>, n # 0 PROVE sent = << << >> >>
    OBVIOUS
  <2>1. p = << << >> >>
    BY SplitSteps DEF p
  <2>2. Len(p) = 1 /\ p[1] = << >>
    BY <2>1
  <2>3. n = 1
    BY <1>7, <2>2
  <2>4. sent[1] \in Text /\ p[1] = EscapeDelim(sent[1])
    BY <1>2, <1>7, <2>3
  <2>5. UnescapeDelim(p[1]) = sent[1]
    BY <2>4, UnescapeUndoesEscape
  <2> DEFINE e == << >>
  <2>6. e \in Text /\ EscapeDelim(e) = e
    BY EncodeSteps DEF Text
  <2>7. p[1] = e
    BY <2>2
  <2> HIDE DEF e
  <2>8. UnescapeDelim(e) = e
    BY <2>6, UnescapeUndoesEscape
  <2>9. sent[1] = e
    BY Zenon, <2>5, <2>7, <2>8
  <2>10. sent = <<e>>
    BY <1>2, <2>3, <2>9
  <2> QED BY <2>10 DEF e
<1>13. sent = << << >> >> => n = 1 /\ out = << >>
  <2> SUFFICES ASSUME sent = << << >> >> PROVE n = 1 /\ out = << >>
    OBVIOUS
  <2> DEFINE e == << >>
  <2>1. sent = Append(e, e) /\ e \in Seq(Text) /\ e \in Text /\ n = 1
    BY DEF Text
  <2>2. JoinedText(e).i = 0 /\ JoinedText(e).out = e /\ EscapeDelim(e) = e
    BY JoinSteps, EncodeSteps
  <2> HIDE DEF e
  <2>3. JoinedText(Append(e, e)) = [i |-> JoinedText(e).i + 1,
             out |-> (IF JoinedText(e).i > 0 THEN Append(JoinedText(e).out, LF) ELSE JoinedText(e).out) \o EscapeDelim(e)]
    BY <2>1, JoinSteps
  <2>4. JoinedText(Append(e, e)).out = e \o e
    BY <2>2, <2>3
  <2>5. e \o e = e
    BY DEF e
  <2> QED BY <2>1, <2>4, <2>5 DEF out, e
<1>14. CASE n = 0
  <2>1. DOMAIN sent = {}
    BY <1>2, <1>14
  <2>2. kept = << >>
    BY <2>1
  <2> QED BY <1>5, <1>6, <1>11, <1>13, <1>14, <2>2 DEF sent
<1> HIDE DEF got, kept
<1>15. CASE n # 0 /\ out = << >>
  BY <1>5, <1>6, <1>12, <1>15 DEF sent, kept
<1>16. CASE n # 0 /\ out # << >>
  BY <1>5, <1>6, <1>10, <1>13, <1>16 DEF sent, kept
<1> QED BY <1>14, <1>15, <1>16

(***************************************************************************)
(* Routing: what is chosen, sorted and kept comes from the registry.       *)
(***************************************************************************)
(* The cards of the providers. *)
Cards == [model : STRING, context : Nat, tools : BOOLEAN, cost : Nat, embeddings : BOOLEAN,
          rerank : BOOLEAN, provider : STRING, kind : {"openai", "anthropic"}, local : BOOLEAN]

(* What is chosen of a sequence belongs to D. *)
KeepsTo(seq, at, D) == \A i \in 1 .. Len(seq) : i \in at => seq[i] \in D

\* A choice from a sequence.
LEMMA ChosenIs ==
  ASSUME NEW C, NEW seq \in Seq(C), NEW at, NEW D, KeepsTo(seq, at, D)
  PROVE  Chosen(seq, at) \in Seq(D)
<1> DEFINE N == Len(seq)
           S == Seq(D)
           g == [n \in 1 .. N |-> [s \in S |-> IF n \in at THEN Append(s, seq[n]) ELSE s]]
           Eq(h) == h = [n \in 0 .. N |-> IF n = 0 THEN << >>
                                          ELSE IF n \in at THEN Append(h[n - 1], seq[n]) ELSE h[n - 1]]
           f == CHOOSE h : Eq(h)
<1>1. N \in Nat
  OBVIOUS
<1>2. Chosen(seq, at) = f[N]
  BY DEF Chosen
<1> HIDE DEF N
<1>3. \A n \in 1 .. N, s \in S : (IF n \in at THEN Append(s, seq[n]) ELSE s) \in S
  BY <1>1 DEF KeepsTo, N
<1>4. << >> \in S
  OBVIOUS
<1> HIDE DEF S
<1>5. IsStep(g, N, S)
  BY <1>3 DEF IsStep
<1> HIDE DEF g
<1> DEFINE e == << >>
<1>6. PICK h : Iterates(h, N, S, e, g)
  <2> HIDE DEF f, Eq, e
  <2>1. e \in S
    BY <1>4 DEF e
  <2> QED BY <1>1, <1>5, <2>1, Recursion
<1>7. \A n \in 1 .. N : n - 1 \in 0 .. N /\ n # 0 /\ n \in 0 .. N
  BY <1>1
<1>8. \A n \in 0 .. N : n # 0 => n \in 1 .. N
  BY <1>1
<1>9. Eq(h)
  <2>1. h \in [0 .. N -> S] /\ h[0] = << >>
    BY <1>6 DEF Iterates
  <2>2. ASSUME NEW n \in 1 .. N PROVE h[n] = IF n \in at THEN Append(h[n - 1], seq[n]) ELSE h[n - 1]
    <3>1. h[n] = g[n][h[n - 1]] /\ h[n - 1] \in S
      BY <1>6, <1>7 DEF Iterates
    <3> QED BY <3>1 DEF g
  <2> QED BY <1>8, <2>1, <2>2
<1>10. Eq(f)
  <2> HIDE DEF Eq
  <2> QED BY <1>9
<1> HIDE DEF f
<1> DEFINE T == {n \in 0 .. N : f[n] \in S}
<1>11. 0 \in T
  BY <1>1, <1>4, <1>10
<1>12. ASSUME NEW n \in 1 .. N, n - 1 \in T PROVE n \in T
  <2>1. f[n] = IF n \in at THEN Append(f[n - 1], seq[n]) ELSE f[n - 1]
    BY <1>7, <1>10
  <2>2. f[n - 1] \in S
    BY <1>12
  <2> QED BY <1>3, <1>7, <2>1, <2>2
<1> HIDE DEF T
<1>13. \A n \in 0 .. N : n \in T
  BY <1>1, <1>11, <1>12, UpTo
<1>14. N \in T
  BY <1>1, <1>13
<1> QED BY <1>2, <1>14 DEF T, S

\* Putting an index into its place.
LEMMA PlacedIs ==
  ASSUME NEW D, NEW order \in Seq(D), NEW k \in D, NEW before
  PROVE  Placed(order, k, before) \in Seq(D)
<1> DEFINE X == {i \in DOMAIN order : <<k, order[i]>> \notin before}
           n == Cardinality(X)
           m == Len(order)
           a == SubSeq(order, 1, n)
           b == SubSeq(order, n + 1, m)
<1>1. m \in Nat /\ DOMAIN order = 1 .. m /\ X \subseteq 1 .. m
  OBVIOUS
<1>2. IsFiniteSet(1 .. m) /\ Cardinality(1 .. m) = m
  <2>1. m - 1 + 1 = m /\ 1 \in Int /\ m \in Int
    BY <1>1
  <2>2. IsFiniteSet(1 .. m) /\ Cardinality(1 .. m) = IF 1 > m THEN 0 ELSE m - 1 + 1
    BY <2>1, FS_Interval
  <2> QED BY <1>1, <2>2
<1> HIDE DEF X
<1>3. n \in Nat /\ n <= m
  <2>1. IsFiniteSet(X) /\ Cardinality(X) <= Cardinality(1 .. m)
    BY <1>1, <1>2, FS_Subset
  <2> QED BY <1>2, <2>1, FS_CardinalityType
<1>4. Placed(order, k, before) = a \o <<k>> \o b
  BY DEF Placed, X
<1> HIDE DEF n
<1>5. \A i \in 1 .. m : order[i] \in D
  OBVIOUS
<1>6. a \in Seq(D) /\ b \in Seq(D)
  BY <1>1, <1>3, <1>5
<1> HIDE DEF a, b
<1>7. a \o <<k>> \o b \in Seq(D)
  BY <1>6
<1> QED BY <1>4, <1>7

\* Sorting keeps to the elements there are.
LEMMA SortedIs ==
  ASSUME NEW C, NEW seq \in Seq(C), NEW before
  PROVE  SortedBy(seq, before) \in Seq(C)
<1> DEFINE N == Len(seq)
           S == Seq(1 .. N)
           g == [n \in 1 .. N |-> [s \in S |-> Placed(s, n, before)]]
           Eq(h) == h = [n \in 0 .. N |-> IF n = 0 THEN << >> ELSE Placed(h[n - 1], n, before)]
           f == CHOOSE h : Eq(h)
<1>1. N \in Nat
  OBVIOUS
<1>2. SortedBy(seq, before) = [i \in DOMAIN f[N] |-> seq[f[N][i]]]
  BY DEF SortedBy
<1> HIDE DEF N
<1>3. \A n \in 1 .. N, s \in S : Placed(s, n, before) \in S
  BY PlacedIs
<1>4. << >> \in S
  OBVIOUS
<1> HIDE DEF S
<1>5. IsStep(g, N, S)
  BY <1>3 DEF IsStep
<1> HIDE DEF g
<1> DEFINE e == << >>
<1>6. PICK h : Iterates(h, N, S, e, g)
  <2> HIDE DEF f, Eq, e
  <2>1. e \in S
    BY <1>4 DEF e
  <2> QED BY <1>1, <1>5, <2>1, Recursion
<1>7. \A n \in 1 .. N : n - 1 \in 0 .. N /\ n # 0 /\ n \in 0 .. N
  BY <1>1
<1>8. \A n \in 0 .. N : n # 0 => n \in 1 .. N
  BY <1>1
<1>9. Eq(h)
  <2>1. h \in [0 .. N -> S] /\ h[0] = << >>
    BY <1>6 DEF Iterates
  <2>2. ASSUME NEW n \in 1 .. N PROVE h[n] = Placed(h[n - 1], n, before)
    <3>1. h[n] = g[n][h[n - 1]] /\ h[n - 1] \in S
      BY <1>6, <1>7 DEF Iterates
    <3> QED BY <3>1 DEF g
  <2> QED BY <1>8, <2>1, <2>2
<1>10. Eq(f)
  <2> HIDE DEF Eq
  <2> QED BY <1>9
<1> HIDE DEF f
<1> DEFINE T == {n \in 0 .. N : f[n] \in S}
<1>11. 0 \in T
  BY <1>1, <1>4, <1>10
<1>12. ASSUME NEW n \in 1 .. N, n - 1 \in T PROVE n \in T
  <2>1. f[n] = Placed(f[n - 1], n, before)
    BY <1>7, <1>10
  <2>2. f[n - 1] \in S
    BY <1>12
  <2> QED BY <1>3, <1>7, <2>1, <2>2
<1> HIDE DEF T
<1>13. \A n \in 0 .. N : n \in T
  BY <1>1, <1>11, <1>12, UpTo
<1>14. N \in T
  BY <1>1, <1>13
<1> DEFINE r == f[N]
<1>15. r \in Seq(1 .. N)
  BY <1>14 DEF T, S
<1>16. SortedBy(seq, before) = [i \in DOMAIN r |-> seq[r[i]]]
  BY <1>2
<1> HIDE DEF r
<1>17. DOMAIN r = 1 .. Len(r) /\ Len(r) \in Nat /\ \A i \in 1 .. Len(r) : r[i] \in 1 .. N
  <2> DEFINE D == 1 .. N
  <2>1. r \in Seq(D)
    BY <1>15
  <2> HIDE DEF D
  <2>2. DOMAIN r = 1 .. Len(r) /\ Len(r) \in Nat /\ \A i \in 1 .. Len(r) : r[i] \in D
    BY <2>1
  <2> QED BY <2>2 DEF D
<1>18. \A i \in 1 .. Len(r) : seq[r[i]] \in C
  BY <1>17 DEF N
<1>19. [i \in 1 .. Len(r) |-> seq[r[i]]] \in Seq(C)
  BY <1>17, <1>18
<1> QED BY <1>16, <1>17, <1>19

\* What every element of a sequence is, the chosen ones are.
LEMMA ChosenStays ==
  ASSUME NEW C, NEW seq \in Seq(C), NEW at
  PROVE  Chosen(seq, at) \in Seq(C)
<1>1. KeepsTo(seq, at, C)
  BY DEF KeepsTo
<1> QED BY <1>1, ChosenIs

\* The providers' cards are cards.
LEMMA ConfiguredIs ==
  ASSUME NEW i \in DOMAIN Configs
  PROVE  Configured(Configs[i]) \in Seq(Cards)
<1> DEFINE cfg == Configs[i]
           ms == cfg.models
           M == [model : STRING, context : Nat, tools : BOOLEAN, cost : Nat, embeddings : BOOLEAN, rerank : BOOLEAN]
<1>1. cfg \in [id : STRING, kind : {"openai", "anthropic"}, secret : BOOLEAN, models : Seq(M) \ {<< >>}]
  <2> DEFINE K == [id : STRING, kind : {"openai", "anthropic"}, secret : BOOLEAN, models : Seq(M) \ {<< >>}]
  <2>1. Configs \in Seq(K)
    BY NetAssumption
  <2> HIDE DEF K
  <2>2. cfg \in K
    BY <2>1
  <2> QED BY <2>2 DEF K
<1> HIDE DEF cfg
<1>2. /\ cfg.id \in STRING /\ cfg.kind \in {"openai", "anthropic"} /\ ms \in Seq(M)
      /\ (cfg.kind = "openai" /\ ~cfg.secret) \in BOOLEAN
  BY <1>1
<1>3. DOMAIN ms = 1 .. Len(ms) /\ Len(ms) \in Nat /\ \A j \in 1 .. Len(ms) : ms[j] \in M
  <2> HIDE DEF M, ms
  <2> QED BY <1>2
<1> DEFINE C(j) == [model |-> ms[j].model, context |-> ms[j].context, tools |-> ms[j].tools, cost |-> ms[j].cost,
                    embeddings |-> ms[j].embeddings, rerank |-> ms[j].rerank, provider |-> cfg.id, kind |-> cfg.kind,
                    local |-> cfg.kind = "openai" /\ ~cfg.secret]
<1>4. \A j \in 1 .. Len(ms) : C(j) \in Cards
  BY <1>2, <1>3 DEF Cards
<1>5. Configured(cfg) = [j \in 1 .. Len(ms) |-> C(j)]
  BY <1>3 DEF Configured
<1> HIDE DEF C, M
<1>6. [j \in 1 .. Len(ms) |-> C(j)] \in Seq(Cards)
  BY <1>3, <1>4
<1> QED BY <1>5, <1>6 DEF cfg

\* The registry of a modality has cards.
LEMMA RegistryIs ==
  ASSUME NEW modality
  PROVE  Registry(Configs, modality) \in Seq(Cards)
<1> DEFINE N == Len(Configs)
           S == Seq(Cards)
           o == [n \in 1 .. N |-> Offered(Configs[n], modality)]
           g == [n \in 1 .. N |-> [s \in S |-> s \o o[n]]]
           Eq(h) == h = [n \in 0 .. N |-> IF n = 0 THEN << >> ELSE h[n - 1] \o Offered(Configs[n], modality)]
           f == CHOOSE h : Eq(h)
<1>0. N \in Nat /\ DOMAIN Configs = 1 .. N
  BY NetAssumption
<1>1. Registry(Configs, modality) = f[N]
  BY DEF Registry
<1> HIDE DEF N
<1>2. ASSUME NEW n \in 1 .. N PROVE Offered(Configs[n], modality) \in S
  BY <1>0, ConfiguredIs, ChosenStays DEF Offered
<1>3. \A n \in 1 .. N, s \in S : s \o o[n] \in S
  <2>1. \A n \in 1 .. N : o[n] \in S
    BY <1>2
  <2> HIDE DEF o
  <2> QED BY <2>1
<1>4. << >> \in S
  OBVIOUS
<1> HIDE DEF S
<1>5. IsStep(g, N, S)
  <2> HIDE DEF o
  <2> QED BY <1>3 DEF IsStep
<1> HIDE DEF g
<1> DEFINE e == << >>
<1>6. PICK h : Iterates(h, N, S, e, g)
  <2> HIDE DEF f, Eq, e
  <2>1. e \in S
    BY <1>4 DEF e
  <2> QED BY <1>0, <1>5, <2>1, Recursion
<1>7. \A n \in 1 .. N : n - 1 \in 0 .. N /\ n # 0 /\ n \in 0 .. N
  BY <1>0
<1>8. \A n \in 0 .. N : n # 0 => n \in 1 .. N
  BY <1>0
<1>9. Eq(h)
  <2>1. h \in [0 .. N -> S] /\ h[0] = << >>
    BY <1>6 DEF Iterates
  <2>2. ASSUME NEW n \in 1 .. N PROVE h[n] = h[n - 1] \o Offered(Configs[n], modality)
    <3>1. h[n] = g[n][h[n - 1]] /\ h[n - 1] \in S
      BY <1>6, <1>7 DEF Iterates
    <3>2. g[n][h[n - 1]] = h[n - 1] \o o[n]
      BY <3>1 DEF g
    <3> QED BY <3>1, <3>2
  <2> QED BY <1>8, <2>1, <2>2
<1>10. Eq(f)
  <2> HIDE DEF Eq
  <2> QED BY <1>9
<1> HIDE DEF f
<1> DEFINE T == {n \in 0 .. N : f[n] \in S}
<1>11. 0 \in T
  BY <1>0, <1>4, <1>10
<1>12. ASSUME NEW n \in 1 .. N, n - 1 \in T PROVE n \in T
  <2>1. f[n] = f[n - 1] \o Offered(Configs[n], modality)
    BY <1>7, <1>10
  <2>2. f[n - 1] \in S
    BY <1>12
  <2>3. f[n - 1] \o o[n] \in S
    <3> HIDE DEF o
    <3> QED BY <1>3, <2>2
  <2> QED BY <1>7, <2>1, <2>3
<1> HIDE DEF T
<1>13. \A n \in 0 .. N : n \in T
  BY <1>0, <1>11, <1>12, UpTo
<1>14. N \in T
  BY <1>0, <1>13
<1> QED BY <1>1, <1>14 DEF T, S

(* The cards a request may be tried on. *)
Meets(c, req) ==
  Affordable(c, req) /\ (req.localOnly /\ req.modality = "complete" => c.local)

\* Every candidate is a card that meets the request's ceiling and is local if
\* the request asks for it.
LEMMA PlanIs ==
  ASSUME NEW req, NEW healthy
  PROVE  Plan(Configs, req, healthy) \in Seq({c \in Cards : Meets(c, req)})
<1> DEFINE D == {c \in Cards : Meets(c, req)}
           L == {c \in Cards : req.localOnly => c.local}
<1>1. ASSUME NEW C, NEW seq \in Seq(C) PROVE Preferred(req.role, seq) \in Seq(C)
  BY SortedIs DEF Preferred
<1>2. SelectCandidates(Registry(Configs, "complete"), req, healthy) \in Seq(L)
  <2> DEFINE r == Registry(Configs, "complete")
             at == {i \in DOMAIN r : LET c == r[i]
                                     IN  /\ c.model \in healthy
                                         /\ req.tools => c.tools
                                         /\ c.context >= req.minContext
                                         /\ req.localOnly => c.local}
  <2>1. r \in Seq(Cards)
    BY RegistryIs
  <2>2. SelectCandidates(r, req, healthy) = Preferred(req.role, Chosen(r, at))
    BY DEF SelectCandidates
  <2> HIDE DEF r
  <2>3. KeepsTo(r, at, L)
    BY <2>1 DEF KeepsTo
  <2> HIDE DEF at, L
  <2>4. Chosen(r, at) \in Seq(L)
    BY <2>1, <2>3, ChosenIs
  <2>5. Preferred(req.role, Chosen(r, at)) \in Seq(L)
    BY <1>1, <2>4
  <2> QED BY <2>2, <2>5 DEF r
<1>3. ASSUME NEW modality PROVE SelectCandidatesFor(modality, Registry(Configs, modality), req, healthy) \in Seq(Cards)
  <2> DEFINE r == Registry(Configs, modality)
             at == {i \in DOMAIN r : LET c == r[i]
                                     IN  /\ c.model \in healthy
                                         /\ modality = "embed" => c.embeddings
                                         /\ modality = "rerank" => c.rerank}
  <2>1. r \in Seq(Cards)
    BY RegistryIs
  <2>2. SelectCandidatesFor(modality, r, req, healthy) = Preferred(req.role, Chosen(r, at))
    BY DEF SelectCandidatesFor
  <2> HIDE DEF r, at
  <2>3. Chosen(r, at) \in Seq(Cards)
    BY <2>1, ChosenStays
  <2>4. Preferred(req.role, Chosen(r, at)) \in Seq(Cards)
    BY <1>1, <2>3
  <2> QED BY <2>2, <2>4 DEF r
<1>4. ASSUME NEW C, NEW E, NEW seq \in Seq(C), \A c \in C : Affordable(c, req) => c \in E
      PROVE  ApplyBudget(seq, req) \in Seq(E)
  <2> DEFINE at == {i \in DOMAIN seq : Affordable(seq[i], req)}
  <2>1. KeepsTo(seq, at, E)
    <3>1. \A i \in 1 .. Len(seq) : i \in at => seq[i] \in C /\ Affordable(seq[i], req)
      OBVIOUS
    <3> HIDE DEF at
    <3> QED BY <1>4, <3>1 DEF KeepsTo
  <2>2. ApplyBudget(seq, req) = Chosen(seq, at)
    BY DEF ApplyBudget
  <2> HIDE DEF at
  <2> QED BY <2>1, <2>2, ChosenIs
<1>5. CASE req.modality \in {"embed", "rerank"}
  <2>1. \A c \in Cards : Affordable(c, req) => c \in D
    BY <1>5 DEF Meets
  <2> HIDE DEF D
  <2>2. PlanEmbed(Configs, req, healthy) \in Seq(D) /\ PlanRerank(Configs, req, healthy) \in Seq(D)
    BY <1>3, <1>4, <2>1 DEF PlanEmbed, PlanRerank
  <2>3. Plan(Configs, req, healthy) \in Seq(D)
    BY <1>5, <2>2 DEF Plan
  <2> QED BY <2>3 DEF D
<1>6. CASE req.modality \notin {"embed", "rerank"}
  <2> DEFINE kept == ApplyBudget(SelectCandidates(Registry(Configs, "complete"), req, healthy), req)
  <2>1. \A c \in L : Affordable(c, req) => c \in D
    BY DEF Meets
  <2> HIDE DEF D, L
  <2>2. kept \in Seq(D)
    BY <1>2, <1>4, <2>1
  <2>3. PlanComplete(Configs, req, healthy) = IF req.lastResort THEN EnsureLocalFallback(kept) ELSE kept
    BY DEF PlanComplete
  <2> HIDE DEF kept
  <2>4. EnsureLocalFallback(kept) \in Seq(D)
    <3> DEFINE x == Chosen(kept, {i \in DOMAIN kept : ~kept[i].local})
               y == Chosen(kept, {i \in DOMAIN kept : kept[i].local})
    <3>1. x \in Seq(D) /\ y \in Seq(D)
      BY <2>2, ChosenStays
    <3>2. EnsureLocalFallback(kept) = x \o y
      BY DEF EnsureLocalFallback
    <3> HIDE DEF x, y
    <3> QED BY <3>1, <3>2
  <2>5. Plan(Configs, req, healthy) \in Seq(D)
    BY <1>6, <2>2, <2>3, <2>4 DEF Plan
  <2> QED BY <2>5 DEF D
<1> QED BY <1>5, <1>6

\* The candidate a request is answered by is one of them.
LEMMA HitIs ==
  ASSUME NEW C, NEW seq \in Seq(C), NEW outcomes, NEW m
  PROVE  LET hit == FirstThatSucceeds(seq, outcomes, m) IN hit = 0 \/ hit \in 1 .. Len(seq)
<1> DEFINE hits == {i \in DOMAIN seq : Succeeds(outcomes[seq[i].model], m)}
<1>1. hits \subseteq 1 .. Len(seq) /\ hits \subseteq Nat
  OBVIOUS
<1>2. FirstThatSucceeds(seq, outcomes, m) = IF hits = {} THEN 0 ELSE CHOOSE i \in hits : \A j \in hits : i <= j
  BY DEF FirstThatSucceeds
<1> HIDE DEF hits
<1>3. hits # {} => (CHOOSE i \in hits : \A j \in hits : i <= j) \in hits
  <2> SUFFICES ASSUME hits # {} PROVE (CHOOSE i \in hits : \A j \in hits : i <= j) \in hits
    OBVIOUS
  <2>1. \E i \in hits : \A j \in hits : i <= j
    BY <1>1, LeastNumber
  <2> QED BY <2>1
<1> QED BY <1>1, <1>2, <1>3

(***************************************************************************)
(* The pipe.  Ids are never reused, and as long as no call has given up on *)
(* the pipe it holds nothing but the call in flight.                       *)
(***************************************************************************)
Amounts == {<< >>} \cup {<<n>> : n \in Nat}

PipeLines == [id : Nat, size : Nat,
          kind : {"error", "chunk", "final", "model", "registry_end", "embedding", "ranking", "junk"}]

\* The ids in use: the calls that returned and the one in flight.
Used == IF call = NoCall THEN Len(netResults) ELSE Len(netResults) + 1

NetShapes ==
  /\ netResults \in Seq([id : Nat, ok : BOOLEAN, of : Nat, broken : BOOLEAN])
  /\ since \in 0 .. Len(netResults)
  /\ call = NoCall \/ (call \in [id : Nat, req : NetRequests, streamed : Nat] /\ call.id = Len(netResults) + 1)
  /\ toHelper \in Seq([id : Nat, req : NetRequests, texts : Batches, long : BOOLEAN])
  /\ toWrite \in Seq(PipeLines) /\ toClient \in Seq(PipeLines)
  /\ Used <= MaxCalls


\* A history of the requests the helper took, each once.
HistoryIs ==
  /\ served = [i \in DOMAIN served |-> served[i]]
  /\ DOMAIN served \subseteq 1 .. Used
  /\ \A i \in DOMAIN served :
       /\ served[i] = Entry(served[i].ok, served[i].used, served[i].texts, served[i].charged)
       /\ served[i].ok \in BOOLEAN /\ served[i].charged \in Amounts

IdsAreFresh ==
  /\ \A k \in DOMAIN toHelper : toHelper[k].id \in 1 .. Used /\ toHelper[k].id \notin DOMAIN served
  /\ \A j, k \in DOMAIN toHelper : toHelper[j].id = toHelper[k].id => j = k
  /\ \A k \in DOMAIN toHelper : call # NoCall /\ toHelper[k].id = call.id => toHelper[k].req = call.req

\* No call has given up on the pipe of this helper.
Unbroken == \A j \in DOMAIN netResults : j > since => ~netResults[j].broken

\* A line of the answer to the call in flight, and one that ends it.
Mine(line) ==
  /\ line.id = call.id /\ call.id \in DOMAIN served
  /\ line.kind = LastKind(call.req.modality) => served[call.id].ok = TRUE
  /\ line.kind = "error" => served[call.id].ok = FALSE
Final(line) == line.kind = LastKind(call.req.modality) \/ line.kind = "error"

PipeIsMine ==
  Unbroken =>
    IF call = NoCall THEN toHelper = << >> /\ toWrite = << >> /\ toClient = << >>
    ELSE /\ toHelper # << >> => /\ Len(toHelper) = 1 /\ toHelper[1].id = call.id
                                /\ toWrite = << >> /\ toClient = << >>
         /\ \A k \in DOMAIN toClient :
              Mine(toClient[k]) /\ (Final(toClient[k]) => k = Len(toClient) /\ toWrite = << >>)
         /\ \A k \in DOMAIN toWrite :
              Mine(toWrite[k]) /\ (Final(toWrite[k]) => k = Len(toWrite))

\* What was answered before the first call that gave up was answered in step.
AnsweredInStep ==
  \A i \in DOMAIN netResults :
    /\ netResults[i].id = i
    /\ i > since /\ (\A j \in 1 .. i : j > since => ~netResults[j].broken) =>
         netResults[i].of = i /\ i \in DOMAIN served /\ netResults[i].ok = served[i].ok

PipeInv == NetShapes /\ HistoryIs /\ IdsAreFresh /\ PipeIsMine /\ AnsweredInStep

\* What is left of a sequence without its first element.
LEMMA RestIs ==
  ASSUME NEW C, NEW s \in Seq(C), s # << >>
  PROVE  /\ Head(s) = s[1] /\ Head(s) \in C /\ 1 \in DOMAIN s /\ Len(s) \in Nat /\ DOMAIN s = 1 .. Len(s)
         /\ Tail(s) \in Seq(C) /\ Len(Tail(s)) = Len(s) - 1 /\ DOMAIN Tail(s) = 1 .. (Len(s) - 1)
         /\ \A i \in DOMAIN Tail(s) : Tail(s)[i] = s[i + 1] /\ i + 1 \in DOMAIN s /\ i + 1 # 1
<1>1. Len(s) \in Nat /\ Len(s) # 0 /\ DOMAIN s = 1 .. Len(s)
  OBVIOUS
<1>2. Tail(s) \in Seq(C) /\ Len(Tail(s)) = Len(s) - 1 /\ DOMAIN Tail(s) = 1 .. (Len(s) - 1)
  BY <1>1
<1>3. \A i \in 1 .. (Len(s) - 1) : Tail(s)[i] = s[i + 1] /\ i + 1 \in 1 .. Len(s) /\ i + 1 # 1
  BY <1>1
<1>4. Head(s) = s[1] /\ 1 \in 1 .. Len(s) /\ s[1] \in C
  BY <1>1
<1> QED BY <1>1, <1>2, <1>3, <1>4

\* The same sequence with one element more.
LEMMA LongerIs ==
  ASSUME NEW C, NEW s \in Seq(C), NEW c \in C
  PROVE  /\ Append(s, c) \in Seq(C) /\ Len(Append(s, c)) = Len(s) + 1 /\ Len(s) \in Nat
         /\ DOMAIN s = 1 .. Len(s) /\ DOMAIN Append(s, c) = 1 .. (Len(s) + 1)
         /\ Append(s, c)[Len(s) + 1] = c /\ \A i \in DOMAIN s : Append(s, c)[i] = s[i]
         /\ \A i \in DOMAIN Append(s, c) : i \in DOMAIN s \/ i = Len(s) + 1
<1> DEFINE t == Append(s, c)
<1>1. t \in Seq(C) /\ Len(t) = Len(s) + 1 /\ t[Len(s) + 1] = c /\ \A i \in 1 .. Len(s) : t[i] = s[i]
  BY AppendProperties
<1> HIDE DEF t
<1>2. Len(s) \in Nat /\ DOMAIN s = 1 .. Len(s) /\ DOMAIN t = 1 .. (Len(s) + 1)
  BY <1>1
<1>3. \A i \in 1 .. (Len(s) + 1) : i \in 1 .. Len(s) \/ i = Len(s) + 1
  BY <1>2
<1> QED BY <1>1, <1>2, <1>3 DEF t

\* Nothing is sent, held or answered at first.
LEMMA PipeInit == NetInit => PipeInv
<1> SUFFICES ASSUME NetInit PROVE PipeInv
  OBVIOUS
<1>1. call = NoCall /\ toHelper = << >> /\ toWrite = << >> /\ toClient = << >> /\ served = << >> /\ netResults = << >> /\ since = 0
  BY DEF NetInit
<1>2. Used = 0
  BY <1>1 DEF Used
<1>3. NetShapes
  BY <1>1, <1>2, NetAssumption DEF NetShapes
<1>4. HistoryIs
  <2>1. DOMAIN served = {}
    BY <1>1
  <2>2. served = [i \in DOMAIN served |-> served[i]]
    BY <1>1
  <2> QED BY <2>1, <2>2 DEF HistoryIs
<1>5. IdsAreFresh /\ PipeIsMine /\ AnsweredInStep
  BY <1>1 DEF IdsAreFresh, PipeIsMine, AnsweredInStep
<1> QED BY <1>3, <1>4, <1>5 DEF PipeInv

(* What a call that returns may say. *)
MayReturn(ok, of, broken) ==
  broken \/ (Unbroken => of = call.id /\ call.id \in DOMAIN served /\ ok = served[call.id].ok)

\* A call that returns leaves the history as it was; what it says of its
\* request is right unless it gives up.
LEMMA ReturnKeeps ==
  ASSUME PipeInv, call # NoCall, NEW ok \in BOOLEAN, NEW of \in Nat, NEW broken \in BOOLEAN,
         Return(ok, of, broken), UNCHANGED <<toHelper, toWrite, served, since>>, toClient' \in Seq(PipeLines),
         MayReturn(ok, of, broken)
  PROVE  /\ NetShapes' /\ HistoryIs' /\ IdsAreFresh' /\ AnsweredInStep'
         /\ call' = NoCall /\ (Unbroken' => ~broken /\ Unbroken)
<1> DEFINE R == [id : Nat, ok : BOOLEAN, of : Nat, broken : BOOLEAN]
           n == Len(netResults)
           new == [id |-> call.id, ok |-> ok, of |-> of, broken |-> broken]
<1>1. netResults \in Seq(R) /\ call.id = n + 1 /\ n \in Nat /\ call' = NoCall /\ since' = since /\ since \in 0 .. n
  BY DEF PipeInv, NetShapes, Return
<1>2. new \in R /\ new.id = n + 1 /\ new.ok = ok /\ new.of = of /\ new.broken = broken
  BY <1>1
<1>3. netResults' = Append(netResults, new)
  BY DEF Return
<1> HIDE DEF R, new
<1>4. /\ netResults' \in Seq(R) /\ Len(netResults') = n + 1 /\ DOMAIN netResults = 1 .. n
      /\ DOMAIN netResults' = 1 .. (n + 1) /\ netResults'[n + 1] = new
      /\ \A i \in 1 .. n : netResults'[i] = netResults[i]
      /\ \A i \in 1 .. (n + 1) : i \in 1 .. n \/ i = n + 1
  <2>1. /\ Append(netResults, new) \in Seq(R) /\ Len(Append(netResults, new)) = n + 1
        /\ DOMAIN netResults = 1 .. n /\ DOMAIN Append(netResults, new) = 1 .. (n + 1)
        /\ Append(netResults, new)[n + 1] = new
        /\ \A i \in DOMAIN netResults : Append(netResults, new)[i] = netResults[i]
        /\ \A i \in DOMAIN Append(netResults, new) : i \in DOMAIN netResults \/ i = n + 1
    BY <1>1, <1>2, LongerIs
  <2> QED BY <1>3, <2>1
<1>5. Used = n + 1 /\ Used' = n + 1
  BY <1>1, <1>4 DEF Used
<1>6. NetShapes'
  BY <1>1, <1>4, <1>5 DEF PipeInv, NetShapes, R
<1>7. HistoryIs'
  <2>1. HistoryIs /\ served' = served
    BY DEF PipeInv
  <2> QED BY <1>5, <2>1 DEF HistoryIs
<1>8. IdsAreFresh'
  <2>1. IdsAreFresh /\ served' = served /\ toHelper' = toHelper
    BY DEF PipeInv
  <2> QED BY <1>1, <1>5, <2>1 DEF IdsAreFresh
<1>9. Unbroken' => ~broken /\ Unbroken
  <2> SUFFICES ASSUME Unbroken' PROVE ~broken /\ Unbroken
    OBVIOUS
  <2>1. \A j \in 1 .. (n + 1) : j > since => ~netResults'[j].broken
    BY <1>1, <1>4 DEF Unbroken
  <2>2. ~new.broken
    BY <1>1, <1>4, <2>1
  <2>3. \A j \in 1 .. n : j > since => ~netResults[j].broken
    BY <1>1, <1>4, <2>1
  <2> QED BY <1>2, <1>4, <2>2, <2>3 DEF Unbroken
<1>10. AnsweredInStep'
  <2>1. AnsweredInStep /\ served' = served
    BY DEF PipeInv
  <2> SUFFICES ASSUME NEW i \in 1 .. (n + 1)
               PROVE  /\ netResults'[i].id = i
                      /\ i > since /\ (\A j \in 1 .. i : j > since => ~netResults'[j].broken) =>
                           netResults'[i].of = i /\ i \in DOMAIN served /\ netResults'[i].ok = served[i].ok
    BY <1>1, <1>4, <2>1 DEF AnsweredInStep
  <2>2. CASE i \in 1 .. n
    <3>1. netResults'[i] = netResults[i] /\ \A j \in 1 .. i : j \in 1 .. n /\ netResults'[j] = netResults[j]
      BY <1>1, <1>4, <2>2
    <3> QED BY <1>4, <2>1, <2>2, <3>1 DEF AnsweredInStep
  <2>3. CASE i = n + 1
    <3>1. netResults'[i] = new
      BY <1>4, <2>3
    <3>2. ASSUME \A j \in 1 .. i : j > since => ~netResults'[j].broken PROVE ~broken /\ Unbroken
      <4>1. \A j \in 1 .. n : j > since => ~netResults[j].broken
        BY <1>1, <1>4, <2>3, <3>2
      <4>2. ~netResults'[i].broken
        BY <1>1, <2>3, <3>2
      <4> QED BY <1>2, <1>4, <3>1, <4>1, <4>2 DEF Unbroken
    <3> QED BY <1>1, <1>2, <2>3, <3>1, <3>2 DEF MayReturn
  <2> QED BY <1>4, <2>2, <2>3
<1> QED BY <1>1, <1>6, <1>7, <1>8, <1>9, <1>10

\* The end of the stream ends a call, which gives up.
LEMMA EofKeeps == PipeInv /\ ClientEof => PipeInv'
<1> SUFFICES ASSUME PipeInv, ClientEof PROVE PipeInv'
  OBVIOUS
<1>1. call # NoCall /\ Return(FALSE, 0, TRUE) /\ UNCHANGED <<toHelper, toWrite, toClient, served, since>>
  BY DEF ClientEof
<1>2. toClient' \in Seq(PipeLines)
  BY <1>1 DEF PipeInv, NetShapes
<1>3. MayReturn(FALSE, 0, TRUE)
  BY DEF MayReturn
<1>4. NetShapes' /\ HistoryIs' /\ IdsAreFresh' /\ AnsweredInStep' /\ ~Unbroken'
  <2>1. UNCHANGED <<toHelper, toWrite, served, since>>
    BY <1>1
  <2> QED BY <1>1, <1>2, <1>3, <2>1, ReturnKeeps
<1> QED BY <1>4 DEF PipeInv, PipeIsMine

\* One line read: an answer, an error, one more part of it, or nothing usable.
LEMMA ReadKeeps == PipeInv /\ ClientRead => PipeInv'
<1> SUFFICES ASSUME PipeInv, ClientRead PROVE PipeInv'
  OBVIOUS
<1> DEFINE line == Head(toClient)
           modality == call.req.modality
<1>1. call # NoCall /\ toClient # << >> /\ UNCHANGED <<toHelper, toWrite, served, since>>
  BY DEF ClientRead
<1>2. toClient \in Seq(PipeLines)
  BY DEF PipeInv, NetShapes
<1>3. /\ line = toClient[1] /\ line \in PipeLines /\ 1 \in DOMAIN toClient /\ Len(toClient) \in Nat
      /\ DOMAIN toClient = 1 .. Len(toClient)
      /\ Tail(toClient) \in Seq(PipeLines) /\ Len(Tail(toClient)) = Len(toClient) - 1
      /\ DOMAIN Tail(toClient) = 1 .. (Len(toClient) - 1)
      /\ \A i \in DOMAIN Tail(toClient) : Tail(toClient)[i] = toClient[i + 1] /\ i + 1 \in DOMAIN toClient /\ i + 1 # 1
  BY <1>1, <1>2, RestIs
<1>4. ASSUME Return(FALSE, 0, TRUE), toClient' \in Seq(PipeLines) PROVE PipeInv'
  <2>1. MayReturn(FALSE, 0, TRUE)
    BY DEF MayReturn
  <2>2. NetShapes' /\ HistoryIs' /\ IdsAreFresh' /\ AnsweredInStep' /\ ~Unbroken'
    BY <1>1, <1>4, <2>1, ReturnKeeps
  <2> QED BY <2>2 DEF PipeInv, PipeIsMine
<1>5. CASE line.size > 1
  <2> DEFINE rest == [line EXCEPT !.size = @ - 1, !.kind = "junk"]
  <2>1. toClient' = <<rest>> \o Tail(toClient) /\ Return(FALSE, 0, TRUE)
    BY <1>5 DEF ClientRead
  <2>2. rest \in PipeLines
    <3>1. line \in PipeLines
      BY <1>3
    <3> HIDE DEF line
    <3>2. line.size \in Nat /\ line.size - 1 \in Nat
      BY <1>5, <3>1 DEF PipeLines
    <3> QED BY <3>1, <3>2 DEF PipeLines
  <2> HIDE DEF rest
  <2>3. toClient' \in Seq(PipeLines)
    BY <1>3, <2>1, <2>2
  <2> QED BY <1>4, <2>1, <2>3
<1>6. CASE ~(line.size > 1)
  <2>1. toClient' = Tail(toClient) /\ toClient' \in Seq(PipeLines)
    BY <1>3, <1>6 DEF ClientRead
  <2>2. \/ Return(FALSE, 0, TRUE)
        \/ line.kind = LastKind(modality) /\ Return(TRUE, line.id, FALSE)
        \/ line.kind = "error" /\ Return(FALSE, line.id, FALSE)
        \/ /\ line.kind # LastKind(modality) /\ line.kind # "error"
           /\ call' = [call EXCEPT !.streamed = @ + 1] /\ UNCHANGED netResults
    BY <1>6 DEF ClientRead
  <2>3. ASSUME NEW ok \in BOOLEAN, Return(ok, line.id, FALSE), Final(line),
               Unbroken => ok = served[call.id].ok
        PROVE  PipeInv'
    <3>1. line.id \in Nat
      BY <1>3 DEF PipeLines
    <3>2. Unbroken => /\ line.id = call.id /\ call.id \in DOMAIN served
                      /\ Len(toClient) = 1 /\ toWrite = << >> /\ toHelper = << >>
      BY <1>1, <1>3, <2>3 DEF PipeInv, PipeIsMine, Mine
    <3>3. MayReturn(ok, line.id, FALSE)
      BY <2>3, <3>2 DEF MayReturn
    <3>4. NetShapes' /\ HistoryIs' /\ IdsAreFresh' /\ AnsweredInStep' /\ call' = NoCall /\ (Unbroken' => Unbroken)
      BY <1>1, <2>1, <2>3, <3>1, <3>3, ReturnKeeps
    <3>5. Unbroken' => toHelper' = << >> /\ toWrite' = << >> /\ toClient' = << >>
      BY <1>1, <1>3, <2>1, <3>2, <3>4
    <3>6. PipeIsMine'
      BY <3>4, <3>5 DEF PipeIsMine
    <3> QED BY <3>4, <3>6 DEF PipeInv
  <2>4. CASE line.kind = LastKind(modality) /\ Return(TRUE, line.id, FALSE)
    <3>1. Unbroken => TRUE = served[call.id].ok
      BY <1>1, <1>3, <2>4 DEF PipeInv, PipeIsMine, Mine
    <3> QED BY <2>3, <2>4, <3>1 DEF Final
  <2>5. CASE line.kind = "error" /\ Return(FALSE, line.id, FALSE)
    <3>1. Unbroken => FALSE = served[call.id].ok
      BY <1>1, <1>3, <2>5 DEF PipeInv, PipeIsMine, Mine
    <3> QED BY <2>3, <2>5, <3>1 DEF Final
  <2>6. CASE /\ line.kind # LastKind(modality) /\ line.kind # "error"
             /\ call' = [call EXCEPT !.streamed = @ + 1] /\ UNCHANGED netResults
    <3>1. call \in [id : Nat, req : NetRequests, streamed : Nat] /\ call.id = Len(netResults) + 1
      BY <1>1 DEF PipeInv, NetShapes
    <3>2. /\ call' \in [id : Nat, req : NetRequests, streamed : Nat]
          /\ call'.id = call.id /\ call'.req = call.req
      BY <2>6, <3>1
    <3>3. call' # NoCall
      <4>1. Len(netResults) \in Nat
        BY DEF PipeInv, NetShapes
      <4>2. call'.id # 0
        BY <3>1, <3>2, <4>1
      <4> QED BY <4>2 DEF NoCall
    <3>4. Used' = Used
      BY <1>1, <2>6, <3>3 DEF Used
    <3>5. NetShapes'
      BY <1>1, <2>1, <2>6, <3>1, <3>2, <3>4 DEF PipeInv, NetShapes
    <3>6. HistoryIs' /\ AnsweredInStep'
      BY <1>1, <2>6, <3>4 DEF PipeInv, HistoryIs, AnsweredInStep
    <3>7. IdsAreFresh'
      BY <1>1, <3>2, <3>4 DEF PipeInv, IdsAreFresh
    <3>8. PipeIsMine'
      <4> SUFFICES ASSUME Unbroken
                   PROVE  /\ toHelper = << >>
                          /\ \A k \in DOMAIN Tail(toClient) :
                               /\ Mine(Tail(toClient)[k])
                               /\ Final(Tail(toClient)[k]) => k = Len(Tail(toClient)) /\ toWrite = << >>
                          /\ \A k \in DOMAIN toWrite : Mine(toWrite[k]) /\ (Final(toWrite[k]) => k = Len(toWrite))
        BY <1>1, <2>1, <2>6, <3>2, <3>3 DEF PipeIsMine, Unbroken, Mine, Final
      <4>1. /\ toHelper # << >> => toClient = << >>
            /\ \A k \in DOMAIN toClient :
                 Mine(toClient[k]) /\ (Final(toClient[k]) => k = Len(toClient) /\ toWrite = << >>)
            /\ \A k \in DOMAIN toWrite : Mine(toWrite[k]) /\ (Final(toWrite[k]) => k = Len(toWrite))
        BY <1>1 DEF PipeInv, PipeIsMine
      <4>2. ASSUME NEW k \in DOMAIN Tail(toClient)
            PROVE  /\ Mine(Tail(toClient)[k])
                   /\ Final(Tail(toClient)[k]) => k = Len(Tail(toClient)) /\ toWrite = << >>
        <5>1. Tail(toClient)[k] = toClient[k + 1] /\ k + 1 \in DOMAIN toClient
          BY <1>3
        <5>2. k + 1 = Len(toClient) => k = Len(Tail(toClient))
          BY <1>3
        <5> QED BY <4>1, <5>1, <5>2
      <4> QED BY <1>1, <4>1, <4>2
    <3> QED BY <3>5, <3>6, <3>7, <3>8 DEF PipeInv
  <2> QED BY <1>4, <2>1, <2>2, <2>4, <2>5, <2>6
<1> QED BY <1>5, <1>6

\* A call writes its request with an id of its own, or is refused.
LEMMA PipeCallKeeps == ASSUME NEW req \in NetRequests, NEW texts \in Batches, NEW long \in BOOLEAN, PipeInv, NetCall(req, texts, long) PROVE PipeInv'
<1> DEFINE n == Len(netResults)
           R == [id : Nat, ok : BOOLEAN, of : Nat, broken : BOOLEAN]
<1>1. /\ call = NoCall /\ n < MaxCalls /\ UNCHANGED <<toWrite, toClient, served, since>> /\ since \in 0 .. n
      /\ n \in Nat /\ netResults \in Seq(R) /\ Used = n /\ DOMAIN netResults = 1 .. n
  BY DEF NetCall, PipeInv, NetShapes, Used
<1>2. CASE helper = "down"
  <2> DEFINE new == [id |-> n + 1, ok |-> FALSE, of |-> 0, broken |-> TRUE]
  <2>1. netResults' = Append(netResults, new) /\ UNCHANGED <<call, toHelper>>
    BY <1>2 DEF NetCall
  <2>2. new \in R /\ new.id = n + 1 /\ new.broken
    BY <1>1
  <2> HIDE DEF R, new
  <2>3. /\ Append(netResults, new) \in Seq(R) /\ Len(Append(netResults, new)) = n + 1
        /\ DOMAIN Append(netResults, new) = 1 .. (n + 1)
        /\ Append(netResults, new)[n + 1] = new
        /\ \A i \in DOMAIN netResults : Append(netResults, new)[i] = netResults[i]
        /\ \A i \in DOMAIN Append(netResults, new) : i \in DOMAIN netResults \/ i = n + 1
    BY <1>1, <2>2, LongerIs
  <2>4. /\ netResults' \in Seq(R) /\ Len(netResults') = n + 1 /\ DOMAIN netResults' = 1 .. (n + 1)
        /\ netResults'[n + 1] = new /\ \A i \in 1 .. n : netResults'[i] = netResults[i]
        /\ \A i \in 1 .. (n + 1) : i \in 1 .. n \/ i = n + 1
    BY <1>1, <2>1, <2>3
  <2>5. Used' = n + 1
    BY <1>1, <2>1, <2>4 DEF Used
  <2>6. NetShapes'
    BY <1>1, <2>1, <2>4, <2>5, NetAssumption DEF PipeInv, NetShapes, R
  <2>7. HistoryIs'
    BY <1>1, <2>5 DEF PipeInv, HistoryIs
  <2>8. IdsAreFresh'
    BY <1>1, <2>1, <2>5 DEF PipeInv, IdsAreFresh
  <2>9. ~Unbroken'
    BY <1>1, <2>2, <2>4 DEF Unbroken
  <2>10. PipeIsMine'
    BY <2>9 DEF PipeIsMine
  <2>11. AnsweredInStep'
    <3>1. AnsweredInStep /\ served' = served
      BY <1>1 DEF PipeInv
    <3> SUFFICES ASSUME NEW i \in 1 .. (n + 1)
                 PROVE  /\ netResults'[i].id = i
                        /\ i > since /\ (\A j \in 1 .. i : j > since => ~netResults'[j].broken) =>
                             netResults'[i].of = i /\ i \in DOMAIN served /\ netResults'[i].ok = served[i].ok
      BY <1>1, <2>4, <3>1 DEF AnsweredInStep
    <3>2. CASE i \in 1 .. n
      <4>1. netResults'[i] = netResults[i] /\ \A j \in 1 .. i : netResults'[j] = netResults[j]
        BY <1>1, <2>4, <3>2
      <4> QED BY <1>1, <3>1, <3>2, <4>1 DEF AnsweredInStep
    <3>3. CASE i = n + 1
      <4>1. netResults'[i] = new /\ i \in 1 .. i
        BY <1>1, <2>4, <3>3
      <4> QED BY <1>1, <2>2, <3>3, <4>1
    <3> QED BY <2>4, <3>2, <3>3
  <2> QED BY <2>6, <2>7, <2>8, <2>10, <2>11 DEF PipeInv
<1>3. CASE helper # "down"
  <2> DEFINE r == [id |-> n + 1, req |-> req, texts |-> texts, long |-> long]
             Q == [id : Nat, req : NetRequests, texts : Batches, long : BOOLEAN]
             m == Len(toHelper)
  <2>1. /\ call' = [id |-> n + 1, req |-> req, streamed |-> 0]
        /\ toHelper' = Append(toHelper, r) /\ netResults' = netResults
    BY <1>3 DEF NetCall
  <2>2. call'.id = n + 1 /\ call'.req = req /\ call' \in [id : Nat, req : NetRequests, streamed : Nat]
    BY <1>1, <2>1
  <2>3. call' # NoCall
    BY <1>1, <2>2 DEF NoCall
  <2>4. toHelper \in Seq(Q) /\ r \in Q /\ r.id = n + 1 /\ r.req = req
    BY <1>1 DEF PipeInv, NetShapes
  <2> HIDE DEF r, Q
  <2>5. /\ Append(toHelper, r) \in Seq(Q) /\ Len(Append(toHelper, r)) = m + 1 /\ m \in Nat
        /\ DOMAIN toHelper = 1 .. m /\ DOMAIN Append(toHelper, r) = 1 .. (m + 1)
        /\ Append(toHelper, r)[m + 1] = r /\ \A i \in DOMAIN toHelper : Append(toHelper, r)[i] = toHelper[i]
        /\ \A i \in DOMAIN Append(toHelper, r) : i \in DOMAIN toHelper \/ i = m + 1
    BY <2>4, LongerIs
  <2>6. /\ toHelper' \in Seq(Q) /\ Len(toHelper') = m + 1
        /\ DOMAIN toHelper' = 1 .. (m + 1)
        /\ toHelper'[m + 1] = r /\ \A i \in 1 .. m : toHelper'[i] = toHelper[i]
        /\ \A i \in 1 .. (m + 1) : i \in 1 .. m \/ i = m + 1
    BY <2>1, <2>5
  <2>7. Used' = n + 1
    BY <2>1, <2>3 DEF Used
  <2>8. NetShapes'
    BY <1>1, <2>1, <2>2, <2>6, <2>7, NetAssumption DEF PipeInv, NetShapes, Q
  <2>9. HistoryIs'
    BY <1>1, <2>7 DEF PipeInv, HistoryIs
  <2>10. IdsAreFresh'
    <3>1. /\ DOMAIN served \subseteq 1 .. n /\ n + 1 \notin 1 .. n /\ 1 .. n \subseteq 1 .. (n + 1) /\ n + 1 \in 1 .. (n + 1)
          /\ \A k \in 1 .. m : toHelper[k].id \in 1 .. n /\ toHelper[k].id \notin DOMAIN served
          /\ \A j, k \in 1 .. m : toHelper[j].id = toHelper[k].id => j = k
      BY <1>1, <2>5 DEF PipeInv, HistoryIs, IdsAreFresh
    <3>2. \A k \in 1 .. m : toHelper'[k].id \in 1 .. n /\ toHelper'[k].id \notin DOMAIN served
      BY <2>6, <3>1
    <3>3. \A k \in 1 .. (m + 1) : k = m + 1 \/ (k \in 1 .. m /\ toHelper'[k].id # n + 1)
      BY <2>6, <3>1, <3>2
    <3>4. \A k \in 1 .. (m + 1) : toHelper'[k].id \in 1 .. (n + 1) /\ toHelper'[k].id \notin DOMAIN served
      BY <2>4, <2>6, <3>1, <3>2
    <3>5. \A j, k \in 1 .. (m + 1) : toHelper'[j].id = toHelper'[k].id => j = k
      <4> TAKE j, k \in 1 .. (m + 1)
      <4>1. CASE j \in 1 .. m /\ k \in 1 .. m
        BY <2>6, <3>1, <4>1
      <4>2. CASE j = m + 1 \/ k = m + 1
        BY <2>4, <2>6, <3>3, <4>2
      <4> QED BY <2>6, <4>1, <4>2
    <3>6. \A k \in 1 .. (m + 1) : toHelper'[k].id = n + 1 => toHelper'[k].req = req
      BY <2>4, <2>6, <3>3
    <3> QED BY <1>1, <2>2, <2>6, <2>7, <3>4, <3>5, <3>6 DEF IdsAreFresh
  <2>11. PipeIsMine'
    <3> SUFFICES ASSUME Unbroken
                 PROVE  /\ Len(toHelper') = 1 /\ toHelper'[1].id = call'.id
                        /\ toWrite = << >> /\ toClient = << >>
      BY <1>1, <2>1, <2>3 DEF PipeIsMine, Unbroken
    <3>1. toHelper = << >> /\ toWrite = << >> /\ toClient = << >>
      BY <1>1 DEF PipeInv, PipeIsMine
    <3>2. m = 0
      BY <3>1
    <3> QED BY <2>2, <2>4, <2>6, <3>1, <3>2
  <2>12. AnsweredInStep'
    BY <1>1, <2>1 DEF PipeInv, AnsweredInStep
  <2> QED BY <2>8, <2>9, <2>10, <2>11, <2>12 DEF PipeInv
<1> QED BY <1>2, <1>3

\* Another helper starts with empty pipes and nothing charged.
LEMMA RespawnKeeps == PipeInv /\ Respawn => PipeInv'
<1> SUFFICES ASSUME PipeInv, Respawn PROVE PipeInv'
  OBVIOUS
<1>1. /\ call = NoCall /\ toHelper' = << >> /\ toWrite' = << >> /\ toClient' = << >>
      /\ served' = [i \in DOMAIN served |-> [served[i] EXCEPT !.charged = << >>]]
      /\ UNCHANGED <<call, netResults>> /\ since' = Len(netResults)
      /\ Len(netResults) \in Nat /\ DOMAIN netResults = 1 .. Len(netResults)
  BY DEF Respawn, PipeInv, NetShapes
<1>2. Used' = Used
  BY <1>1 DEF Used
<1>3. NetShapes'
  BY <1>1, <1>2 DEF PipeInv, NetShapes
<1>4. /\ DOMAIN served' = DOMAIN served /\ served' = [i \in DOMAIN served' |-> served'[i]]
      /\ \A i \in DOMAIN served : served'[i] = Entry(served[i].ok, served[i].used, served[i].texts, << >>)
  <2>1. DOMAIN served' = DOMAIN served /\ served' = [i \in DOMAIN served' |-> served'[i]]
    BY <1>1
  <2>2. ASSUME NEW i \in DOMAIN served
        PROVE  served'[i] = Entry(served[i].ok, served[i].used, served[i].texts, << >>)
    <3>1. served[i] = Entry(served[i].ok, served[i].used, served[i].texts, served[i].charged)
      BY DEF PipeInv, HistoryIs
    <3>2. served'[i] = [served[i] EXCEPT !.charged = << >>]
      BY <1>1
    <3>3. \A ok, used, texts, charged :
            [Entry(ok, used, texts, charged) EXCEPT !.charged = << >>] = Entry(ok, used, texts, << >>)
      BY DEF Entry
    <3>4. [Entry(served[i].ok, served[i].used, served[i].texts, served[i].charged) EXCEPT !.charged = << >>]
            = Entry(served[i].ok, served[i].used, served[i].texts, << >>)
      BY Zenon, <3>3
    <3> QED BY Zenon, <3>1, <3>2, <3>4
  <2> QED BY <2>1, <2>2
<1>5. \A i \in DOMAIN served : /\ served'[i].ok = served[i].ok /\ served'[i].charged = << >>
                              /\ served'[i] = Entry(served'[i].ok, served'[i].used, served'[i].texts, served'[i].charged)
  <2> TAKE i \in DOMAIN served
  <2>1. served'[i] = Entry(served[i].ok, served[i].used, served[i].texts, << >>)
    BY <1>4
  <2>2. /\ served'[i].ok = served[i].ok /\ served'[i].charged = << >>
        /\ served'[i].used = served[i].used /\ served'[i].texts = served[i].texts
    BY <2>1 DEF Entry
  <2> QED BY Zenon, <2>1, <2>2
<1>6. HistoryIs'
  BY <1>2, <1>4, <1>5 DEF PipeInv, HistoryIs, Amounts
<1>7. IdsAreFresh' /\ PipeIsMine'
  BY <1>1 DEF IdsAreFresh, PipeIsMine
<1>8. AnsweredInStep'
  BY <1>1, <1>4, <1>5 DEF PipeInv, AnsweredInStep
<1> QED BY <1>3, <1>6, <1>7, <1>8 DEF PipeInv

\* The helper's death empties its pipes, but what it wrote.
LEMMA DiesKeeps == PipeInv /\ HelperDies => PipeInv'
<1> SUFFICES ASSUME PipeInv, HelperDies PROVE PipeInv'
  OBVIOUS
<1>1. /\ call # NoCall /\ toHelper' = << >> /\ toWrite' = << >>
      /\ UNCHANGED <<call, toClient, served, netResults, since>>
  BY DEF HelperDies
<1>2. Used' = Used
  BY <1>1 DEF Used
<1>3. NetShapes' /\ HistoryIs' /\ AnsweredInStep'
  BY <1>1, <1>2 DEF PipeInv, NetShapes, HistoryIs, AnsweredInStep
<1>4. IdsAreFresh'
  BY <1>1 DEF IdsAreFresh
<1>5. PipeIsMine'
  BY <1>1 DEF PipeInv, PipeIsMine, Unbroken, Mine, Final
<1> QED BY <1>3, <1>4, <1>5 DEF PipeInv

\* A line the helper writes is the next the client may read.
LEMMA WriteKeeps == PipeInv /\ HelperWrite => PipeInv'
<1> SUFFICES ASSUME PipeInv, HelperWrite PROVE PipeInv'
  OBVIOUS
<1> DEFINE line == Head(toWrite)
           n == Len(toClient)
<1>1. /\ toWrite # << >> /\ toClient' = Append(toClient, line) /\ toWrite' = Tail(toWrite)
      /\ UNCHANGED <<call, toHelper, served, netResults, since>>
      /\ toWrite \in Seq(PipeLines) /\ toClient \in Seq(PipeLines)
  BY DEF HelperWrite, PipeInv, NetShapes
<1>2. /\ line = toWrite[1] /\ line \in PipeLines /\ 1 \in DOMAIN toWrite /\ Len(toWrite) \in Nat
      /\ Tail(toWrite) \in Seq(PipeLines) /\ Len(Tail(toWrite)) = Len(toWrite) - 1
      /\ DOMAIN Tail(toWrite) = 1 .. (Len(toWrite) - 1) /\ DOMAIN toWrite = 1 .. Len(toWrite)
      /\ \A i \in DOMAIN Tail(toWrite) : Tail(toWrite)[i] = toWrite[i + 1] /\ i + 1 \in DOMAIN toWrite /\ i + 1 # 1
  BY <1>1, RestIs
<1> HIDE DEF line
<1>3. /\ Append(toClient, line) \in Seq(PipeLines) /\ Len(Append(toClient, line)) = n + 1 /\ n \in Nat
      /\ DOMAIN toClient = 1 .. n /\ DOMAIN Append(toClient, line) = 1 .. (n + 1)
      /\ Append(toClient, line)[n + 1] = line /\ \A i \in DOMAIN toClient : Append(toClient, line)[i] = toClient[i]
      /\ \A i \in DOMAIN Append(toClient, line) : i \in DOMAIN toClient \/ i = n + 1
  BY <1>1, <1>2, LongerIs
<1>4. Used' = Used
  BY <1>1 DEF Used
<1>5. NetShapes'
  BY <1>1, <1>2, <1>3, <1>4 DEF PipeInv, NetShapes
<1>6. HistoryIs' /\ AnsweredInStep' /\ IdsAreFresh'
  BY <1>1, <1>4 DEF PipeInv, HistoryIs, AnsweredInStep, IdsAreFresh
<1>7. PipeIsMine'
  <2> SUFFICES ASSUME Unbroken
               PROVE  /\ call # NoCall /\ toHelper = << >>
                      /\ \A k \in 1 .. (n + 1) :
                           /\ Mine(Append(toClient, line)[k])
                           /\ Final(Append(toClient, line)[k]) => k = n + 1 /\ Tail(toWrite) = << >>
                      /\ \A k \in 1 .. (Len(toWrite) - 1) :
                           Mine(Tail(toWrite)[k]) /\ (Final(Tail(toWrite)[k]) => k = Len(toWrite) - 1)
    <3> DEFINE c == Append(toClient, line)
               w == Tail(toWrite)
    <3>1. /\ Unbroken' = Unbroken /\ call' = call /\ toHelper' = toHelper /\ toClient' = c /\ toWrite' = w
          /\ served' = served
      BY <1>1 DEF Unbroken
    <3>2. DOMAIN c = 1 .. (n + 1) /\ Len(c) = n + 1 /\ DOMAIN w = 1 .. (Len(toWrite) - 1) /\ Len(w) = Len(toWrite) - 1
      BY <1>2, <1>3
    <3> HIDE DEF c, w
    <3>3. ASSUME Unbroken'
          PROVE  /\ call' # NoCall /\ toHelper' = << >>
                 /\ \A k \in DOMAIN c : Mine(c[k]) /\ (Final(c[k]) => k = Len(c) /\ w = << >>)
                 /\ \A k \in DOMAIN w : Mine(w[k]) /\ (Final(w[k]) => k = Len(w))
      <4>1. Unbroken
        BY <3>1, <3>3
      <4> QED BY <1>1, <3>1, <3>2, <4>1 DEF c, w
    <3> QED BY <3>1, <3>3 DEF PipeIsMine, Mine, Final
  <2>1. /\ call # NoCall /\ toHelper = << >>
        /\ \A k \in DOMAIN toClient : Mine(toClient[k]) /\ ~Final(toClient[k])
        /\ \A k \in DOMAIN toWrite : Mine(toWrite[k]) /\ (Final(toWrite[k]) => k = Len(toWrite))
    BY <1>1 DEF PipeInv, PipeIsMine
  <2>2. Final(line) => Tail(toWrite) = << >>
    BY <1>2, <2>1
  <2>3. ASSUME NEW k \in 1 .. (n + 1)
        PROVE  /\ Mine(Append(toClient, line)[k])
               /\ Final(Append(toClient, line)[k]) => k = n + 1 /\ Tail(toWrite) = << >>
    <3>1. CASE k \in DOMAIN toClient
      <4>1. Append(toClient, line)[k] = toClient[k]
        BY <1>3, <3>1
      <4> QED BY <2>1, <3>1, <4>1
    <3>2. CASE k = n + 1
      <4>1. Append(toClient, line)[k] = toWrite[1]
        BY <1>2, <1>3, <3>2
      <4> QED BY <1>2, <2>1, <2>2, <3>2, <4>1
    <3> QED BY <1>3, <3>1, <3>2
  <2>4. ASSUME NEW k \in 1 .. (Len(toWrite) - 1)
        PROVE  Mine(Tail(toWrite)[k]) /\ (Final(Tail(toWrite)[k]) => k = Len(toWrite) - 1)
    <3>1. Tail(toWrite)[k] = toWrite[k + 1] /\ k + 1 \in DOMAIN toWrite
      BY <1>2
    <3>2. k + 1 = Len(toWrite) => k = Len(toWrite) - 1
      <4>1. Len(toWrite) \in Nat
        BY <1>2
      <4> QED BY <4>1
    <3> QED BY <2>1, <3>1, <3>2
  <2> QED BY <2>1, <2>3, <2>4
<1> QED BY <1>5, <1>6, <1>7 DEF PipeInv

(* The lines w answer request r, which went well or not. *)
Answers(r, ok, w) ==
  \A k \in DOMAIN w :
    /\ w[k].id = r.id
    /\ w[k].kind = LastKind(r.req.modality) => ok = TRUE /\ k = Len(w)
    /\ w[k].kind = "error" => ok = FALSE /\ k = Len(w)

\* A request that is taken is recorded once and answered with its own id.
LEMMA TakeKeeps ==
  ASSUME PipeInv, toHelper # << >>, toWrite = << >>,
         NEW ok \in BOOLEAN, NEW used, NEW texts, NEW charged \in Amounts,
         served' = Recorded(Head(toHelper).id, Entry(ok, used, texts, charged)),
         toHelper' = Tail(toHelper) \/ toHelper' = << >>, UNCHANGED <<call, toClient, netResults, since>>,
         toWrite' \in Seq(PipeLines), Answers(Head(toHelper), ok, toWrite')
  PROVE  PipeInv'
<1> DEFINE r == Head(toHelper)
           e == Entry(ok, used, texts, charged)
           Q == [id : Nat, req : NetRequests, texts : Batches, long : BOOLEAN]
<1>1. toHelper \in Seq(Q) /\ toClient \in Seq(PipeLines)
  BY DEF PipeInv, NetShapes
<1>2. /\ r = toHelper[1] /\ r \in Q /\ 1 \in DOMAIN toHelper /\ Len(toHelper) \in Nat /\ DOMAIN toHelper = 1 .. Len(toHelper)
      /\ Tail(toHelper) \in Seq(Q) /\ Len(Tail(toHelper)) = Len(toHelper) - 1
      /\ DOMAIN Tail(toHelper) = 1 .. (Len(toHelper) - 1)
      /\ \A i \in DOMAIN Tail(toHelper) : Tail(toHelper)[i] = toHelper[i + 1] /\ i + 1 \in DOMAIN toHelper /\ i + 1 # 1
  <2> HIDE DEF Q
  <2> QED BY <1>1, RestIs
<1>3. r.id \in 1 .. Used /\ r.id \notin DOMAIN served
  BY <1>2 DEF PipeInv, IdsAreFresh
<1>4. served' = Recorded(r.id, e)
  OBVIOUS
<1>5. e.ok = ok /\ e.used = used /\ e.texts = texts /\ e.charged = charged
  BY DEF Entry
<1> HIDE DEF r, e
<1>6. /\ DOMAIN served' = DOMAIN served \cup {r.id} /\ served' = [i \in DOMAIN served' |-> served'[i]]
      /\ served'[r.id] = e /\ \A i \in DOMAIN served : served'[i] = served[i] /\ i # r.id
  <2> DEFINE d == r.id
             g == Recorded(d, e)
  <2>1. d \notin DOMAIN served
    BY <1>3
  <2> HIDE DEF d
  <2>2. /\ DOMAIN g = DOMAIN served \cup {d} /\ g = [i \in DOMAIN g |-> g[i]]
        /\ g[d] = e /\ \A i \in DOMAIN served : g[i] = served[i] /\ i # d
    BY <2>1 DEF Recorded
  <2>3. served' = g
    BY <1>4 DEF d
  <2> HIDE DEF g
  <2> QED BY Zenon, <2>2, <2>3 DEF d
<1>7. Used' = Used
  BY DEF Used
<1>8. toHelper' \in Seq(Q)
  <2>1. Tail(toHelper) \in Seq(Q) /\ << >> \in Seq(Q)
    BY <1>2
  <2> HIDE DEF Q
  <2> QED BY Zenon, <2>1
<1>9. NetShapes'
  BY <1>7, <1>8 DEF PipeInv, NetShapes
<1>10. HistoryIs'
  <2>1. DOMAIN served' \subseteq 1 .. Used'
    BY <1>3, <1>6, <1>7 DEF PipeInv, HistoryIs
  <2>2. ASSUME NEW i \in DOMAIN served'
        PROVE  /\ served'[i] = Entry(served'[i].ok, served'[i].used, served'[i].texts, served'[i].charged)
               /\ served'[i].ok \in BOOLEAN /\ served'[i].charged \in Amounts
    <3>1. CASE i \in DOMAIN served
      <4>1. served'[i] = served[i]
        BY <1>6, <3>1
      <4>2. /\ served[i] = Entry(served[i].ok, served[i].used, served[i].texts, served[i].charged)
            /\ served[i].ok \in BOOLEAN /\ served[i].charged \in Amounts
        BY <3>1 DEF PipeInv, HistoryIs
      <4> QED BY Zenon, <4>1, <4>2
    <3>2. CASE i = r.id
      <4>1. served'[i] = e
        BY <1>6, <3>2
      <4>2. e = Entry(e.ok, e.used, e.texts, e.charged)
        BY Zenon, <1>5 DEF e
      <4>3. e.ok \in BOOLEAN /\ e.charged \in Amounts
        BY <1>5
      <4> QED BY Zenon, <4>1, <4>2, <4>3
    <3> QED BY <1>6, <3>1, <3>2
  <2> QED BY <1>6, <2>1, <2>2 DEF HistoryIs
<1>11. IdsAreFresh'
  <2>1. CASE toHelper' = << >>
    BY <2>1 DEF IdsAreFresh
  <2>2. CASE toHelper' = Tail(toHelper)
    <3>1. /\ \A k \in DOMAIN toHelper : toHelper[k].id \in 1 .. Used /\ toHelper[k].id \notin DOMAIN served
          /\ \A j, k \in DOMAIN toHelper : toHelper[j].id = toHelper[k].id => j = k
          /\ \A k \in DOMAIN toHelper : call # NoCall /\ toHelper[k].id = call.id => toHelper[k].req = call.req
      BY DEF PipeInv, IdsAreFresh
    <3> DEFINE t == Tail(toHelper)
    <3>2. \A k \in DOMAIN t : t[k] = toHelper[k + 1] /\ k + 1 \in DOMAIN toHelper /\ k + 1 # 1 /\ k \in Int
      BY <1>2
    <3> HIDE DEF t
    <3>3. \A k \in DOMAIN t : t[k].id \in 1 .. Used /\ t[k].id \notin DOMAIN served /\ t[k].id # r.id
      BY <1>2, <3>1, <3>2
    <3>4. \A j, k \in DOMAIN t : t[j].id = t[k].id => j = k
      <4> SUFFICES ASSUME NEW j \in DOMAIN t, NEW k \in DOMAIN t, t[j].id = t[k].id PROVE j = k
        OBVIOUS
      <4>1. j + 1 = k + 1
        BY <3>1, <3>2
      <4> QED BY <3>2, <4>1
    <3>5. \A k \in DOMAIN t : call # NoCall /\ t[k].id = call.id => t[k].req = call.req
      BY <3>1, <3>2
    <3>6. toHelper' = t
      BY <2>2 DEF t
    <3> QED BY <1>6, <1>7, <3>3, <3>4, <3>5, <3>6 DEF IdsAreFresh
  <2> QED BY <2>1, <2>2
<1>12. AnsweredInStep'
  BY <1>6 DEF PipeInv, AnsweredInStep
<1>13. PipeIsMine'
  <2> SUFFICES ASSUME Unbroken, NEW w, w = toWrite'
               PROVE  /\ call # NoCall /\ toHelper' = << >> /\ toClient = << >>
                      /\ \A k \in DOMAIN w :
                           /\ w[k].id = call.id /\ call.id \in DOMAIN served'
                           /\ w[k].kind = LastKind(call.req.modality) => served'[call.id].ok = TRUE /\ k = Len(w)
                           /\ w[k].kind = "error" => served'[call.id].ok = FALSE /\ k = Len(w)
    <3>1. Unbroken' = Unbroken /\ call' = call /\ toClient' = toClient
      BY DEF Unbroken
    <3> DEFINE w == toWrite'
    <3>2. ASSUME Unbroken'
          PROVE  /\ call # NoCall /\ toHelper' = << >> /\ toClient = << >>
                 /\ \A k \in DOMAIN toWrite' :
                      /\ w[k].id = call.id /\ call.id \in DOMAIN served'
                      /\ w[k].kind = LastKind(call.req.modality) => served'[call.id].ok = TRUE /\ k = Len(w)
                      /\ w[k].kind = "error" => served'[call.id].ok = FALSE /\ k = Len(w)
      BY <3>1, <3>2
    <3>3. ASSUME Unbroken', NEW k \in DOMAIN toWrite'
          PROVE  Mine(toWrite[k])' /\ (Final(toWrite[k])' => k = Len(toWrite'))
      BY <3>1, <3>2, <3>3 DEF Mine, Final
    <3>4. Unbroken' => DOMAIN toClient' = {} /\ call' # NoCall /\ toHelper' = << >>
      BY <3>1, <3>2
    <3> HIDE DEF w
    <3> QED BY <3>3, <3>4 DEF PipeIsMine
  <2>1. call # NoCall /\ Len(toHelper) = 1 /\ toHelper[1].id = call.id /\ toClient = << >>
    BY DEF PipeInv, PipeIsMine
  <2>2. r.id = call.id /\ r.req = call.req
    BY <1>2, <2>1 DEF PipeInv, IdsAreFresh
  <2>3. toHelper' = << >>
    BY <1>2, <2>1
  <2>4. served'[call.id].ok = ok /\ call.id \in DOMAIN served'
    BY <1>5, <1>6, <2>2
  <2>5. Answers(r, ok, w)
    BY DEF r
  <2> QED BY <2>1, <2>2, <2>3, <2>4, <2>5 DEF Answers
<1> QED BY <1>9, <1>10, <1>11, <1>12, <1>13 DEF PipeInv

\* A line that is written is one.
LEMMA LineIs ==
  ASSUME NEW id \in Nat, NEW kind \in {"error", "chunk", "final", "model", "registry_end", "embedding", "ranking"},
         NEW size \in Nat
  PROVE  Line(id, kind, size) \in PipeLines /\ Line(id, kind, size).id = id /\ Line(id, kind, size).kind = kind
BY DEF Line, PipeLines

\* A request that does not decode ends the helper.
LEMMA RefusesKeeps == PipeInv /\ HelperRefuses => PipeInv'
<1> SUFFICES ASSUME PipeInv, HelperRefuses PROVE PipeInv'
  OBVIOUS
<1>1. /\ toHelper # << >> /\ toWrite = << >> /\ toHelper' = << >> /\ UNCHANGED <<call, toClient, netResults, since>>
      /\ served' = Recorded(Head(toHelper).id, Entry(FALSE, {}, << >>, << >>)) /\ toWrite' = << >>
  BY DEF HelperRefuses
<1>2. << >> \in Amounts /\ toWrite' \in Seq(PipeLines)
  BY <1>1 DEF Amounts
<1>3. Answers(Head(toHelper), FALSE, toWrite')
  BY <1>1 DEF Answers
<1> DEFINE e == << >>
<1>4. served' = Recorded(Head(toHelper).id, Entry(FALSE, {}, e, e)) /\ e \in Amounts
  BY <1>1, <1>2
<1> HIDE DEF e
<1>5. toHelper # << >> /\ toWrite = << >> /\ (toHelper' = Tail(toHelper) \/ toHelper' = << >>) /\ UNCHANGED <<call, toClient, netResults, since>>
  BY <1>1
<1> QED BY <1>2, <1>3, <1>4, <1>5, TakeKeeps

\* A probe is answered with the models there are, then the end.
LEMMA ProbeKeeps == PipeInv /\ HelperProbe => PipeInv'
<1> SUFFICES ASSUME PipeInv, HelperProbe PROVE PipeInv'
  OBVIOUS
<1> DEFINE r == Head(toHelper)
           n == Len(Registry(Configs, "complete")) + Len(Registry(Configs, "embed")) + Len(Registry(Configs, "rerank"))
           m == Line(r.id, "model", 1)
           z == Line(r.id, "registry_end", 1)
           a == [i \in 1 .. n |-> m]
           w == Append(a, z)
<1>1. /\ toHelper # << >> /\ toWrite = << >> /\ toHelper' = Tail(toHelper) /\ UNCHANGED <<call, toClient, netResults, since>>
      /\ served' = Recorded(r.id, Entry(TRUE, {}, r.texts, << >>)) /\ toWrite' = w
      /\ r.req.modality = "probe"
  BY DEF HelperProbe
<1>2. n \in Nat
  <2>1. \A modality : Len(Registry(Configs, modality)) \in Nat
    BY RegistryIs
  <2>2. /\ Len(Registry(Configs, "complete")) \in Nat /\ Len(Registry(Configs, "embed")) \in Nat
        /\ Len(Registry(Configs, "rerank")) \in Nat
    BY <2>1
  <2> QED BY <2>2
<1>3. r.id \in Nat
  <2> DEFINE Q == [id : Nat, req : NetRequests, texts : Batches, long : BOOLEAN]
  <2>1. toHelper \in Seq(Q)
    BY DEF PipeInv, NetShapes
  <2> HIDE DEF Q
  <2>2. r \in Q
    BY <1>1, <2>1, RestIs
  <2> QED BY <2>2 DEF Q
<1> HIDE DEF n, r
<1>4. m \in PipeLines /\ m.id = r.id /\ m.kind = "model" /\ z \in PipeLines /\ z.id = r.id /\ z.kind = "registry_end"
  BY <1>3, LineIs
<1> HIDE DEF m, z
<1>5. a \in Seq(PipeLines) /\ Len(a) = n /\ \A i \in 1 .. n : a[i] = m
  BY <1>2, <1>4
<1> HIDE DEF a
<1>6. /\ w \in Seq(PipeLines) /\ Len(w) = n + 1 /\ DOMAIN w = 1 .. (n + 1) /\ w[n + 1] = z
      /\ \A i \in 1 .. n : w[i] = m
      /\ \A i \in DOMAIN w : i \in 1 .. n \/ i = n + 1
  <2>1. /\ w \in Seq(PipeLines) /\ Len(w) = Len(a) + 1 /\ DOMAIN a = 1 .. Len(a) /\ DOMAIN w = 1 .. (Len(a) + 1)
        /\ w[Len(a) + 1] = z /\ \A i \in DOMAIN a : w[i] = a[i]
        /\ \A i \in DOMAIN w : i \in DOMAIN a \/ i = Len(a) + 1
    BY <1>4, <1>5, LongerIs
  <2> QED BY <1>5, <2>1
<1> HIDE DEF w
<1>7. Answers(r, TRUE, w)
  <2>1. LastKind(r.req.modality) = "registry_end"
    BY <1>1 DEF LastKind
  <2> QED BY <1>4, <1>6, <2>1 DEF Answers
<1>8. toWrite' \in Seq(PipeLines) /\ Answers(Head(toHelper), TRUE, toWrite')
  BY <1>1, <1>6, <1>7 DEF r
<1> DEFINE e == << >>
<1>9. served' = Recorded(Head(toHelper).id, Entry(TRUE, {}, r.texts, e)) /\ e \in Amounts
  BY <1>1 DEF r, Amounts
<1> HIDE DEF e
<1>10. toHelper # << >> /\ toWrite = << >> /\ (toHelper' = Tail(toHelper) \/ toHelper' = << >>) /\ UNCHANGED <<call, toClient, netResults, since>>
  BY <1>1
<1> QED BY <1>8, <1>9, <1>10, TakeKeeps

\* What is served is answered, and recorded with what was charged.
LEMMA ServeKeeps ==
  ASSUME NEW healthy, NEW outcomes, NEW reported \in Unreported .. 1, NEW size \in 1 .. 2,
         PipeInv, HelperServe(healthy, outcomes, reported, size)
  PROVE  PipeInv'
<1> DEFINE r == Head(toHelper)
           m == r.req.modality
           candidates == Plan(Configs, r.req, healthy)
           hit == FirstThatSucceeds(candidates, outcomes, m)
           texts == OverTheWire(r.texts)
           chosen == candidates[hit]
           charge == ChargeFor(chosen, m, outcomes[chosen.model], reported)
<1>1. /\ toHelper # << >> /\ toWrite = << >> /\ toHelper' = Tail(toHelper) /\ UNCHANGED <<call, toClient, netResults, since>>
      /\ m # "probe"
  BY DEF HelperServe
<1>2. r.id \in Nat
  <2> DEFINE Q == [id : Nat, req : NetRequests, texts : Batches, long : BOOLEAN]
  <2>1. toHelper \in Seq(Q)
    BY DEF PipeInv, NetShapes
  <2> HIDE DEF Q
  <2>2. r \in Q
    BY <1>1, <2>1, RestIs
  <2> QED BY <2>2 DEF Q
<1>3. toHelper # << >> /\ toWrite = << >> /\ (toHelper' = Tail(toHelper) \/ toHelper' = << >>) /\ UNCHANGED <<call, toClient, netResults, since>>
  BY <1>1
<1>4. CASE hit = 0
  <2> DEFINE l == Line(r.id, "error", 1)
             used == ToSet(candidates)
  <2>1. toWrite' = <<l>> /\ served' = Recorded(r.id, Entry(FALSE, used, texts, << >>))
    BY <1>4 DEF HelperServe
  <2>2. l \in PipeLines /\ l.id = r.id /\ l.kind = "error"
    BY <1>2, LineIs
  <2> HIDE DEF l, used, texts
  <2>3. LastKind(m) # "error"
    BY DEF LastKind
  <2>4. toWrite' \in Seq(PipeLines) /\ Len(toWrite') = 1 /\ DOMAIN toWrite' = {1} /\ toWrite'[1] = l
    BY <2>1, <2>2
  <2>5. Answers(Head(toHelper), FALSE, toWrite')
    BY <2>2, <2>3, <2>4 DEF Answers
  <2> DEFINE e == << >>
  <2>6. served' = Recorded(Head(toHelper).id, Entry(FALSE, used, texts, e)) /\ e \in Amounts
    BY <2>1 DEF Amounts
  <2> HIDE DEF e
  <2> QED BY <1>3, <2>4, <2>5, <2>6, TakeKeeps
<1>5. CASE hit # 0
  <2> DEFINE c == Line(r.id, "chunk", 1)
             l == Line(r.id, LastKind(m), size)
             used == {candidates[i] : i \in 1 .. hit}
             w == (IF m = "complete" /\ r.req.stream THEN <<c>> ELSE << >>) \o <<l>>
  <2>1. toWrite' = w /\ served' = Recorded(r.id, Entry(TRUE, used, texts, <<charge>>))
    BY <1>5 DEF HelperServe
  <2>2. charge \in Nat
    <3> DEFINE D == {x \in Cards : Meets(x, r.req)}
    <3>1. candidates \in Seq(D)
      BY PlanIs
    <3> HIDE DEF D, candidates
    <3>2. hit \in 1 .. Len(candidates)
      BY <1>5, <3>1, HitIs
    <3> HIDE DEF hit
    <3>3. chosen \in D
      BY <3>1, <3>2
    <3>4. chosen.cost \in Nat
      BY <3>3 DEF D, Cards
    <3> HIDE DEF chosen
    <3> QED BY <3>4 DEF ChargeFor, Unreported
  <2>3. LastKind(m) \in {"final", "embedding", "ranking"} /\ LastKind(m) # "error" /\ LastKind(m) # "chunk" /\ size \in Nat
    BY <1>1 DEF LastKind
  <2>4. /\ c \in PipeLines /\ c.id = r.id /\ c.kind = "chunk"
        /\ l \in PipeLines /\ l.id = r.id /\ l.kind = LastKind(m)
    <3> DEFINE kind == LastKind(m)
    <3>1. kind \in {"error", "chunk", "final", "model", "registry_end", "embedding", "ranking"}
      BY <2>3
    <3> HIDE DEF kind
    <3>2. /\ Line(r.id, kind, size) \in PipeLines /\ Line(r.id, kind, size).id = r.id /\ Line(r.id, kind, size).kind = kind
          /\ c \in PipeLines /\ c.id = r.id /\ c.kind = "chunk"
      BY <1>2, <2>3, <3>1, LineIs
    <3> QED BY <3>2 DEF kind
  <2> HIDE DEF c, l, used, texts, charge
  <2>5. w \in Seq(PipeLines) /\ w[Len(w)] = l /\ \A k \in DOMAIN w : k = Len(w) \/ w[k] = c
    <3> DEFINE a == IF m = "complete" /\ r.req.stream THEN <<c>> ELSE << >>
               b == <<l>>
    <3>1. a \in Seq(PipeLines) /\ Len(a) \in Nat /\ \A k \in 1 .. Len(a) : a[k] = c
      BY <2>4
    <3>2. b \in Seq(PipeLines) /\ Len(b) = 1 /\ b[1] = l
      BY <2>4
    <3>3. w = a \o b
      OBVIOUS
    <3> HIDE DEF a, b, w
    <3>4. /\ a \o b \in Seq(PipeLines) /\ Len(a \o b) = Len(a) + Len(b)
          /\ \A k \in 1 .. Len(a) + Len(b) : (a \o b)[k] = IF k <= Len(a) THEN a[k] ELSE b[k - Len(a)]
      BY <3>1, <3>2, ConcatProperties
    <3>5. Len(w) = Len(a) + 1 /\ w \in Seq(PipeLines) /\ DOMAIN w = 1 .. (Len(a) + 1)
      BY <3>1, <3>2, <3>3, <3>4
    <3>6. \A k \in 1 .. Len(a) + 1 : w[k] = IF k <= Len(a) THEN a[k] ELSE b[k - Len(a)]
      BY <3>2, <3>3, <3>4
    <3>7. w[Len(a) + 1] = l
      BY <3>1, <3>2, <3>6
    <3>8. \A k \in 1 .. (Len(a) + 1) : k = Len(a) + 1 \/ w[k] = c
      BY <3>1, <3>6
    <3> QED BY <3>5, <3>7, <3>8
  <2> HIDE DEF w
  <2>7. Answers(r, TRUE, w)
    <3> SUFFICES ASSUME NEW k \in DOMAIN w
                 PROVE  /\ w[k].id = r.id /\ w[k].kind # "error"
                        /\ w[k].kind = LastKind(m) => k = Len(w)
      BY DEF Answers
    <3>1. CASE k = Len(w)
      <4>1. w[k] = l
        BY <2>5, <3>1
      <4> QED BY <2>3, <2>4, <3>1, <4>1
    <3>2. CASE w[k] = c
      BY <2>3, <2>4, <3>2
    <3> QED BY <2>5, <3>1, <3>2
  <2>8. toWrite' \in Seq(PipeLines) /\ Answers(Head(toHelper), TRUE, toWrite')
    BY <2>1, <2>5, <2>7
  <2> DEFINE e == <<charge>>
  <2>9. served' = Recorded(Head(toHelper).id, Entry(TRUE, used, texts, e)) /\ e \in Amounts
    BY <2>1, <2>2 DEF Amounts
  <2> HIDE DEF e
  <2> QED BY <1>3, <2>8, <2>9, TakeKeeps
<1> QED BY <1>4, <1>5

\* Every step keeps the pipe in order.
LEMMA PipeStep == PipeInv /\ [NetNext]_netVars => PipeInv'
<1> SUFFICES ASSUME PipeInv, [NetNext]_netVars PROVE PipeInv'
  OBVIOUS
<1>1. CASE UNCHANGED netVars
  BY <1>1 DEF netVars, PipeInv, NetShapes, Used, HistoryIs, IdsAreFresh, PipeIsMine, Unbroken, Mine, Final, AnsweredInStep
<1>2. CASE \E req \in NetRequests, texts \in Batches : \E long \in LineMayExceed(req, texts) :
             (texts = << >> \/ req.modality = "embed") /\ NetCall(req, texts, long)
  <2>1. \A req \in NetRequests, texts \in Batches : LineMayExceed(req, texts) \subseteq BOOLEAN
    <3>1. \A texts : LineExceeds(texts) \in BOOLEAN
      BY DEF LineExceeds
    <3> QED BY <3>1 DEF LineMayExceed
  <2> QED BY <1>2, <2>1, PipeCallKeeps
<1>3. CASE \E healthy \in SUBSET Model, bad \in SUBSET Model,
              outcome \in {"lost", "context", "empty", "cut"}, reported \in Unreported..1, size \in 1..2 :
             HelperServe(healthy, [m \in Model |-> IF m \in bad THEN outcome ELSE "ok"], reported, size)
  BY <1>3, ServeKeeps
<1>4. CASE HelperProbe
  BY <1>4, ProbeKeeps
<1>5. CASE HelperRefuses
  BY <1>5, RefusesKeeps
<1>6. CASE HelperWrite
  BY <1>6, WriteKeeps
<1>7. CASE HelperDies
  BY <1>7, DiesKeeps
<1>8. CASE ClientRead
  BY <1>8, ReadKeeps
<1>9. CASE ClientEof
  BY <1>9, EofKeeps
<1>10. CASE Respawn
  BY <1>10, RespawnKeeps
<1> QED BY <1>1, <1>2, <1>3, <1>4, <1>5, <1>6, <1>7, <1>8, <1>9, <1>10 DEF NetNext

\* Answers stay in step with the calls as long as no call has given up on the
\* pipe, and a batch of texts arrives as it was sent up to the protocol's bounds
\* on lines, batches and texts, for every alphabet, every batch and every number
\* of calls (NetHelper, SpawnedHelper, serve).
THEOREM PipeHolds == NetSpec => []PipeIsFaithful
<1>1. PipeInv => PipeIsFaithful
  <2> SUFFICES ASSUME PipeInv PROVE AnswersInStep /\ BatchSurvivesTheWire
    BY DEF PipeIsFaithful
  <2>1. AnswersInStep
    BY DEF PipeInv, AnsweredInStep, AnswersInStep
  <2>2. ASSUME NEW i \in DOMAIN toHelper PROVE toHelper[i].texts \in Seq(Text)
    <3> DEFINE Q == [id : Nat, req : NetRequests, texts : Batches, long : BOOLEAN]
    <3>1. toHelper \in Seq(Q)
      BY DEF PipeInv, NetShapes
    <3> HIDE DEF Q
    <3>2. toHelper[i] \in Q
      BY <3>1
    <3>3. toHelper[i].texts \in Batches
      BY <3>2 DEF Q
    <3> QED BY <3>3, NetAssumption
  <2>3. BatchSurvivesTheWire
    BY <2>2, BatchArrives DEF BatchSurvivesTheWire
  <2> QED BY <2>1, <2>3
<1> QED BY <1>1, PipeInit, PipeStep, PTL DEF NetSpec

(***************************************************************************)
(* The ledger: sums over the calls, and what was charged for them.         *)
(***************************************************************************)
Total(s) == Scan(Plus, 0, s)

\* A sum with one more term.
LEMMA SumSteps ==
  /\ Total(<< >>) = 0
  /\ \A s \in Seq(Nat) : Total(s) \in Nat
  /\ \A s \in Seq(Nat), x \in Nat : Total(Append(s, x)) = Total(s) + x
<1>1. IsLoop(Plus, Nat, Nat)
  BY DEF IsLoop, Plus
<1> DEFINE z == 0
<1>3. /\ Scan(Plus, z, << >>) = z
      /\ \A s \in Seq(Nat) : Scan(Plus, z, s) \in Nat
      /\ \A s \in Seq(Nat), x \in Nat : Scan(Plus, z, Append(s, x)) = Plus[x][Scan(Plus, z, s)]
  <2> DEFINE N == Nat
  <2>1. z \in N /\ IsLoop(Plus, N, N)
    BY <1>1
  <2> HIDE DEF z, N
  <2>2. /\ Scan(Plus, z, << >>) = z
        /\ \A s \in Seq(N) : Scan(Plus, z, s) \in N
        /\ \A s \in Seq(N), x \in N : Scan(Plus, z, Append(s, x)) = Plus[x][Scan(Plus, z, s)]
    BY <2>1, ScanSteps
  <2> QED BY <2>2 DEF N
<1>4. \A x \in Nat, sum \in Nat : Plus[x][sum] = sum + x
  BY DEF Plus
<1>5. ASSUME NEW s \in Seq(Nat), NEW x \in Nat PROVE Total(Append(s, x)) = Total(s) + x
  BY <1>3, <1>4 DEF Total
<1> QED BY <1>3, <1>5 DEF Total

\* Terms that are all 0.
LEMMA SumOfZeros ==
  ASSUME NEW seq \in Seq(Nat), \A i \in DOMAIN seq : seq[i] = 0
  PROVE  Total(seq) = 0
<1> DEFINE T == {s \in Seq(Nat) : (\A i \in DOMAIN s : s[i] = 0) => Total(s) = 0}
<1>1. << >> \in T
  BY SumSteps
<1>2. ASSUME NEW s \in Seq(Nat), NEW c \in Nat, s \in T PROVE Append(s, c) \in T
  <2> DEFINE t == Append(s, c)
             n == Len(s)
  <2>1. /\ t \in Seq(Nat) /\ n \in Nat /\ DOMAIN s = 1 .. n /\ DOMAIN t = 1 .. (n + 1)
        /\ t[n + 1] = c /\ \A i \in DOMAIN s : t[i] = s[i]
    BY LongerIs
  <2>2. Total(t) = Total(s) + c /\ Total(s) \in Nat
    BY SumSteps
  <2> HIDE DEF t, n
  <2>3. ASSUME \A i \in DOMAIN t : t[i] = 0 PROVE Total(t) = 0
    <3>1. c = 0
      <4>1. n + 1 \in DOMAIN t
        BY <2>1
      <4> QED BY <2>1, <2>3, <4>1
    <3>2. \A i \in DOMAIN s : s[i] = 0
      <4>1. \A i \in DOMAIN s : i \in DOMAIN t
        BY <2>1
      <4> QED BY <2>1, <2>3, <4>1
    <3>3. Total(s) = 0
      BY <1>2, <3>2
    <3> QED BY <2>2, <3>1, <3>3
  <2>4. t \in T
    BY <2>1, <2>3
  <2> QED BY <2>4 DEF t
<1> HIDE DEF T
<1>3. seq \in T
  BY <1>1, <1>2, SeqSet
<1> QED BY <1>3 DEF T

\* One term that was 0.
LEMMA SumUpdate ==
  ASSUME NEW seq \in Seq(Nat), NEW i \in DOMAIN seq, seq[i] = 0, NEW x \in Nat
  PROVE  Total([seq EXCEPT ![i] = x]) = Total(seq) + x
<1> DEFINE T == {s \in Seq(Nat) : \A j \in DOMAIN s : s[j] = 0 => Total([s EXCEPT ![j] = x]) = Total(s) + x}
<1>1. << >> \in T
  OBVIOUS
<1>2. ASSUME NEW s \in Seq(Nat), NEW c \in Nat, s \in T PROVE Append(s, c) \in T
  <2> DEFINE t == Append(s, c)
             n == Len(s)
  <2>1. /\ t \in Seq(Nat) /\ Len(t) = n + 1 /\ n \in Nat /\ DOMAIN s = 1 .. n /\ DOMAIN t = 1 .. (n + 1)
        /\ t[n + 1] = c /\ \A j \in DOMAIN s : t[j] = s[j]
        /\ \A j \in DOMAIN t : j \in DOMAIN s \/ j = n + 1
    BY LongerIs
  <2>2. Total(t) = Total(s) + c /\ Total(s) \in Nat
    BY SumSteps
  <2> HIDE DEF t
  <2>3. ASSUME NEW j \in DOMAIN t, t[j] = 0 PROVE Total([t EXCEPT ![j] = x]) = Total(t) + x
    <3> DEFINE u == [t EXCEPT ![j] = x]
    <3>1. u \in Seq(Nat) /\ Len(u) = n + 1
      BY <2>1
    <3>2. CASE j \in DOMAIN s
      <4> DEFINE v == [s EXCEPT ![j] = x]
                 w == Append(v, c)
      <4>1. v \in Seq(Nat) /\ Len(v) = n
        BY <2>1, <3>2
      <4>2. Total(v) = Total(s) + x
        BY <1>2, <2>1, <2>3, <3>2
      <4>3. \A k \in 1 .. n : v[k] = IF k = j THEN x ELSE s[k]
        BY <2>1
      <4> HIDE DEF v, T
      <4>4. /\ w \in Seq(Nat) /\ Len(w) = n + 1 /\ w[n + 1] = c /\ \A k \in DOMAIN v : w[k] = v[k]
        BY <4>1, LongerIs
      <4>5. Total(w) = Total(v) + c
        BY <4>1, SumSteps
      <4> HIDE DEF w
      <4>6. ASSUME NEW k \in 1 .. (n + 1) PROVE u[k] = w[k]
        <5>1. u[k] = IF k = j THEN x ELSE t[k]
          BY <2>1
        <5>2. CASE k \in 1 .. n
          <6>1. w[k] = v[k] /\ t[k] = s[k]
            <7>1. DOMAIN v = 1 .. n
              BY <4>1
            <7> QED BY <2>1, <4>4, <5>2, <7>1
          <6>2. v[k] = IF k = j THEN x ELSE s[k]
            BY <4>3, <5>2
          <6> HIDE DEF u
          <6> QED BY Zenon, <5>1, <6>1, <6>2
        <5>3. CASE k = n + 1
          BY <2>1, <3>2, <4>4, <5>1, <5>3
        <5> QED BY <2>1, <5>2, <5>3
      <4> HIDE DEF u
      <4>7. u = w
        BY <3>1, <4>4, <4>6, SeqEqual
      <4>8. Total(u) = Total(t) + x
        BY <2>2, <4>2, <4>5, <4>7
      <4> QED BY <4>8 DEF u
    <3>3. CASE j = n + 1
      <4> DEFINE w == Append(s, x)
      <4>1. /\ w \in Seq(Nat) /\ Len(w) = n + 1 /\ w[n + 1] = x /\ \A k \in DOMAIN s : w[k] = s[k]
        BY LongerIs
      <4>2. Total(w) = Total(s) + x /\ c = 0
        BY <2>1, <2>3, <3>3, SumSteps
      <4> HIDE DEF w
      <4>3. ASSUME NEW k \in 1 .. (n + 1) PROVE u[k] = w[k]
        <5>1. u[k] = IF k = j THEN x ELSE t[k]
          BY <2>1
        <5>2. CASE k \in 1 .. n
          <6>1. k # j
            BY <2>1, <3>3, <5>2
          <6> QED BY <2>1, <4>1, <5>1, <5>2, <6>1
        <5>3. CASE k = n + 1
          BY <3>3, <4>1, <5>1, <5>3
        <5> QED BY <2>1, <5>2, <5>3
      <4> HIDE DEF u
      <4>4. u = w
        BY <3>1, <4>1, <4>3, SeqEqual
      <4>5. Total(u) = Total(t) + x
        BY <2>2, <4>2, <4>4
      <4> QED BY <4>5 DEF u
    <3> QED BY <2>1, <3>2, <3>3
  <2>4. t \in T
    BY <2>1, <2>3
  <2> QED BY <2>4 DEF t
<1> HIDE DEF T
<1>3. seq \in T
  BY <1>1, <1>2, SeqSet
<1> QED BY <1>3 DEF T

\* The requests that were charged.
Charged == {i \in DOMAIN served : served[i].charged # << >>}

BooksBalance ==
  /\ ledger.requests = Cardinality(Charged)
  /\ ledger.cost = Total(Charges)

TriedMeet ==
  call # NoCall /\ call.id \in DOMAIN served => \A c \in served[call.id].used : Meets(c, call.req)

\* What was charged are numbers, and those charged are finitely many.
LEMMA ChargesAre ==
  ASSUME PipeInv
  PROVE  Charges \in Seq(Nat) /\ DOMAIN Charges = 1 .. MaxCalls /\ IsFiniteSet(Charged) /\ MaxCalls \in Nat
<1>1. MaxCalls \in Nat /\ Used <= MaxCalls
  BY NetAssumption DEF PipeInv, NetShapes
<1>2. \A i \in DOMAIN served : served[i].charged # << >> => served[i].charged[1] \in Nat
  BY DEF PipeInv, HistoryIs, Amounts
<1> DEFINE F(i) == IF i \in DOMAIN served /\ served[i].charged # << >> THEN served[i].charged[1] ELSE 0
<1>3. \A i \in 1 .. MaxCalls : F(i) \in Nat
  BY <1>2
<1>4. Charges = [i \in 1 .. MaxCalls |-> F(i)]
  BY DEF Charges
<1> HIDE DEF F
<1>5. Charges \in Seq(Nat) /\ DOMAIN Charges = 1 .. MaxCalls
  BY <1>1, <1>3, <1>4
<1>6. Used \in Nat
  BY DEF PipeInv, NetShapes, Used
<1>7. Charged \subseteq 1 .. Used
  BY DEF PipeInv, HistoryIs, Charged
<1>8. IsFiniteSet(1 .. Used)
  BY <1>6, FS_Interval
<1>9. IsFiniteSet(Charged)
  BY <1>7, <1>8, FS_Subset
<1> QED BY <1>1, <1>5, <1>9

\* What a request that is not charged leaves in the books.
LEMMA FreeKeeps ==
  ASSUME PipeInv, BooksBalance, TriedMeet, toHelper # << >>,
         NEW ok, NEW used, NEW texts,
         served' = Recorded(Head(toHelper).id, Entry(ok, used, texts, << >>)),
         UNCHANGED <<call, ledger>>, \A c \in used : Meets(c, Head(toHelper).req)
  PROVE  BooksBalance' /\ TriedMeet'
<1> DEFINE r == Head(toHelper)
           d == r.id
           e == Entry(ok, used, texts, << >>)
<1>1. /\ d \notin DOMAIN served /\ (call # NoCall /\ d = call.id => r.req = call.req)
  <2> DEFINE Q == [id : Nat, req : NetRequests, texts : Batches, long : BOOLEAN]
  <2>1. toHelper \in Seq(Q)
    BY DEF PipeInv, NetShapes
  <2> HIDE DEF Q
  <2>2. r = toHelper[1] /\ 1 \in DOMAIN toHelper
    BY <2>1, RestIs
  <2> QED BY <2>2 DEF PipeInv, IdsAreFresh
<1>2. e.charged = << >> /\ e.used = used
  BY DEF Entry
<1>3. served' = Recorded(d, e)
  OBVIOUS
<1> HIDE DEF d, e, r
<1>4. /\ DOMAIN served' = DOMAIN served \cup {d} /\ served'[d] = e
      /\ \A i \in DOMAIN served : served'[i] = served[i] /\ i # d
  BY <1>1, <1>3 DEF Recorded
<1>5. Charged' = Charged
  BY <1>2, <1>4 DEF Charged
<1>6. Charges' = Charges
  <2> DEFINE F(i) == IF i \in DOMAIN served /\ served[i].charged # << >> THEN served[i].charged[1] ELSE 0
             G(i) == IF i \in DOMAIN served' /\ served'[i].charged # << >> THEN served'[i].charged[1] ELSE 0
  <2>1. \A i : F(i) = G(i)
    BY <1>2, <1>4
  <2>2. Charges = [i \in 1 .. MaxCalls |-> F(i)] /\ Charges' = [i \in 1 .. MaxCalls |-> G(i)]
    BY DEF Charges
  <2> HIDE DEF F, G
  <2> QED BY <2>1, <2>2
<1>7. BooksBalance'
  BY <1>5, <1>6 DEF BooksBalance
<1>8. TriedMeet'
  <2>1. CASE call # NoCall /\ call.id = d
    BY <1>1, <1>2, <1>4, <2>1 DEF TriedMeet, r
  <2>2. CASE call = NoCall \/ call.id # d
    BY <1>4, <2>2 DEF TriedMeet
  <2> QED BY <2>1, <2>2
<1> QED BY <1>7, <1>8

\* A request that is charged goes into both books.
LEMMA PaidKeeps ==
  ASSUME PipeInv, BooksBalance, TriedMeet, toHelper # << >>,
         NEW ok, NEW used, NEW texts, NEW x \in Nat, NEW fallbacks,
         served' = Recorded(Head(toHelper).id, Entry(ok, used, texts, <<x>>)),
         UNCHANGED call, ledger' = Account(x, fallbacks), \A c \in used : Meets(c, Head(toHelper).req)
  PROVE  BooksBalance' /\ TriedMeet'
<1> DEFINE r == Head(toHelper)
           d == r.id
           e == Entry(ok, used, texts, <<x>>)
<1>1. /\ d \notin DOMAIN served /\ (call # NoCall /\ d = call.id => r.req = call.req) /\ d \in 1 .. MaxCalls
  <2> DEFINE Q == [id : Nat, req : NetRequests, texts : Batches, long : BOOLEAN]
  <2>1. toHelper \in Seq(Q)
    BY DEF PipeInv, NetShapes
  <2> HIDE DEF Q
  <2>2. r = toHelper[1] /\ 1 \in DOMAIN toHelper
    BY <2>1, RestIs
  <2>3. d \in 1 .. Used /\ Used <= MaxCalls /\ MaxCalls \in Nat /\ Used \in Nat
    BY <2>2, NetAssumption DEF PipeInv, IdsAreFresh, NetShapes, Used
  <2>4. d \in 1 .. MaxCalls
    <3> HIDE DEF d
    <3> QED BY <2>3
  <2> QED BY <2>2, <2>4 DEF PipeInv, IdsAreFresh
<1>2. e.charged = <<x>> /\ e.used = used /\ <<x>> # << >> /\ <<x>>[1] = x
  BY DEF Entry
<1>3. served' = Recorded(d, e)
  OBVIOUS
<1> HIDE DEF d, e, r
<1>4. /\ DOMAIN served' = DOMAIN served \cup {d} /\ served'[d] = e
      /\ \A i \in DOMAIN served : served'[i] = served[i] /\ i # d
  BY <1>1, <1>3 DEF Recorded
<1>5. Charged' = Charged \cup {d} /\ d \notin Charged
  BY <1>1, <1>2, <1>4 DEF Charged
<1>6. Charges \in Seq(Nat) /\ DOMAIN Charges = 1 .. MaxCalls /\ IsFiniteSet(Charged)
  BY ChargesAre
<1>7. Cardinality(Charged') = Cardinality(Charged) + 1
  <2> DEFINE C == Charged
  <2>1. IsFiniteSet(C) /\ d \notin C /\ Charged' = C \cup {d}
    BY <1>5, <1>6
  <2> HIDE DEF C
  <2>2. Cardinality(C \cup {d}) = Cardinality(C) + 1
    BY <2>1, FS_AddElement
  <2> QED BY <2>1, <2>2 DEF C
<1>8. Charges' = [Charges EXCEPT ![d] = x] /\ Charges[d] = 0
  <2> DEFINE F(i) == IF i \in DOMAIN served /\ served[i].charged # << >> THEN served[i].charged[1] ELSE 0
             G(i) == IF i \in DOMAIN served' /\ served'[i].charged # << >> THEN served'[i].charged[1] ELSE 0
  <2>1. \A i : i # d => F(i) = G(i)
    BY <1>4
  <2>2. G(d) = x
    BY <1>2, <1>4
  <2>3. F(d) = 0
    BY <1>1
  <2>4. Charges = [i \in 1 .. MaxCalls |-> F(i)] /\ Charges' = [i \in 1 .. MaxCalls |-> G(i)]
    BY DEF Charges
  <2> HIDE DEF F, G
  <2> QED BY <1>1, <2>1, <2>2, <2>3, <2>4
<1>9. Total(Charges') = Total(Charges) + x
  <2> DEFINE C == Charges
  <2>1. C \in Seq(Nat) /\ d \in DOMAIN C /\ C[d] = 0 /\ Charges' = [C EXCEPT ![d] = x]
    BY <1>1, <1>6, <1>8
  <2> HIDE DEF C
  <2>2. Total([C EXCEPT ![d] = x]) = Total(C) + x
    BY <2>1, SumUpdate
  <2> QED BY <2>1, <2>2 DEF C
<1>10. BooksBalance'
  <2>1. ledger'.requests = ledger.requests + 1 /\ ledger'.cost = ledger.cost + x
    BY DEF Account
  <2> QED BY <1>7, <1>9, <2>1 DEF BooksBalance
<1>11. TriedMeet'
  <2>1. CASE call # NoCall /\ call.id = d
    BY <1>1, <1>2, <1>4, <2>1 DEF TriedMeet, r
  <2>2. CASE call = NoCall \/ call.id # d
    BY <1>4, <2>2 DEF TriedMeet
  <2> QED BY <2>1, <2>2
<1> QED BY <1>10, <1>11

\* What the engine serves is tried on what meets the request, and charged once.
LEMMA ServeBooks ==
  ASSUME NEW healthy, NEW outcomes, NEW reported \in Unreported .. 1, NEW size,
         PipeInv, BooksBalance, TriedMeet, HelperServe(healthy, outcomes, reported, size)
  PROVE  BooksBalance' /\ TriedMeet'
<1> DEFINE r == Head(toHelper)
           m == r.req.modality
           candidates == Plan(Configs, r.req, healthy)
           hit == FirstThatSucceeds(candidates, outcomes, m)
           texts == OverTheWire(r.texts)
           chosen == candidates[hit]
           charge == ChargeFor(chosen, m, outcomes[chosen.model], reported)
           D == {x \in Cards : Meets(x, r.req)}
<1>1. toHelper # << >> /\ UNCHANGED call
  BY DEF HelperServe
<1>2. candidates \in Seq(D)
  BY PlanIs
<1>3. CASE hit = 0
  <2> DEFINE used == ToSet(candidates)
  <2>1. served' = Recorded(r.id, Entry(FALSE, used, texts, << >>)) /\ UNCHANGED ledger
    BY <1>3 DEF HelperServe
  <2>2. \A c \in used : Meets(c, r.req)
    <3> HIDE DEF candidates, D
    <3>1. \A c \in used : c \in D
      BY <1>2 DEF ToSet
    <3> HIDE DEF used
    <3> QED BY <3>1 DEF D
  <2> HIDE DEF used, texts
  <2>3. UNCHANGED <<call, ledger>>
    BY <1>1, <2>1
  <2> QED BY <1>1, <2>1, <2>2, <2>3, FreeKeeps
<1>4. CASE hit # 0
  <2> DEFINE used == {candidates[i] : i \in 1 .. hit}
  <2>1. /\ served' = Recorded(r.id, Entry(TRUE, used, texts, <<charge>>))
        /\ ledger' = Account(charge, hit - 1)
    BY <1>4 DEF HelperServe
  <2>2. hit \in 1 .. Len(candidates)
    <3> HIDE DEF candidates, D
    <3> QED BY <1>2, <1>4, HitIs
  <2>3. chosen \in D /\ \A c \in used : c \in D
    <3> HIDE DEF candidates, D, hit
    <3>1. Len(candidates) \in Nat /\ \A i \in 1 .. Len(candidates) : candidates[i] \in D
      BY <1>2
    <3>2. \A i \in 1 .. hit : i \in 1 .. Len(candidates)
      BY <2>2, <3>1
    <3> QED BY <2>2, <3>1, <3>2
  <2>4. charge \in Nat
    <3> HIDE DEF candidates, hit
    <3>1. chosen.cost \in Nat
      BY <2>3 DEF Cards
    <3> HIDE DEF chosen, D
    <3> QED BY <3>1 DEF ChargeFor, Unreported
  <2>5. \A c \in used : Meets(c, r.req)
    <3> HIDE DEF used, candidates, hit
    <3> QED BY <2>3
  <2> HIDE DEF used, texts, charge, hit
  <2> QED BY <1>1, <2>1, <2>4, <2>5, PaidKeeps
<1> QED BY <1>3, <1>4

\* Every step keeps the books.
LEMMA BooksStep == PipeInv /\ BooksBalance /\ TriedMeet /\ [NetNext]_netVars => BooksBalance' /\ TriedMeet'
<1> SUFFICES ASSUME PipeInv, BooksBalance, TriedMeet, [NetNext]_netVars PROVE BooksBalance' /\ TriedMeet'
  OBVIOUS
<1>1. ASSUME UNCHANGED <<served, ledger>> PROVE BooksBalance'
  <2>1. Charged' = Charged /\ Charges' = Charges
    BY <1>1 DEF Charged, Charges
  <2> QED BY <1>1, <2>1 DEF BooksBalance
<1>2. CASE UNCHANGED netVars
  BY <1>1, <1>2 DEF netVars, TriedMeet
<1>3. ASSUME NEW req \in NetRequests, NEW texts \in Batches, NEW long, NetCall(req, texts, long) PROVE BooksBalance' /\ TriedMeet'
  <2>1. UNCHANGED <<served, ledger>> /\ call = NoCall
    BY <1>3 DEF NetCall
  <2>2. CASE helper = "down"
    BY <1>1, <1>3, <2>1, <2>2 DEF NetCall, TriedMeet
  <2>3. CASE helper # "down"
    <3>1. call'.id = Len(netResults) + 1
      BY <1>3, <2>3 DEF NetCall
    <3>2. DOMAIN served \subseteq 1 .. Len(netResults) /\ Len(netResults) \in Nat
      BY <2>1 DEF PipeInv, HistoryIs, NetShapes, Used
    <3>3. call'.id \notin DOMAIN served'
      BY <2>1, <3>1, <3>2
    <3> QED BY <1>1, <2>1, <3>3 DEF TriedMeet
  <2> QED BY <2>2, <2>3
<1>4. CASE \E healthy \in SUBSET Model, bad \in SUBSET Model,
              outcome \in {"lost", "context", "empty", "cut"}, reported \in Unreported..1, size \in 1..2 :
             HelperServe(healthy, [m \in Model |-> IF m \in bad THEN outcome ELSE "ok"], reported, size)
  BY <1>4, ServeBooks
<1>5. CASE HelperProbe
  <2> DEFINE used == {}
             r == Head(toHelper)
  <2>1. /\ toHelper # << >> /\ UNCHANGED <<call, ledger>>
        /\ served' = Recorded(r.id, Entry(TRUE, used, r.texts, << >>)) /\ \A c \in used : Meets(c, r.req)
    BY <1>5 DEF HelperProbe
  <2> HIDE DEF used
  <2> QED BY <2>1, FreeKeeps
<1>6. CASE HelperRefuses
  <2> DEFINE used == {}
             r == Head(toHelper)
             texts == << >>
  <2>1. /\ toHelper # << >> /\ UNCHANGED <<call, ledger>>
        /\ served' = Recorded(r.id, Entry(FALSE, used, texts, << >>)) /\ \A c \in used : Meets(c, r.req)
    BY <1>6 DEF HelperRefuses
  <2> HIDE DEF used, texts
  <2> QED BY <2>1, FreeKeeps
<1>7. CASE HelperWrite \/ HelperDies
  BY <1>1, <1>7 DEF HelperWrite, HelperDies, TriedMeet
<1>8. CASE ClientEof
  BY <1>1, <1>8 DEF ClientEof, Return, TriedMeet
<1>9. CASE ClientRead
  <2>1. UNCHANGED <<served, ledger>> /\ call # NoCall
    BY <1>9 DEF ClientRead
  <2>2. call' = NoCall \/ call' = [call EXCEPT !.streamed = @ + 1]
    BY <1>9 DEF ClientRead, Return
  <2>3. call \in [id : Nat, req : NetRequests, streamed : Nat]
    BY <2>1 DEF PipeInv, NetShapes
  <2>4. call' = NoCall \/ (call'.id = call.id /\ call'.req = call.req)
    BY <2>2, <2>3
  <2> QED BY <1>1, <2>1, <2>4 DEF TriedMeet
<1>10. CASE Respawn
  <2>1. /\ call' = NoCall /\ ledger' = EmptyLedger
        /\ served' = [i \in DOMAIN served |-> [served[i] EXCEPT !.charged = << >>]]
    BY <1>10 DEF Respawn
  <2>2. \A i \in DOMAIN served' : served'[i].charged = << >>
    <3> TAKE i \in DOMAIN served'
    <3>1. i \in DOMAIN served /\ served'[i] = [served[i] EXCEPT !.charged = << >>]
      BY <2>1
    <3>2. "charged" \in DOMAIN served[i]
      <4>1. served[i] = Entry(served[i].ok, served[i].used, served[i].texts, served[i].charged)
        BY <3>1 DEF PipeInv, HistoryIs
      <4>2. \A ok, used, texts, charged : "charged" \in DOMAIN Entry(ok, used, texts, charged)
        BY DEF Entry
      <4> QED BY Zenon, <4>1, <4>2
    <3> QED BY <3>1, <3>2
  <2>3. Charged' = {}
    BY <2>2 DEF Charged
  <2>4. Charges' \in Seq(Nat) /\ \A i \in DOMAIN Charges' : Charges'[i] = 0
    <3>1. Charges' = [i \in 1 .. MaxCalls |-> 0]
      BY <2>2 DEF Charges
    <3>2. MaxCalls \in Nat
      BY NetAssumption
    <3> QED BY <3>1, <3>2
  <2>5. Total(Charges') = 0
    <3> DEFINE C == Charges'
    <3>1. C \in Seq(Nat) /\ \A i \in DOMAIN C : C[i] = 0
      BY <2>4
    <3> HIDE DEF C
    <3>2. Total(C) = 0
      BY <3>1, SumOfZeros
    <3> QED BY <3>2 DEF C
  <2>6. BooksBalance'
    BY <2>1, <2>3, <2>5, FS_EmptySet DEF BooksBalance, EmptyLedger
  <2> QED BY <2>1, <2>6 DEF TriedMeet
<1> QED BY <1>2, <1>3, <1>4, <1>5, <1>6, <1>7, <1>8, <1>9, <1>10 DEF NetNext

\* Nothing is charged at first.
LEMMA BooksInit == NetInit => BooksBalance /\ TriedMeet
<1> SUFFICES ASSUME NetInit PROVE BooksBalance /\ TriedMeet
  OBVIOUS
<1>1. call = NoCall /\ ledger = EmptyLedger /\ DOMAIN served = {}
  BY DEF NetInit
<1>2. Charged = {}
  BY <1>1 DEF Charged
<1>3. Charges = [i \in 1 .. MaxCalls |-> 0] /\ MaxCalls \in Nat
  BY <1>1, NetAssumption DEF Charges
<1>4. Total(Charges) = 0
  <2> DEFINE C == Charges
  <2>1. C \in Seq(Nat) /\ \A i \in DOMAIN C : C[i] = 0
    BY <1>3
  <2> HIDE DEF C
  <2>2. Total(C) = 0
    BY <2>1, SumOfZeros
  <2> QED BY <2>2 DEF C
<1> QED BY <1>1, <1>2, <1>4, FS_EmptySet DEF BooksBalance, EmptyLedger, TriedMeet

\* The ledger of the helper is exactly what it answered and charged since it
\* started, and no request is tried on a model beyond its ceiling, nor on a
\* remote one when it asks for a local one, for every registry, every request
\* and every number of calls (complete_inner, account, accumulate).
THEOREM LedgerHolds == NetSpec => []RoutedAndCharged
<1>1. BooksBalance /\ TriedMeet => RoutedAndCharged
  BY DEF BooksBalance, TriedMeet, RoutedAndCharged, Total, Charged, Meets
<1> QED BY <1>1, PipeInit, PipeStep, BooksInit, BooksStep, PTL DEF NetSpec
=============================================================================
