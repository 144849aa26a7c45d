----------------------------- MODULE WorkProofs -----------------------------
(***************************************************************************)
(* What the work lanes guarantee.  The command line, for any number of     *)
(* processes killed at any step, carries out the abstract promise          *)
(* Evidence.  The multi-agent lane, for any agents, changes, budgets and   *)
(* bounds, makes a task ready only through the verifier and every reviewer *)
(* it requires, and its race and improvement cycles keep to their limits.  *)
(* A command runs only as confined as it asked to be, whatever it and its  *)
(* descendants do with the signals and pipes of the run.  Of all that can  *)
(* be presented in place of a chain of receipts only the chain verifies.   *)
(* The planner calls a plan strong, a walk whole and a bundle sufficient   *)
(* only when they are.                                                     *)
(***************************************************************************)
EXTENDS Nano, Fleet, Planner, Confined, FiniteSetTheorems, SequenceTheorems, WellFoundedInduction, TLAPS

-----------------------------------------------------------------------------
(* The logs of a run.                                                      *)

FrameKinds ==
  {"TaskCreated", "JobQueued", "JobLeased", "TaskFailed", "PatchProposed",
   "ToolCallStarted", "ToolCallCompleted", "PatchVerified", "TaskCompleted",
   "CommandCompleted", "PatchRejected"}
FrameSet == [seq : Nat, kind : FrameKinds]

\* No tool call is completed in the log, so that it holds no receipt.
NoCall(l) == \A i \in DOMAIN l : l[i].kind # "ToolCallCompleted"

Early == {"parse", "key", "createkey", "writekey", "worktree", "patch", "verify"}
Steps == Early \union {"persist", "complete", "remove", "done", "dead"}

\* How far a run has come, and the log it keeps and has left.
Recorded(p) ==
  /\ npc[p] \in Steps /\ exit[p] \in {-1, 0, 1, 2}
  /\ exit[p] # -1 <=> npc[p] = "done"
  /\ nlog[p] \in Seq(FrameSet)
  /\ npc[p] \in Early => NoCall(nlog[p])
  /\ npc[p] = "persist" => JoinedTo(nlog[p], 6)
  /\ npc[p] \in Early \union {"persist", "remove"} => NoCall(nfile[p])
  /\ npc[p] = "complete" \/ exit[p] = 0 => JoinedTo(nfile[p], 6)
  /\ exit[p] \in {1, 2} => NoCall(nfile[p])
  /\ NoCall(nfile[p]) \/ JoinedTo(nfile[p], 6)
  /\ audits[p] # "bad"

\* A receipt is made with the key that is on disk for good.
Keyed(p) ==
  /\ npc[p] \in {"worktree", "patch", "verify", "persist", "complete", "remove"}
       => keyfile = "full"
  /\ JoinedTo(nfile[p], 6) => keyfile = "full"

\* A run that has the tree to itself: what it finds, names and verifies.
Alone(p) ==
  ~ reused[p] =>
    /\ npc[p] = "patch" => tree = <<{}>>
    /\ npc[p] = "verify" => tree # << >> /\ patch[p] = tree
    /\ npc[p] \in {"persist", "complete"} \/ exit[p] = 0 => patch[p] = verified[p]

\* Two runs that work at once both know of it.
Shared == \A p, q \in Proc : p # q /\ Holding(p) /\ Holding(q) => reused[p]

\* One entry for every process.
Shaped ==
  /\ npc = [p \in Proc |-> npc[p]] /\ exit = [p \in Proc |-> exit[p]]
  /\ nlog = [p \in Proc |-> nlog[p]] /\ nfile = [p \in Proc |-> nfile[p]]
  /\ patch = [p \in Proc |-> patch[p]] /\ verified = [p \in Proc |-> verified[p]]
  /\ reused \in [Proc -> BOOLEAN] /\ worker \in [Proc -> BOOLEAN]
  /\ audits = [p \in Proc |-> audits[p]]

\* The inductive invariant.
NanoInv ==
  /\ Shaped
  /\ \A p \in Proc : Recorded(p) /\ Keyed(p) /\ Alone(p)
  /\ Shared

\* A frame at the end of a log.
LEMMA Appending ==
  ASSUME NEW l \in Seq(FrameSet), NEW fs \in Seq(FrameSet)
  PROVE  /\ l \o fs \in Seq(FrameSet)
         /\ NoCall(l) /\ NoCall(fs) => NoCall(l \o fs)
         /\ JoinedTo(fs, 6) => JoinedTo(l \o fs, 6)
<1>1. l \o fs \in Seq(FrameSet)
  OBVIOUS
<1>2. /\ Len(l \o fs) = Len(l) + Len(fs)
      /\ DOMAIN (l \o fs) = 1 .. Len(l) + Len(fs)
      /\ DOMAIN l = 1 .. Len(l) /\ DOMAIN fs = 1 .. Len(fs)
      /\ Len(l) \in Nat /\ Len(fs) \in Nat
  OBVIOUS
<1>3. \A i \in 1 .. Len(l) + Len(fs) :
        (l \o fs)[i] = IF i <= Len(l) THEN l[i] ELSE fs[i - Len(l)]
  OBVIOUS
<1>4. NoCall(l) /\ NoCall(fs) => NoCall(l \o fs)
  BY <1>2, <1>3 DEF NoCall
<1>5. ASSUME NEW i \in DOMAIN fs, fs[i] = Frame(6, "ToolCallCompleted")
      PROVE  JoinedTo(l \o fs, 6)
  <2>1. Len(l) + i \in DOMAIN (l \o fs) /\ (l \o fs)[Len(l) + i] = fs[i]
    BY <1>2, <1>3
  <2> QED
    BY <1>5, <2>1 DEF JoinedTo
<1> QED
  BY <1>1, <1>4, <1>5 DEF JoinedTo

\* The frames the run appends.
LEMMA Frames ==
  /\ \A n \in Nat, k \in FrameKinds : <<Frame(n, k)>> \in Seq(FrameSet)
  /\ \A n \in Nat, k \in FrameKinds \ {"ToolCallCompleted"} : NoCall(<<Frame(n, k)>>)
  /\ <<Frame(1, "TaskCreated"), Frame(2, "JobQueued")>> \in Seq(FrameSet)
  /\ NoCall(<<Frame(1, "TaskCreated"), Frame(2, "JobQueued")>>)
  /\ <<Frame(4, "PatchProposed"), Frame(5, "ToolCallStarted")>> \in Seq(FrameSet)
  /\ NoCall(<<Frame(4, "PatchProposed"), Frame(5, "ToolCallStarted")>>)
  /\ <<Frame(6, "ToolCallCompleted"), Frame(7, "PatchVerified"), Frame(8, "TaskCompleted")>>
       \in Seq(FrameSet)
  /\ JoinedTo(<<Frame(6, "ToolCallCompleted"), Frame(7, "PatchVerified"), Frame(8, "TaskCompleted")>>, 6)
  /\ <<Frame(6, "CommandCompleted"), Frame(7, "PatchRejected"), Frame(8, "TaskFailed")>>
       \in Seq(FrameSet)
  /\ NoCall(<<Frame(6, "CommandCompleted"), Frame(7, "PatchRejected"), Frame(8, "TaskFailed")>>)
  /\ << >> \in Seq(FrameSet) /\ NoCall(<< >>)
<1> DEFINE three == <<Frame(6, "ToolCallCompleted"), Frame(7, "PatchVerified"), Frame(8, "TaskCompleted")>>
           failed == <<Frame(6, "CommandCompleted"), Frame(7, "PatchRejected"), Frame(8, "TaskFailed")>>
<1>1. \A n \in Nat, k \in FrameKinds : Frame(n, k) \in FrameSet /\ Frame(n, k).kind = k
  BY DEF Frame, FrameSet
<1>2. /\ Frame(1, "TaskCreated") \in FrameSet /\ Frame(2, "JobQueued") \in FrameSet
      /\ Frame(4, "PatchProposed") \in FrameSet /\ Frame(5, "ToolCallStarted") \in FrameSet
      /\ Frame(6, "ToolCallCompleted") \in FrameSet /\ Frame(7, "PatchVerified") \in FrameSet
      /\ Frame(8, "TaskCompleted") \in FrameSet
      /\ Frame(6, "CommandCompleted") \in FrameSet /\ Frame(7, "PatchRejected") \in FrameSet
      /\ Frame(8, "TaskFailed") \in FrameSet
  BY <1>1 DEF FrameKinds
<1>3. /\ Frame(1, "TaskCreated").kind = "TaskCreated" /\ Frame(2, "JobQueued").kind = "JobQueued"
      /\ Frame(4, "PatchProposed").kind = "PatchProposed"
      /\ Frame(5, "ToolCallStarted").kind = "ToolCallStarted"
  BY DEF Frame
<1>4. three[1] = Frame(6, "ToolCallCompleted") /\ 1 \in DOMAIN three
  OBVIOUS
<1>5. JoinedTo(three, 6)
  BY <1>4 DEF JoinedTo
<1>6. three \in Seq(FrameSet)
  BY <1>2
<1>7. failed \in Seq(FrameSet) /\ NoCall(failed)
  <2>1. /\ Frame(6, "CommandCompleted").kind = "CommandCompleted"
        /\ Frame(7, "PatchRejected").kind = "PatchRejected" /\ Frame(8, "TaskFailed").kind = "TaskFailed"
    BY DEF Frame
  <2> QED BY <1>2, <2>1 DEF NoCall
<1> HIDE DEF three, failed
<1>8. /\ <<Frame(4, "PatchProposed"), Frame(5, "ToolCallStarted")>> \in Seq(FrameSet)
      /\ NoCall(<<Frame(4, "PatchProposed"), Frame(5, "ToolCallStarted")>>)
      /\ <<Frame(1, "TaskCreated"), Frame(2, "JobQueued")>> \in Seq(FrameSet)
      /\ NoCall(<<Frame(1, "TaskCreated"), Frame(2, "JobQueued")>>)
  BY <1>2, <1>3 DEF NoCall
<1>9. /\ \A n \in Nat, k \in FrameKinds : <<Frame(n, k)>> \in Seq(FrameSet)
      /\ \A n \in Nat, k \in FrameKinds \ {"ToolCallCompleted"} : NoCall(<<Frame(n, k)>>)
      /\ << >> \in Seq(FrameSet) /\ NoCall(<< >>)
  BY <1>1 DEF NoCall
<1> QED
  BY <1>5, <1>6, <1>7, <1>8, <1>9 DEF three, failed

\* A receipt is a completed call.
LEMMA JoinedIsACall ==
  ASSUME NEW l, JoinedTo(l, 6)
  PROVE  ~ NoCall(l) /\ l # << >>
BY DEF JoinedTo, NoCall, Frame

-----------------------------------------------------------------------------
(* Steps.                                                                  *)

\* What a step of p leaves to another process q.
Spares(q) ==
  /\ npc'[q] = npc[q] /\ exit'[q] = exit[q] /\ nlog'[q] = nlog[q] /\ nfile'[q] = nfile[q]
  /\ patch'[q] = patch[q] /\ verified'[q] = verified[q] /\ audits'[q] = audits[q]
  /\ reused[q] => reused'[q]
  /\ Holding(q) /\ ~ reused'[q] => tree' = tree

\* p comes to hold a tree only in the knowledge of all who hold it.
Enters(p) ==
  Holding(p)' => \/ Holding(p) /\ (reused[p] => reused'[p])
                 \/ \A q \in Proc \ {p} : Holding(q) => reused'[p] /\ reused'[q]

\* A step of one process keeps the invariant when it keeps it for that one.
LEMMA OthersStand ==
  ASSUME NanoInv, NEW p \in Proc, Shaped', \A q \in Proc \ {p} : Spares(q),
         keyfile = "full" => keyfile' = "full",
         Enters(p), Recorded(p)', Keyed(p)', Alone(p)'
  PROVE  NanoInv'
<1>1. ASSUME NEW q \in Proc \ {p}
      PROVE  Recorded(q)' /\ Keyed(q)' /\ Alone(q)'
  <2>1. Recorded(q) /\ Keyed(q) /\ Alone(q) /\ Spares(q)
    BY DEF NanoInv
  <2>2. Recorded(q)'
    BY <2>1 DEF Recorded, Spares
  <2>3. Keyed(q)'
    BY <2>1 DEF Keyed, Spares
  <2>4. Alone(q)'
    BY <2>1 DEF Alone, Spares, Holding
  <2> QED
    BY <2>2, <2>3, <2>4
<1>2. Shared'
  <2> SUFFICES ASSUME NEW a \in Proc, NEW b \in Proc, a # b, Holding(a)', Holding(b)'
               PROVE  reused'[a]
    BY DEF Shared
  <2>1. \A q \in Proc \ {p} : (Holding(q)' <=> Holding(q)) /\ (reused[q] => reused'[q])
    BY DEF Spares, Holding
  <2>2. \A q \in Proc : q # a /\ Holding(q) /\ Holding(a) => reused[a]
    BY DEF NanoInv, Shared
  <2>3. CASE a = p
    BY <2>1, <2>2, <2>3 DEF Enters
  <2>4. CASE b = p
    BY <2>1, <2>2, <2>4 DEF Enters
  <2>5. CASE a # p /\ b # p
    BY <2>1, <2>2, <2>5
  <2> QED
    BY <2>3, <2>4, <2>5
<1> QED
  BY <1>1, <1>2 DEF NanoInv

\* Initially.
LEMMA NanoInitially == NanoInit => NanoInv
<1> SUFFICES ASSUME NanoInit PROVE NanoInv
  OBVIOUS
<1>1. Shaped
  BY DEF NanoInit, Shaped
<1>2. ASSUME NEW p \in Proc
      PROVE  Recorded(p) /\ Keyed(p) /\ Alone(p) /\ ~ Holding(p)
  <2>1. /\ npc[p] = "parse" /\ exit[p] = -1 /\ nlog[p] = << >> /\ nfile[p] = << >>
        /\ audits[p] = "none"
    BY DEF NanoInit
  <2>2. NoCall(<< >>) /\ << >> \in Seq(FrameSet) /\ ~ JoinedTo(<< >>, 6)
    BY Frames, JoinedIsACall
  <2> QED
    BY <2>1, <2>2 DEF Recorded, Keyed, Alone, Holding, Early, Steps
<1> QED
  BY <1>1, <1>2 DEF NanoInv, Shared

LEMMA ParseRunKeeps ==
  ASSUME NanoInv, NEW p \in Proc, ParseRun(p)
  PROVE  NanoInv'
<1> USE DEF ParseRun, To, ExitWith, rest
<1>1. Shaped /\ Recorded(p) /\ Keyed(p)
  BY DEF NanoInv
<1>2. Shaped'
  BY <1>1 DEF Shaped
<1>3. \A q \in Proc \ {p} : Spares(q)
  BY <1>1 DEF Shaped, Spares
<1>4. Recorded(p)'
  BY <1>1 DEF Shaped, Recorded, Early, Steps
<1>5. Keyed(p)' /\ Alone(p)' /\ Enters(p)
  BY <1>1 DEF Shaped, Recorded, Keyed, Alone, Enters, Holding
<1> QED
  BY <1>2, <1>3, <1>4, <1>5, OthersStand

LEMMA LoadKeyKeeps ==
  ASSUME NanoInv, NEW p \in Proc, LoadKey(p)
  PROVE  NanoInv'
<1> USE DEF LoadKey, To, ExitWith, rest, Logs
<1> DEFINE fs == IF keyfile = "full" THEN <<Frame(1, "TaskCreated"), Frame(2, "JobQueued")>>
                 ELSE << >>
<1>1. Shaped /\ Recorded(p) /\ Keyed(p)
  BY DEF NanoInv
<1>2. fs \in Seq(FrameSet) /\ NoCall(fs) /\ nlog' = [nlog EXCEPT ![p] = @ \o fs]
  BY Frames
<1> HIDE DEF fs
<1>3. Shaped'
  BY <1>1, <1>2 DEF Shaped
<1>4. \A q \in Proc \ {p} : Spares(q)
  BY <1>1, <1>2 DEF Shaped, Spares
<1>5. nlog'[p] \in Seq(FrameSet) /\ NoCall(nlog'[p])
  <2>1. nlog'[p] = nlog[p] \o fs
    BY <1>1, <1>2 DEF Shaped
  <2>2. nlog[p] \in Seq(FrameSet) /\ NoCall(nlog[p])
    BY <1>1 DEF Recorded, Early
  <2> HIDE DEF LoadKey, To, ExitWith, rest, Logs
  <2> QED
    BY <1>2, <2>1, <2>2, Appending
<1>6. Recorded(p)'
  BY <1>1, <1>5 DEF Shaped, Recorded, Early, Steps
<1>7. Keyed(p)' /\ Alone(p)' /\ Enters(p)
  BY <1>1 DEF Shaped, Recorded, Keyed, Alone, Enters, Holding
<1> QED
  BY <1>3, <1>4, <1>6, <1>7, OthersStand

LEMMA MakeKeyKeeps ==
  ASSUME NanoInv, NEW p \in Proc, CreateKey(p) \/ WriteKey(p)
  PROVE  NanoInv'
<1> USE DEF CreateKey, WriteKey, To, ExitWith
<1>1. Shaped /\ Recorded(p) /\ Keyed(p)
  BY DEF NanoInv
<1>2. Shaped'
  BY <1>1 DEF Shaped
<1>3. \A q \in Proc \ {p} : Spares(q)
  BY <1>1 DEF Shaped, Spares
<1>4. Recorded(p)'
  BY <1>1 DEF Shaped, Recorded, Early, Steps
<1>5. Keyed(p)' /\ Alone(p)' /\ Enters(p)
  BY <1>1 DEF Shaped, Recorded, Keyed, Alone, Enters, Holding
<1> QED
  BY <1>2, <1>3, <1>4, <1>5, OthersStand

\* What a failed run has in its log and leaves on disk.
FailedAs(p, step) ==
  /\ nlog' = [nlog EXCEPT ![p] = nlog'[p]] /\ nlog'[p] \in Seq(FrameSet) /\ NoCall(nlog'[p])
  /\ nfile' = [nfile EXCEPT ![p] = nfile'[p]] /\ NoCall(nfile'[p])
  /\ npc' = [npc EXCEPT ![p] = step]

\* The log a failing run leaves, if it can, holds no receipt.
LEMMA FailureHasNoReceipt ==
  ASSUME NanoInv, NEW p \in Proc, npc[p] \in Early,
         NEW fs \in Seq(FrameSet), NoCall(fs), NEW step, FailWith(p, fs, step)
  PROVE  FailedAs(p, step)
<1>1. Shaped /\ Recorded(p)
  BY DEF NanoInv
<1>3. nlog' = [nlog EXCEPT ![p] = @ \o fs] /\ npc' = [npc EXCEPT ![p] = step]
  BY DEF FailWith, Logs, To
<1>4. PICK ok \in BOOLEAN : nfile' = IF ok THEN [nfile EXCEPT ![p] = nlog'[p]] ELSE nfile
  BY DEF FailWith
<1>5. nlog'[p] = nlog[p] \o fs
  BY <1>1, <1>3 DEF Shaped
<1>6. nlog'[p] \in Seq(FrameSet) /\ NoCall(nlog'[p])
  BY <1>1, <1>5, Appending DEF Recorded
<1>7. nlog' = [nlog EXCEPT ![p] = nlog'[p]]
  BY <1>1, <1>3, <1>5 DEF Shaped
<1>8. nfile' = [nfile EXCEPT ![p] = nfile'[p]] /\ NoCall(nfile'[p])
  BY <1>1, <1>4, <1>6 DEF Shaped, Recorded
<1> QED
  BY <1>3, <1>6, <1>7, <1>8 DEF FailedAs

\* One more leased tree: fresh and alone, or shared and known to be.
LEMMA CreateForKeeps ==
  ASSUME NanoInv, NEW p \in Proc, CreateFor(p)
  PROVE  NanoInv'
<1>1. /\ Shaped /\ Recorded(p) /\ Keyed(p) /\ npc[p] = "worktree"
      /\ UNCHANGED <<worker, keyfile, patch, verified, audits>>
  BY DEF NanoInv, CreateFor
<1>2. CASE /\ tree' = IF tree = << >> THEN <<{}>> ELSE tree
           /\ Taint(IF tree = << >> /\ Others(p) = {} THEN {} ELSE {p} \cup Others(p))
           /\ Logs(p, <<Frame(3, "JobLeased")>>) /\ To(p, "patch")
           /\ UNCHANGED <<nfile, exit>>
  <2> DEFINE fs == <<Frame(3, "JobLeased")>>
             who == IF tree = << >> /\ Others(p) = {} THEN {} ELSE {p} \cup Others(p)
  <2>1. /\ fs \in Seq(FrameSet) /\ NoCall(fs)
        /\ nlog' = [nlog EXCEPT ![p] = @ \o fs] /\ npc' = [npc EXCEPT ![p] = "patch"]
        /\ reused' = [q \in Proc |-> reused[q] \/ q \in who]
    BY <1>2, Frames DEF Logs, To, Taint, FrameKinds
  <2> HIDE DEF fs
  <2>2. nlog'[p] = nlog[p] \o fs
    BY <1>1, <2>1 DEF Shaped
  <2>3. nlog'[p] \in Seq(FrameSet) /\ NoCall(nlog'[p])
    BY <1>1, <2>1, <2>2, Appending DEF Recorded, Early
  <2>4. \A q \in Proc \ {p} : Holding(q) => q \in who /\ p \in who
    BY DEF Others
  <2>5. p \notin who => tree = << >>
    OBVIOUS
  <2> HIDE DEF who
  <2>6. \A q \in Proc : reused'[q] = (reused[q] \/ q \in who)
    BY <2>1
  <2>7. reused' \in [Proc -> BOOLEAN]
    BY <1>1, <2>1 DEF Shaped
  <2>8. Shaped'
    BY <1>1, <1>2, <2>1, <2>7 DEF Shaped
  <2>9. \A q \in Proc \ {p} : Spares(q)
    BY <1>1, <1>2, <2>1, <2>4, <2>6 DEF Shaped, Spares
  <2>10. Recorded(p)'
    BY <1>1, <1>2, <2>1, <2>3 DEF Shaped, Recorded, Early, Steps
  <2>11. Keyed(p)'
    BY <1>1, <1>2, <2>1 DEF Shaped, Keyed
  <2>12. Alone(p)'
    <3>1. npc'[p] = "patch" /\ exit'[p] = -1
      BY <1>1, <1>2, <2>1 DEF Shaped, Recorded
    <3>2. ~ reused'[p] => p \notin who
      BY <2>6
    <3>3. ~ reused'[p] => tree' = <<{}>>
      BY <1>2, <2>5, <3>2
    <3> QED
      BY <3>1, <3>3 DEF Alone
  <2>13. Enters(p)
    BY <2>4, <2>6 DEF Enters
  <2> QED
    BY <1>1, <2>8, <2>9, <2>10, <2>11, <2>12, <2>13, OthersStand
<1>3. CASE /\ FailWith(p, <<Frame(3, "TaskFailed")>>, "done")
           /\ exit' = [exit EXCEPT ![p] = 1] /\ UNCHANGED <<tree, reused>>
  <2>1. "TaskFailed" \in FrameKinds \ {"ToolCallCompleted"} /\ npc[p] \in Early
    BY <1>1 DEF FrameKinds, Early
  <2>2. /\ nlog' = [nlog EXCEPT ![p] = nlog'[p]] /\ nlog'[p] \in Seq(FrameSet) /\ NoCall(nlog'[p])
        /\ nfile' = [nfile EXCEPT ![p] = nfile'[p]] /\ NoCall(nfile'[p])
        /\ npc' = [npc EXCEPT ![p] = "done"]
    <3>1. /\ FailWith(p, <<Frame(3, "TaskFailed")>>, "done") /\ 3 \in Nat
          /\ <<Frame(3, "TaskFailed")>> \in Seq(FrameSet) /\ NoCall(<<Frame(3, "TaskFailed")>>)
      BY <1>3, <2>1, Frames
    <3>2. FailedAs(p, "done")
      BY <2>1, <3>1, FailureHasNoReceipt, Zenon
    <3> QED
      BY <3>2 DEF FailedAs
  <2>3. Shaped'
    BY <1>1, <1>3, <2>2 DEF Shaped
  <2>4. \A q \in Proc \ {p} : Spares(q)
    BY <1>1, <1>3, <2>2 DEF Shaped, Spares
  <2>5. npc'[p] = "done" /\ exit'[p] = 1
    BY <1>1, <1>3, <2>2 DEF Shaped
  <2>6. Recorded(p)'
    BY <1>1, <1>3, <2>2, <2>5 DEF Recorded, Early, Steps
  <2>7. Keyed(p)' /\ Alone(p)' /\ Enters(p)
    BY <1>1, <2>2, <2>5, JoinedIsACall DEF Keyed, Alone, Enters, Holding
  <2> QED
    BY <1>1, <2>3, <2>4, <2>6, <2>7, OthersStand
<1> QED
  BY <1>2, <1>3 DEF CreateFor

\* The worker changes the tree, and the patch names the tree it left.
LEMMA ProducePatchKeeps ==
  ASSUME NanoInv, NEW p \in Proc, ProducePatch(p)
  PROVE  NanoInv'
<1> DEFINE t == IF worker[p] /\ tree # << >> THEN <<tree[1] \cup {p}>> ELSE tree
<1>1. /\ Shaped /\ Recorded(p) /\ Keyed(p) /\ Alone(p) /\ npc[p] = "patch" /\ tree' = t
      /\ UNCHANGED <<worker, keyfile, verified, exit, reused, audits>>
  BY DEF NanoInv, ProducePatch
<1>2. \A q \in Proc \ {p} : Holding(q) => reused[q]
  BY <1>1 DEF NanoInv, Shared, Holding
<1>3. CASE /\ t # << >>
           /\ patch' = [patch EXCEPT ![p] = PatchOf(p, t)]
           /\ Logs(p, <<Frame(4, "PatchProposed"), Frame(5, "ToolCallStarted")>>)
           /\ To(p, "verify") /\ UNCHANGED nfile
  <2> DEFINE fs == <<Frame(4, "PatchProposed"), Frame(5, "ToolCallStarted")>>
  <2>1. /\ fs \in Seq(FrameSet) /\ NoCall(fs)
        /\ nlog' = [nlog EXCEPT ![p] = @ \o fs] /\ npc' = [npc EXCEPT ![p] = "verify"]
    BY <1>3, Frames DEF Logs, To
  <2> HIDE DEF fs
  <2>2. nlog'[p] = nlog[p] \o fs
    BY <1>1, <2>1 DEF Shaped
  <2>3. nlog'[p] \in Seq(FrameSet) /\ NoCall(nlog'[p])
    BY <1>1, <2>1, <2>2, Appending DEF Recorded, Early
  <2>4. ~ reused[p] => PatchOf(p, t) = t
    BY <1>1 DEF PatchOf, Alone
  <2> HIDE DEF t
  <2>5. Shaped'
    BY <1>1, <1>3, <2>1 DEF Shaped
  <2>6. \A q \in Proc \ {p} : Spares(q)
    BY <1>1, <1>2, <1>3, <2>1 DEF Shaped, Spares
  <2>7. npc'[p] = "verify" /\ nfile' = nfile /\ patch'[p] = PatchOf(p, t)
    BY <1>1, <1>3, <2>1 DEF Shaped
  <2>8. Recorded(p)'
    BY <1>1, <2>3, <2>7 DEF Recorded, Early, Steps
  <2>9. Keyed(p)' /\ Enters(p)
    BY <1>1, <2>7 DEF Keyed, Enters, Holding
  <2>10. Alone(p)'
    BY <1>1, <1>3, <2>4, <2>7 DEF Alone, Recorded
  <2> QED
    BY <1>1, <2>5, <2>6, <2>8, <2>9, <2>10, OthersStand
<1>4. CASE worker[p] /\ FailWith(p, <<Frame(4, "TaskFailed")>>, "remove") /\ UNCHANGED patch
  <2>1. "TaskFailed" \in FrameKinds \ {"ToolCallCompleted"} /\ npc[p] \in Early
    BY <1>1 DEF FrameKinds, Early
  <2> HIDE DEF t
  <2>2. /\ nlog' = [nlog EXCEPT ![p] = nlog'[p]] /\ nlog'[p] \in Seq(FrameSet) /\ NoCall(nlog'[p])
        /\ nfile' = [nfile EXCEPT ![p] = nfile'[p]] /\ NoCall(nfile'[p])
        /\ npc' = [npc EXCEPT ![p] = "remove"]
    <3>1. /\ 4 \in Nat /\ FailWith(p, <<Frame(4, "TaskFailed")>>, "remove")
          /\ <<Frame(4, "TaskFailed")>> \in Seq(FrameSet) /\ NoCall(<<Frame(4, "TaskFailed")>>)
      BY <1>4, <2>1, Frames
    <3>2. FailedAs(p, "remove")
      BY <2>1, <3>1, FailureHasNoReceipt, Zenon
    <3> QED
      BY <3>2 DEF FailedAs
  <2>3. Shaped'
    BY <1>1, <1>4, <2>2 DEF Shaped
  <2>4. \A q \in Proc \ {p} : Spares(q)
    BY <1>1, <1>2, <1>4, <2>2 DEF Shaped, Spares
  <2>5. npc'[p] = "remove"
    BY <1>1, <2>2 DEF Shaped
  <2>6. Recorded(p)'
    BY <1>1, <2>2, <2>5 DEF Recorded, Early, Steps
  <2>7. Keyed(p)' /\ Alone(p)' /\ Enters(p)
    BY <1>1, <2>2, <2>5, JoinedIsACall DEF Keyed, Alone, Enters, Holding, Recorded
  <2> QED
    BY <1>1, <2>3, <2>4, <2>6, <2>7, OthersStand
<1> QED
  BY <1>3, <1>4 DEF ProducePatch

\* What the verifier passed is what it ran in.
LEMMA RunVerifyKeeps ==
  ASSUME NanoInv, NEW p \in Proc, RunVerify(p)
  PROVE  NanoInv'
<1>1. /\ Shaped /\ Recorded(p) /\ Keyed(p) /\ Alone(p) /\ npc[p] = "verify"
      /\ UNCHANGED <<worker, keyfile, tree, patch, exit, reused, audits>>
  BY DEF NanoInv, RunVerify
<1>2. CASE /\ verified' = [verified EXCEPT ![p] = tree]
           /\ Logs(p, <<Frame(6, "ToolCallCompleted"), Frame(7, "PatchVerified"),
                        Frame(8, "TaskCompleted")>>)
           /\ To(p, "persist") /\ UNCHANGED nfile
  <2> DEFINE fs == <<Frame(6, "ToolCallCompleted"), Frame(7, "PatchVerified"),
                     Frame(8, "TaskCompleted")>>
  <2>1. /\ fs \in Seq(FrameSet) /\ JoinedTo(fs, 6)
        /\ nlog' = [nlog EXCEPT ![p] = @ \o fs] /\ npc' = [npc EXCEPT ![p] = "persist"]
    BY <1>2, Frames DEF Logs, To
  <2> HIDE DEF fs
  <2>2. nlog'[p] = nlog[p] \o fs
    BY <1>1, <2>1 DEF Shaped
  <2>3. nlog'[p] \in Seq(FrameSet) /\ JoinedTo(nlog'[p], 6)
    BY <1>1, <2>1, <2>2, Appending DEF Recorded
  <2>4. Shaped'
    BY <1>1, <1>2, <2>1 DEF Shaped
  <2>5. \A q \in Proc \ {p} : Spares(q)
    BY <1>1, <1>2, <2>1 DEF Shaped, Spares
  <2>6. npc'[p] = "persist" /\ nfile' = nfile /\ verified'[p] = tree
    BY <1>1, <1>2, <2>1 DEF Shaped
  <2>7. Recorded(p)'
    BY <1>1, <2>3, <2>6 DEF Recorded, Early, Steps
  <2>8. Keyed(p)' /\ Enters(p) /\ Alone(p)'
    BY <1>1, <2>6 DEF Keyed, Enters, Holding, Alone
  <2> QED
    BY <1>1, <2>4, <2>5, <2>7, <2>8, OthersStand
<1>3. CASE /\ \/ FailWith(p, <<Frame(6, "CommandCompleted"), Frame(7, "PatchRejected"), Frame(8, "TaskFailed")>>, "remove")
              \/ FailWith(p, <<Frame(6, "TaskFailed")>>, "remove")
           /\ UNCHANGED verified
  <2>1. "TaskFailed" \in FrameKinds \ {"ToolCallCompleted"} /\ npc[p] \in Early
    BY <1>1 DEF FrameKinds, Early
  <2>2. /\ nlog' = [nlog EXCEPT ![p] = nlog'[p]] /\ nlog'[p] \in Seq(FrameSet) /\ NoCall(nlog'[p])
        /\ nfile' = [nfile EXCEPT ![p] = nfile'[p]] /\ NoCall(nfile'[p])
        /\ npc' = [npc EXCEPT ![p] = "remove"]
    <3>1. /\ 6 \in Nat /\ <<Frame(6, "TaskFailed")>> \in Seq(FrameSet)
          /\ NoCall(<<Frame(6, "TaskFailed")>>)
      BY <2>1, Frames
    <3>2. ASSUME FailWith(p, <<Frame(6, "CommandCompleted"), Frame(7, "PatchRejected"), Frame(8, "TaskFailed")>>, "remove") PROVE FailedAs(p, "remove")
      BY <2>1, <3>2, Frames, FailureHasNoReceipt, Zenon
    <3>3. ASSUME FailWith(p, <<Frame(6, "TaskFailed")>>, "remove") PROVE FailedAs(p, "remove")
      BY <2>1, <3>1, <3>3, FailureHasNoReceipt, Zenon
    <3>4. FailedAs(p, "remove")
      BY <1>3, <3>2, <3>3
    <3> QED
      BY <3>4 DEF FailedAs
  <2>3. Shaped'
    BY <1>1, <1>3, <2>2 DEF Shaped
  <2>4. \A q \in Proc \ {p} : Spares(q)
    BY <1>1, <1>3, <2>2 DEF Shaped, Spares
  <2>5. npc'[p] = "remove"
    BY <1>1, <2>2 DEF Shaped
  <2>6. Recorded(p)'
    BY <1>1, <2>2, <2>5 DEF Recorded, Early, Steps
  <2>7. Keyed(p)' /\ Alone(p)' /\ Enters(p)
    BY <1>1, <2>2, <2>5, JoinedIsACall DEF Keyed, Alone, Enters, Holding, Recorded
  <2> QED
    BY <1>1, <2>3, <2>4, <2>6, <2>7, OthersStand
<1> QED
  BY <1>2, <1>3 DEF RunVerify

\* The evidence is on disk before the run is completed.
LEMMA PersistKeeps ==
  ASSUME NanoInv, NEW p \in Proc, Persist(p)
  PROVE  NanoInv'
<1>1. /\ Shaped /\ Recorded(p) /\ Keyed(p) /\ Alone(p) /\ npc[p] = "persist"
      /\ UNCHANGED <<worker, keyfile, tree, patch, verified, nlog, exit, reused, audits>>
  BY DEF NanoInv, Persist
<1>2. PICK ok \in BOOLEAN :
        /\ nfile' = IF ok THEN [nfile EXCEPT ![p] = nlog[p]] ELSE nfile
        /\ npc' = [npc EXCEPT ![p] = IF ok THEN "complete" ELSE "remove"]
  BY <1>1 DEF Persist, To, Completes, Recorded
<1>3. /\ npc'[p] = IF ok THEN "complete" ELSE "remove"
      /\ nfile'[p] = IF ok THEN nlog[p] ELSE nfile[p]
  BY <1>1, <1>2 DEF Shaped
<1>4. Shaped'
  BY <1>1, <1>2 DEF Shaped
<1>5. \A q \in Proc \ {p} : Spares(q)
  BY <1>1, <1>2 DEF Shaped, Spares
<1>6. Recorded(p)'
  BY <1>1, <1>3 DEF Recorded, Early, Steps
<1>7. Keyed(p)' /\ Alone(p)' /\ Enters(p)
  BY <1>1, <1>3 DEF Keyed, Alone, Enters, Holding, Recorded
<1> QED
  BY <1>1, <1>4, <1>5, <1>6, <1>7, OthersStand

LEMMA RemoveTreeKeeps ==
  ASSUME NanoInv, NEW p \in Proc, RemoveTree(p)
  PROVE  NanoInv'
<1>1. /\ Shaped /\ Recorded(p) /\ Keyed(p) /\ Alone(p) /\ npc[p] \in {"complete", "remove"}
      /\ UNCHANGED <<worker, keyfile, patch, verified, nlog, nfile, audits>>
      /\ exit' = [exit EXCEPT ![p] = IF npc[p] = "complete" THEN 0 ELSE 1]
      /\ npc' = [npc EXCEPT ![p] = "done"]
      /\ reused' = [q \in Proc |-> reused[q] \/ q \in Others(p)]
  BY DEF NanoInv, RemoveTree, ExitWith, To, Taint
<1>2. reused' \in [Proc -> BOOLEAN] /\ \A q \in Proc : reused'[q] = (reused[q] \/ q \in Others(p))
  BY <1>1
<1>3. Shaped'
  BY <1>1, <1>2 DEF Shaped
<1>4. \A q \in Proc \ {p} : Spares(q)
  BY <1>1, <1>2 DEF Shaped, Spares, Others
<1>5. npc'[p] = "done" /\ exit'[p] = (IF npc[p] = "complete" THEN 0 ELSE 1)
  BY <1>1 DEF Shaped
<1>6. Recorded(p)'
  BY <1>1, <1>5 DEF Recorded, Early, Steps
<1>7. Keyed(p)' /\ Enters(p)
  BY <1>1, <1>5 DEF Keyed, Enters, Holding
<1>8. Alone(p)'
  <2>1. ~ reused'[p] => ~ reused[p]
    BY <1>2
  <2> QED
    BY <1>1, <1>5, <2>1 DEF Alone
<1> QED
  BY <1>1, <1>3, <1>4, <1>6, <1>7, <1>8, OthersStand

LEMMA KilledKeeps ==
  ASSUME NanoInv, NEW p \in Proc, Killed(p)
  PROVE  NanoInv'
<1>1. /\ Shaped /\ Recorded(p) /\ Keyed(p) /\ Alone(p) /\ npc[p] \notin {"done", "dead"}
      /\ npc' = [npc EXCEPT ![p] = "dead"]
      /\ UNCHANGED <<worker, keyfile, tree, patch, verified, nlog, nfile, exit, reused, audits>>
  BY DEF NanoInv, Killed, To, rest
<1>2. Shaped' /\ npc'[p] = "dead"
  BY <1>1 DEF Shaped
<1>3. \A q \in Proc \ {p} : Spares(q)
  BY <1>1 DEF Shaped, Spares
<1>4. Recorded(p)'
  BY <1>1, <1>2 DEF Recorded, Early, Steps
<1>5. Keyed(p)' /\ Alone(p)' /\ Enters(p)
  BY <1>1, <1>2 DEF Keyed, Alone, Enters, Holding, Recorded
<1> QED
  BY <1>1, <1>2, <1>3, <1>4, <1>5, OthersStand

\* An audit of what the run left, at any time.
LEMMA InspectKeeps ==
  ASSUME NanoInv, NEW p \in Proc, Inspect(p)
  PROVE  NanoInv'
<1>1. /\ Shaped /\ Recorded(p) /\ Keyed(p) /\ Alone(p)
      /\ UNCHANGED <<npc, worker, keyfile, tree, patch, verified, nlog, nfile, exit, reused>>
  BY DEF NanoInv, Inspect
<1>2. /\ audits' = [audits EXCEPT ![p] = audits'[p]] /\ audits'[p] # "bad"
  <2>1. CASE NoCall(nfile[p])
    BY <1>1, <2>1 DEF Inspect, NoCall, Shaped
  <2>2. CASE JoinedTo(nfile[p], 6) /\ keyfile = "full"
    BY <1>1, <2>2 DEF Inspect, Shaped
  <2> QED
    BY <1>1, <2>1, <2>2 DEF Recorded, Keyed
<1>3. Shaped'
  BY <1>1, <1>2 DEF Shaped
<1>4. \A q \in Proc \ {p} : Spares(q)
  BY <1>1, <1>2 DEF Shaped, Spares
<1>5. Recorded(p)'
  BY <1>1, <1>2 DEF Recorded
<1>6. Keyed(p)' /\ Alone(p)' /\ Enters(p)
  BY <1>1 DEF Keyed, Alone, Enters, Holding
<1> QED
  BY <1>1, <1>3, <1>4, <1>5, <1>6, OthersStand

\* The invariant holds in every reachable state.
THEOREM NanoInvariant == NanoSpec => []NanoInv
<1>1. NanoInv /\ NanoNext => NanoInv'
  BY ParseRunKeeps, LoadKeyKeeps, MakeKeyKeeps, CreateForKeeps, ProducePatchKeeps, RunVerifyKeeps,
     PersistKeeps, RemoveTreeKeeps, KilledKeeps, InspectKeeps DEF NanoNext
<1>2. NanoInv /\ UNCHANGED nanoVars => NanoInv'
  BY DEF NanoInv, nanoVars, Shaped, Recorded, Keyed, Alone, Shared, Holding
<1> QED
  BY <1>1, <1>2, NanoInitially, PTL DEF NanoSpec

\* Any number of processes on one repository, killed at any step: a run that
\* exits with 0 left a log that inspects clean, and one that had the tree to
\* itself verified exactly the change its patch names (run_task, inspect).
THEOREM ExitZeroIsVerified == NanoSpec => []EvidenceIsSound
<1>1. NanoInv => EvidenceIsSound
  BY JoinedIsACall DEF NanoInv, Recorded, Alone, EvidenceIsSound
<1> QED
  BY <1>1, NanoInvariant, PTL

-----------------------------------------------------------------------------
(* The refinement of Evidence.                                             *)

\* What a run has claimed, as Evidence sees it.
ClaimOf(code) == IF code = 0 THEN "completed" ELSE IF code > 0 THEN "failed" ELSE "open"
Claims == [p \in Proc |-> CASE exit[p] = 0 -> "completed"
                            [] exit[p] > 0 -> "failed" [] OTHER -> "open"]
Proofs == {p \in Proc : JoinedTo(nfile[p], 6)}

LEMMA ClaimsAre ==
  ASSUME Shaped, \A p \in Proc : exit[p] \in {-1, 0, 1, 2}
  PROVE  Claims = [p \in Proc |-> ClaimOf(exit[p])]
<1>1. ASSUME NEW p \in Proc
      PROVE  (CASE exit[p] = 0 -> "completed" [] exit[p] > 0 -> "failed" [] OTHER -> "open")
               = ClaimOf(exit[p])
  BY DEF ClaimOf
<1> QED
  BY <1>1 DEF Claims

\* A step leaves the claims and the evidence as they are, or makes one run's
\* evidence, or one run's claim.
Implements ==
  \/ Claims' = Claims /\ Proofs' = Proofs
  \/ \E p \in Proc : Claims[p] = "open" /\ Proofs' = Proofs \cup {p} /\ Claims' = Claims
  \/ \E p \in Proc : /\ Claims[p] = "open" /\ p \in Proofs
                      /\ Claims' = [Claims EXCEPT ![p] = "completed"] /\ Proofs' = Proofs
  \/ \E p \in Proc : /\ Claims[p] = "open" /\ p \notin Proofs
                      /\ Claims' = [Claims EXCEPT ![p] = "failed"] /\ Proofs' = Proofs

\* How a step of p moves its exit code and its file.
Moves(p) ==
  /\ \A q \in Proc \ {p} : exit'[q] = exit[q] /\ nfile'[q] = nfile[q]
  /\ \/ exit'[p] = exit[p] /\ nfile'[p] = nfile[p]
     \/ exit[p] = -1 /\ exit'[p] = -1 /\ NoCall(nfile[p])
     \/ exit[p] = -1 /\ exit'[p] \in {1, 2} /\ NoCall(nfile[p])
     \/ exit[p] = -1 /\ exit'[p] \in {0, 1, 2} /\ nfile'[p] = nfile[p]

LEMMA StepMoves ==
  ASSUME NanoInv, NEW p \in Proc,
         \/ ParseRun(p) \/ LoadKey(p) \/ CreateKey(p) \/ WriteKey(p) \/ CreateFor(p)
         \/ ProducePatch(p) \/ RunVerify(p) \/ Persist(p) \/ RemoveTree(p)
         \/ Killed(p) \/ Inspect(p)
  PROVE  Moves(p)
<1>1. Shaped /\ Recorded(p)
  BY DEF NanoInv
<1>2. CASE ParseRun(p) \/ LoadKey(p) \/ CreateKey(p)
  BY <1>1, <1>2 DEF Shaped, Recorded, Moves, ParseRun, LoadKey, CreateKey, ExitWith, rest
<1>3. CASE WriteKey(p) \/ Killed(p) \/ Inspect(p)
  BY <1>1, <1>3 DEF Shaped, Moves, WriteKey, Killed, Inspect, rest
<1>4. CASE CreateFor(p)
  <2>1. exit[p] = -1 /\ NoCall(nfile[p])
    BY <1>1, <1>4 DEF CreateFor, Recorded, Early
  <2> QED
    BY <1>1, <1>4, <2>1 DEF CreateFor, FailWith, Shaped, Moves
<1>5. CASE ProducePatch(p)
  <2>1. exit[p] = -1 /\ NoCall(nfile[p]) /\ exit' = exit
    BY <1>1, <1>5 DEF ProducePatch, Recorded, Early
  <2>2. nfile' = nfile \/ \E f : nfile' = [nfile EXCEPT ![p] = f]
    BY <1>5 DEF ProducePatch, FailWith
  <2> QED
    BY <1>1, <2>1, <2>2 DEF Shaped, Moves
<1>6. CASE RunVerify(p)
  <2>1. exit[p] = -1 /\ NoCall(nfile[p]) /\ exit' = exit
    BY <1>1, <1>6 DEF RunVerify, Recorded, Early
  <2>2. nfile' = nfile \/ \E f : nfile' = [nfile EXCEPT ![p] = f]
    BY <1>6 DEF RunVerify, FailWith
  <2> QED
    BY <1>1, <2>1, <2>2 DEF Shaped, Moves
<1>7. CASE Persist(p)
  <2>1. exit[p] = -1 /\ NoCall(nfile[p]) /\ exit' = exit
    BY <1>1, <1>7 DEF Persist, Recorded
  <2>2. nfile' = nfile \/ \E f : nfile' = [nfile EXCEPT ![p] = f]
    BY <1>7 DEF Persist
  <2> QED
    BY <1>1, <2>1, <2>2 DEF Shaped, Moves
<1>8. CASE RemoveTree(p)
  BY <1>1, <1>8 DEF Shaped, Recorded, Moves, RemoveTree, ExitWith
<1> QED
  BY <1>2, <1>3, <1>4, <1>5, <1>6, <1>7, <1>8

LEMMA MoveImplements ==
  ASSUME NanoInv, NanoInv', NEW p \in Proc, Moves(p)
  PROVE  Implements
<1>1. /\ Claims = [q \in Proc |-> ClaimOf(exit[q])]
      /\ Claims' = [q \in Proc |-> ClaimOf(exit'[q])]
  <2>1. (\A q \in Proc : exit[q] \in {-1, 0, 1, 2}) /\ Shaped
    BY DEF NanoInv, Recorded
  <2>2. (\A q \in Proc : exit'[q] \in {-1, 0, 1, 2}) /\ Shaped'
    BY DEF NanoInv, Recorded
  <2>3. ASSUME NEW q \in Proc
        PROVE  (CASE exit'[q] = 0 -> "completed" [] exit'[q] > 0 -> "failed" [] OTHER -> "open")
                 = ClaimOf(exit'[q])
    BY <2>2 DEF ClaimOf
  <2>4. Claims' = [q \in Proc |-> ClaimOf(exit'[q])]
    BY <2>3 DEF Claims
  <2> QED
    BY <2>1, <2>4, ClaimsAre
<1>2. /\ ClaimOf(-1) = "open" /\ ClaimOf(0) = "completed"
      /\ ClaimOf(1) = "failed" /\ ClaimOf(2) = "failed"
  BY DEF ClaimOf
<1> DEFINE held == JoinedTo(nfile[p], 6)
           kept == JoinedTo(nfile'[p], 6)
<1>3. Proofs' = IF kept THEN Proofs \cup {p} ELSE Proofs \ {p}
  BY DEF Moves, Proofs
<1>4. /\ p \in Proofs <=> held
      /\ NoCall(nfile[p]) => ~ held
      /\ exit'[p] = 0 => kept
      /\ exit'[p] \in {1, 2} => ~ kept
      /\ nfile'[p] = nfile[p] => (kept <=> held)
  BY JoinedIsACall DEF Proofs, NanoInv, Recorded
<1> HIDE DEF held, kept, Claims, Proofs, ClaimOf
<1>5. Claims' = [Claims EXCEPT ![p] = ClaimOf(exit'[p])] /\ Claims[p] = ClaimOf(exit[p])
  BY <1>1 DEF Moves
<1>6. CASE exit'[p] = exit[p] /\ nfile'[p] = nfile[p]
  <2>1. Claims' = Claims
    BY <1>1, <1>5, <1>6
  <2>2. Proofs' = Proofs
    BY <1>3, <1>4, <1>6
  <2> QED
    BY <2>1, <2>2 DEF Implements
<1>7. CASE exit[p] = -1 /\ exit'[p] = -1 /\ NoCall(nfile[p])
  <2>1. Claims' = Claims /\ Claims[p] = "open"
    BY <1>1, <1>2, <1>5, <1>7
  <2>2. Proofs' = Proofs \/ Proofs' = Proofs \cup {p}
    BY <1>3, <1>4, <1>7
  <2> QED
    BY <2>1, <2>2 DEF Implements
<1>8. CASE exit[p] = -1 /\ exit'[p] \in {1, 2} /\ ~ held
  <2>1. Claims' = [Claims EXCEPT ![p] = "failed"] /\ Claims[p] = "open"
    BY <1>2, <1>5, <1>8
  <2>2. Proofs' = Proofs /\ p \notin Proofs
    BY <1>3, <1>4, <1>8
  <2> QED
    BY <2>1, <2>2 DEF Implements
<1>9. CASE exit[p] = -1 /\ exit'[p] = 0 /\ nfile'[p] = nfile[p]
  <2>1. Claims' = [Claims EXCEPT ![p] = "completed"] /\ Claims[p] = "open"
    BY <1>2, <1>5, <1>9
  <2>2. Proofs' = Proofs /\ p \in Proofs
    BY <1>3, <1>4, <1>9
  <2> QED
    BY <2>1, <2>2 DEF Implements
<1> QED
  BY <1>4, <1>6, <1>7, <1>8, <1>9 DEF Moves

\* The command line implements Evidence, however many runs share the host and
\* whenever they are killed: a run exits with 0 only once its verifier's receipt
\* is in the log on disk, never after it failed, and a run that left a receipt
\* never fails (run_task).
THEOREM NanoImplementsEvidence == NanoSpec => NothingCompletesWithoutEvidence
<1>1. NanoInit => E!EvidenceInit
  <2> SUFFICES ASSUME NanoInit PROVE E!EvidenceInit
    OBVIOUS
  <2>1. Shaped /\ \A p \in Proc : exit[p] = -1 /\ ~ JoinedTo(nfile[p], 6)
    BY JoinedIsACall DEF NanoInit, Shaped
  <2>2. Claims = [p \in Proc |-> "open"]
    BY <2>1, ClaimsAre DEF ClaimOf
  <2> QED
    BY <2>1, <2>2 DEF E!EvidenceInit, Claims
<1>2. NanoInv /\ NanoInv' /\ [NanoNext]_nanoVars => Implements
  <2> SUFFICES ASSUME NanoInv, NanoInv', [NanoNext]_nanoVars PROVE Implements
    OBVIOUS
  <2>1. CASE NanoNext
    BY <2>1, StepMoves, MoveImplements DEF NanoNext
  <2>2. CASE UNCHANGED nanoVars
    BY <2>2 DEF nanoVars, Implements, Claims, Proofs
  <2> QED
    BY <2>1, <2>2
<1>3. Implements => [E!EvidenceNext]_<<Claims, Proofs>>
  BY DEF Implements, Claims, Proofs, E!EvidenceNext, E!Record, E!Complete, E!Fail
<1>4. [E!EvidenceNext]_<<Claims, Proofs>> <=> [E!EvidenceNext]_<<
         [p \in Proc |-> CASE exit[p] = 0 -> "completed"
                           [] exit[p] > 0 -> "failed" [] OTHER -> "open"],
         {p \in Proc : JoinedTo(nfile[p], 6)}>>
  BY DEF Claims, Proofs
<1> QED
  BY <1>1, <1>2, <1>3, <1>4, NanoInvariant, PTL
     DEF NanoSpec, NothingCompletesWithoutEvidence, E!EvidenceSpec

-----------------------------------------------------------------------------
(* The fleet: lists that only grow.                                        *)

\* A sequence, of whatever its elements are.
Listed(s) == s \in Seq({s[i] : i \in DOMAIN s})

LEMMA AppendListed ==
  ASSUME NEW s, Listed(s), NEW e
  PROVE  /\ Listed(Append(s, e))
         /\ Len(s) \in Nat /\ DOMAIN s = 1 .. Len(s)
         /\ Len(Append(s, e)) = Len(s) + 1
         /\ DOMAIN Append(s, e) = 1 .. Len(s) + 1
         /\ Append(s, e)[Len(s) + 1] = e
         /\ \A i \in DOMAIN s : Append(s, e)[i] = s[i]
<1> DEFINE S == {s[i] : i \in DOMAIN s}
           T == S \union {e}
<1>1. s \in Seq(S) /\ Len(s) \in Nat /\ DOMAIN s = 1 .. Len(s)
  BY DEF Listed
<1>2. \A i \in 1 .. Len(s) : s[i] \in T
  BY <1>1
<1>3. s = [i \in 1 .. Len(s) |-> s[i]]
  BY <1>1
<1> HIDE DEF S
<1>4. s \in Seq(T) /\ e \in T
  BY <1>1, <1>2, <1>3
<1> HIDE DEF T
<1> DEFINE q == Append(s, e)
<1>5. /\ q \in Seq(T) /\ Len(q) = Len(s) + 1 /\ DOMAIN q = 1 .. Len(s) + 1
      /\ q[Len(s) + 1] = e /\ \A i \in 1 .. Len(s) : q[i] = s[i]
  BY <1>1, <1>4
<1> HIDE DEF q
<1>6. q \in Seq({q[i] : i \in DOMAIN q})
  <2>1. q = [i \in 1 .. Len(q) |-> q[i]] /\ Len(q) \in Nat
    BY <1>5
  <2>2. \A i \in 1 .. Len(q) : q[i] \in {q[j] : j \in DOMAIN q}
    BY <1>5
  <2> QED
    BY <2>1, <2>2
<1> QED
  BY <1>1, <1>5, <1>6 DEF Listed, q

\* The turns that ended with a verdict of the verifier: each posts a message.
Judged(rs) == {i \in DOMAIN rs : rs[i].result \in {"Accepted", "Rejected"}}

LEMMA OneMoreTurn ==
  ASSUME NEW rs, Listed(rs), NEW e
  PROVE  /\ e.result \in {"Accepted", "Rejected"} =>
              Cardinality(Judged(Append(rs, e))) = Cardinality(Judged(rs)) + 1
         /\ e.result \notin {"Accepted", "Rejected"} => Judged(Append(rs, e)) = Judged(rs)
<1> DEFINE n == Len(rs)
           q == Append(rs, e)
<1>1. /\ n \in Nat /\ DOMAIN rs = 1 .. n /\ DOMAIN q = 1 .. n + 1 /\ q[n + 1] = e
      /\ \A i \in DOMAIN rs : q[i] = rs[i]
  BY AppendListed
<1> HIDE DEF n, q
<1>2. /\ e.result \in {"Accepted", "Rejected"} => Judged(q) = Judged(rs) \union {n + 1}
      /\ e.result \notin {"Accepted", "Rejected"} => Judged(q) = Judged(rs)
  BY <1>1 DEF Judged
<1>3. Judged(rs) \subseteq 1 .. n /\ n + 1 \notin Judged(rs)
  BY <1>1 DEF Judged
<1>4. IsFiniteSet(Judged(rs))
  <2>1. IsFiniteSet(1 .. n)
    BY <1>1, FS_Interval
  <2> QED
    BY <1>3, <2>1, FS_Subset
<1>5. Cardinality(Judged(rs) \union {n + 1}) = Cardinality(Judged(rs)) + 1
  BY <1>3, <1>4, FS_AddElement
<1> QED
  BY <1>2, <1>5 DEF q

-----------------------------------------------------------------------------
(* The fleet: what decides.                                                *)

\* finalize_task says ready only when no review is required, or every required
\* role has voted and no role that can block has blocked.
LEMMA ReadyMeansReviewed ==
  ASSUME NEW shape, NEW risk, NEW votes, NEW w, NEW m,
         FinalizeTask(shape, risk, winner # "none", votes, w, m) = "ReadyToIntegrate"
  PROVE  /\ winner # "none"
         /\ RequiredReviewers(shape, risk) # {} =>
              /\ \A r \in RequiredReviewers(shape, risk) : \E i \in DOMAIN votes : votes[i].role = r
              /\ \A i \in DOMAIN votes : CanBlock(votes[i].role) => votes[i].approve
<1> DEFINE required == RequiredReviewers(shape, risk)
           r0 == OrchestrateReview(shape, risk, votes, winner # "none", w, m)
<1>1. winner # "none" /\ r0 \in {"NotRequired", "Integrate"}
  BY DEF FinalizeTask
<1>3. CASE required = {}
  BY <1>1, <1>3
<1>4. CASE required # {}
  <2> HIDE DEF required
  <2>1. /\ \A r \in required : ~ \A i \in DOMAIN votes : votes[i].role # r
        /\ DecideIntegration(votes, winner # "none") = "Integrate"
    BY <1>1, <1>4 DEF OrchestrateReview, required, DecideIntegration
  <2>2. \A i \in DOMAIN votes : CanBlock(votes[i].role) => votes[i].approve
    BY <2>1 DEF DecideIntegration
  <2> QED
    BY <1>1, <2>1, <2>2 DEF required
<1> QED
  BY <1>3, <1>4

\* A change that touches a workflow or a sensitive file.
Hard(changed) ==
  \E i \in DOMAIN changed : Has(changed[i], "security") \/ Has(changed[i], "workflow")

\* Wherever it is in the list, such a change is routed to no executor.
LEMMA HardIsNotRouted ==
  ASSUME NEW changed, Hard(changed), NEW risk, NEW budget, NEW configured, NEW least, NEW most
  PROVE  Route(ShapeOf(changed), risk, budget, configured, least, most).fleet = << >>
<1>1. ShapeOf(changed) \in {"SecuritySensitive", "WorkflowChange"}
  <2>1. {i \in DOMAIN changed : Has(changed[i], "security") \/ Has(changed[i], "workflow")} # {}
    BY DEF Hard
  <2> QED
    BY <2>1 DEF ShapeOf
<1> QED
  BY <1>1 DEF Route

-----------------------------------------------------------------------------
(* The fleet: the inductive invariant.                                     *)

Verdicts ==
  {"UnknownAgent", "Concurrency", "Exec", "Wall", "Output", "Tokens", "Accepted", "Rejected"}

\* Nothing is left of an earlier task.
Fresh ==
  /\ results = << >> /\ winner = "none" /\ board = << >> /\ proposers = << >>
  /\ outcome = "none"

\* The race so far.
Raceful ==
  /\ Listed(results) /\ Listed(board)
  /\ \A i \in DOMAIN results : results[i].result = "Accepted" => i = Len(results) /\ proposers = << >>
  /\ Cardinality(Judged(results)) = Len(board)
  /\ winner # "none" =>
       /\ \E i \in DOMAIN results : results[i] = [agent |-> winner, result |-> "Accepted"]
       /\ \E i \in DOMAIN board : board[i] = [from |-> winner, kind |-> "PatchProposal"]

Reviewed ==
  RequiredReviewers(task.shape, task.risk) # {} =>
    /\ \A r \in RequiredReviewers(task.shape, task.risk) :
         \E i \in DOMAIN verdicts : verdicts[i].role = r
    /\ \A i \in DOMAIN verdicts : CanBlock(verdicts[i].role) => verdicts[i].approve

\* The slots of the scheduler, and who holds the one of the race.
Slotted ==
  /\ others \in Nat /\ running \in Nat /\ running <= MaxRunning
  /\ running = others + (IF slot = "none" THEN 0 ELSE 1)
  /\ slot # "none" => proposers # << >> /\ slot = Head(proposers)
  /\ registry \subseteq Agent \union {"Native"}

\* No agent is over its budget, on any axis.
Budgeted ==
  /\ usage \in [Agent -> [Axis -> Nat]]
  /\ \A a \in Agent, x \in Axis : usage[a][x] <= Budget[x]

FleetInv ==
  /\ task = << >> => Fresh
  /\ task # << >> /\ Hard(task.changed) =>
       task.route.fleet = << >> /\ proposers = << >> /\ results = << >>
  /\ Raceful /\ Slotted /\ Budgeted
  /\ outcome = "ReadyToIntegrate" => proposers = << >> /\ winner # "none" /\ Reviewed
  /\ DraftsStayOutsideTheContract

\* The lists at the start of a task.
LEMMA EmptyLists ==
  Listed(<< >>) /\ DOMAIN << >> = {} /\ Cardinality(Judged(<< >>)) = Len(<< >>)
<1>1. Listed(<< >>)
  BY DEF Listed
<1>2. Judged(<< >>) = {} /\ Len(<< >>) = 0 /\ DOMAIN << >> = {}
  BY DEF Judged
<1> QED
  BY <1>1, <1>2, FS_EmptySet

LEMMA FleetInitially == FleetInit => FleetInv
<1> SUFFICES ASSUME FleetInit PROVE FleetInv
  OBVIOUS
<1>1. Raceful
  BY EmptyLists DEF FleetInit, Raceful
<1>2. DraftsStayOutsideTheContract
  BY DEF FleetInit, NoCycle, DraftsStayOutsideTheContract
<1>3. Slotted
  BY FleetAssumption DEF FleetInit, Slotted
<1>4. Budgeted
  BY FleetAssumption DEF FleetInit, Budgeted, NoUse, Axis
<1> QED
  BY <1>1, <1>2, <1>3, <1>4 DEF FleetInit, FleetInv, Fresh

\* A turn of the race: one result more, and a message when the verifier judged.
LEMMA TurnKeeps ==
  ASSUME FleetInv, NEW a, NEW verdict \in Verdicts, proposers # << >>, TurnOver(a, verdict),
         \/ /\ verdict \in {"Accepted", "Rejected"}
            /\ \E kind : Post(a, kind) /\ (verdict = "Accepted" => kind = "PatchProposal")
         \/ verdict \notin {"Accepted", "Rejected"} /\ board' = board
  PROVE  Raceful'
<1> DEFINE e == [agent |-> a, result |-> verdict]
<1>1. /\ results' = Append(results, e)
      /\ proposers' = IF verdict = "Accepted" THEN << >> ELSE Tail(proposers)
      /\ winner' = IF verdict = "Accepted" THEN a ELSE winner
  BY DEF TurnOver
<1>2. /\ Listed(results) /\ Listed(board) /\ Cardinality(Judged(results)) = Len(board)
      /\ \A i \in DOMAIN results : results[i].result # "Accepted"
      /\ winner # "none" =>
           \E i \in DOMAIN results : results[i] = [agent |-> winner, result |-> "Accepted"]
  BY DEF FleetInv, Raceful
<1>3. winner = "none"
  BY <1>2
<1>4. e.result = verdict
  OBVIOUS
<1> HIDE DEF e
<1>5. /\ Listed(results') /\ Len(results) \in Nat /\ Len(results') = Len(results) + 1
      /\ DOMAIN results' = 1 .. Len(results) + 1 /\ DOMAIN results = 1 .. Len(results)
      /\ results'[Len(results) + 1] = e
      /\ \A i \in DOMAIN results : results'[i] = results[i]
  BY <1>1, <1>2, AppendListed
<1>6. \A i \in DOMAIN results' :
        results'[i].result = "Accepted" => i = Len(results') /\ proposers' = << >>
  BY <1>1, <1>2, <1>4, <1>5
<1>7. CASE verdict \in {"Accepted", "Rejected"}
  <2>1. PICK kind : Post(a, kind) /\ (verdict = "Accepted" => kind = "PatchProposal")
    BY <1>7
  <2> DEFINE msg == [from |-> a, kind |-> kind]
  <2>2. board' = Append(board, msg)
    BY <2>1 DEF Post
  <2> HIDE DEF msg
  <2>3. /\ Listed(board') /\ Len(board') = Len(board) + 1 /\ Len(board) \in Nat
        /\ DOMAIN board' = 1 .. Len(board) + 1 /\ board'[Len(board) + 1] = msg
    BY <1>2, <2>2, AppendListed
  <2>4. Cardinality(Judged(results')) = Len(board')
    BY <1>1, <1>2, <1>4, <1>7, <2>3, OneMoreTurn
  <2>5. winner' # "none" =>
          /\ \E i \in DOMAIN results' : results'[i] = [agent |-> winner', result |-> "Accepted"]
          /\ \E i \in DOMAIN board' : board'[i] = [from |-> winner', kind |-> "PatchProposal"]
    <3>1. CASE verdict = "Accepted"
      <4>1. results'[Len(results) + 1] = [agent |-> winner', result |-> "Accepted"]
        BY <1>1, <1>5, <3>1 DEF e
      <4>2. board'[Len(board) + 1] = [from |-> winner', kind |-> "PatchProposal"]
        BY <1>1, <2>1, <2>3, <3>1 DEF msg
      <4> QED
        BY <1>5, <2>3, <4>1, <4>2
    <3>2. CASE verdict # "Accepted"
      BY <1>1, <1>3, <3>2
    <3> QED
      BY <3>1, <3>2
  <2> QED
    BY <1>5, <1>6, <2>3, <2>4, <2>5 DEF Raceful
<1>8. CASE verdict \notin {"Accepted", "Rejected"}
  <2>1. board' = board /\ winner' = winner
    BY <1>1, <1>8
  <2>2. Judged(results') = Judged(results)
    BY <1>1, <1>2, <1>4, <1>8, OneMoreTurn
  <2> QED
    BY <1>2, <1>3, <1>5, <1>6, <2>1, <2>2 DEF Raceful
<1> QED
  BY <1>7, <1>8

\* What a turn must keep beside the race.
LEMMA TurnStands ==
  ASSUME FleetInv, NEW a, NEW verdict, proposers # << >>, TurnOver(a, verdict), Raceful',
         Slotted', Budgeted'
  PROVE  FleetInv'
<1>1. UNCHANGED <<task, registry, others, verdicts, waited, consults, outcome, cycle, runs>>
  BY DEF TurnOver
<1>2. task # << >> /\ ~ Hard(task.changed) /\ outcome # "ReadyToIntegrate"
  BY DEF FleetInv, Fresh
<1>3. DraftsStayOutsideTheContract'
  BY <1>1 DEF FleetInv, DraftsStayOutsideTheContract
<1> QED
  BY <1>1, <1>2, <1>3 DEF FleetInv

\* A step that leaves the slots alone, and one that gives back the race's slot.
LEMMA SlotStands ==
  ASSUME Slotted, UNCHANGED <<running, others, slot, registry>>, slot = "none"
  PROVE  Slotted'
  BY DEF Slotted

LEMMA SlotIsGivenBack ==
  ASSUME Slotted, slot # "none", slot' = "none", running' = Finished(running),
         UNCHANGED <<others, registry>>
  PROVE  Slotted'
  BY FleetAssumption DEF Slotted, Finished

LEMMA RefuseAgentKeeps ==
  ASSUME FleetInv, RefuseAgent
  PROVE  FleetInv'
<1> DEFINE a == Head(proposers)
<1>1. proposers # << >> /\ slot = "none" /\ UNCHANGED <<running, slot, usage, board>>
  BY DEF RefuseAgent
<1>2. PICK verdict \in {"UnknownAgent", "Concurrency"} : TurnOver(a, verdict)
  BY DEF RefuseAgent
<1> HIDE DEF a
<1>3. verdict \in Verdicts /\ verdict \notin {"Accepted", "Rejected"}
  BY DEF Verdicts
<1>4. Raceful'
  BY <1>1, <1>2, <1>3, TurnKeeps
<1>5. Slotted'
  BY <1>1, <1>2, SlotStands DEF FleetInv, TurnOver
<1>6. Budgeted'
  BY <1>1 DEF FleetInv, Budgeted
<1> QED
  BY <1>1, <1>2, <1>4, <1>5, <1>6, TurnStands

LEMMA StartAgentKeeps ==
  ASSUME FleetInv, StartAgent
  PROVE  FleetInv'
<1>1. /\ proposers # << >> /\ slot = "none" /\ Head(proposers) \in registry /\ running < MaxRunning
      /\ running' = running + 1 /\ slot' = Head(proposers)
      /\ UNCHANGED <<task, registry, others, usage, proposers, results, winner, board, verdicts,
                     waited, consults, outcome, cycle, runs>>
  BY DEF StartAgent, HasSlot
<1>2. Head(proposers) # "none"
  BY <1>1, FleetAssumption DEF FleetInv, Slotted
<1>3. Slotted'
  BY <1>1, <1>2, FleetAssumption DEF FleetInv, Slotted
<1>4. Raceful' /\ Budgeted' /\ DraftsStayOutsideTheContract'
  BY <1>1 DEF FleetInv, Raceful, Budgeted, DraftsStayOutsideTheContract
<1> QED
  BY <1>1, <1>3, <1>4 DEF FleetInv, Fresh, Reviewed

LEMMA AgentPanicsKeeps ==
  ASSUME FleetInv, AgentPanics
  PROVE  FleetInv'
<1>1. /\ slot # "none" /\ slot' = "none" /\ running' = Finished(running)
      /\ proposers' = << >> /\ outcome' = "Unwound"
      /\ UNCHANGED <<task, registry, others, usage, results, winner, board, verdicts, waited,
                     consults, cycle, runs>>
  BY DEF AgentPanics
<1>2. Slotted'
  BY <1>1, SlotIsGivenBack DEF FleetInv
<1>3. Raceful' /\ Budgeted' /\ DraftsStayOutsideTheContract'
  BY <1>1 DEF FleetInv, Raceful, Budgeted, DraftsStayOutsideTheContract
<1>4. task # << >>
  BY <1>1 DEF FleetInv, Fresh, Slotted
<1> QED
  BY <1>1, <1>2, <1>3, <1>4 DEF FleetInv

LEMMA EndAgentKeeps ==
  ASSUME FleetInv, NEW verdict, NEW charge \in Uses, NEW worked,
         EndAgent(verdict, charge, worked)
  PROVE  FleetInv'
<1> DEFINE a == slot
           answered == ExecResult(worked, verdict)
<1>1. proposers # << >> /\ slot # "none" /\ slot' = "none" /\ running' = Finished(running)
  BY DEF EndAgent, FleetInv, Slotted
<1>2. \A r : TurnOver(a, r) => Slotted'
  BY <1>1, SlotIsGivenBack DEF FleetInv, TurnOver
<1>3. CASE \/ TurnOver(a, "Exec") /\ UNCHANGED <<usage, board>>
           \/ /\ Breach(a, charge) # "none" /\ TurnOver(a, Breach(a, charge))
              /\ UNCHANGED <<usage, board>>
  <2>1. Breach(a, charge) \in {"none", "Wall", "Output", "Tokens"}
    BY DEF Breach
  <2> HIDE DEF a
  <2>2. PICK r \in {"Exec", "Wall", "Output", "Tokens"} :
          TurnOver(a, r) /\ UNCHANGED <<usage, board>>
    BY <1>3, <2>1
  <2>3. r \in Verdicts /\ r \notin {"Accepted", "Rejected"}
    BY DEF Verdicts
  <2>4. Raceful'
    BY <1>1, <2>2, <2>3, TurnKeeps
  <2>5. Budgeted'
    BY <2>2 DEF FleetInv, Budgeted
  <2> QED
    BY <1>1, <1>2, <2>2, <2>4, <2>5, TurnStands
<1>4. CASE /\ Breach(a, charge) = "none"
           /\ usage' = [usage EXCEPT ![a] = Spent(a, charge)]
           /\ Post(a, IF answered[1].verified THEN "PatchProposal" ELSE "TestResult")
           /\ TurnOver(a, IF answered[1].verified THEN "Accepted" ELSE "Rejected")
  <2>1. PICK r \in {"Accepted", "Rejected"}, kind \in {"PatchProposal", "TestResult"} :
          TurnOver(a, r) /\ Post(a, kind) /\ (r = "Accepted" => kind = "PatchProposal")
    BY <1>4
  <2>2. Budgeted'
    <3>1. Budgeted /\ charge \in [Axis -> Nat]
      BY FleetAssumption DEF FleetInv
    <3>2. \A x \in Axis : ~ (Spent(a, charge)[x] > Budget[x])
      BY <1>4 DEF Breach, Axis
    <3>3. Budget \in [Axis -> Nat]
      BY FleetAssumption
    <3>4. CASE a \in Agent
      <4>1. /\ Spent(a, charge) \in [Axis -> Nat]
            /\ \A x \in Axis : Spent(a, charge)[x] <= Budget[x]
        BY <3>1, <3>2, <3>3, <3>4 DEF Spent, Budgeted
      <4> HIDE DEF a
      <4> QED
        BY <1>4, <3>1, <3>4, <4>1 DEF Budgeted
    <3>5. CASE a \notin Agent
      <4> HIDE DEF a
      <4> QED
        BY <1>4, <3>1, <3>5 DEF Budgeted
    <3> QED
      BY <3>4, <3>5
  <2> HIDE DEF a, answered
  <2>3. r \in Verdicts
    BY DEF Verdicts
  <2>4. Raceful'
    BY <1>1, <2>1, <2>3, TurnKeeps
  <2> QED
    BY <1>1, <1>2, <2>1, <2>2, <2>4, TurnStands
<1> QED
  BY <1>3, <1>4 DEF EndAgent, RunCharged

\* Other callers of the scheduler.
LEMMA OthersKeep ==
  ASSUME FleetInv, OtherSpawns \/ OtherFinishes
  PROVE  FleetInv'
<1>1. /\ proposers = << >>
      /\ UNCHANGED <<task, registry, slot, usage, proposers, results, winner, board, verdicts,
                     waited, consults, outcome, cycle, runs>>
  BY DEF OtherSpawns, OtherFinishes
<1>2. Slotted'
  BY <1>1, FleetAssumption DEF FleetInv, Slotted, OtherSpawns, OtherFinishes, HasSlot, Finished
<1>3. Raceful' /\ Budgeted' /\ DraftsStayOutsideTheContract'
  BY <1>1 DEF FleetInv, Raceful, Budgeted, DraftsStayOutsideTheContract
<1> QED
  BY <1>1, <1>2, <1>3 DEF FleetInv, Fresh, Reviewed

LEMMA PlanTaskKeeps ==
  ASSUME FleetInv, NEW changed, NEW risk, NEW budget, NEW known \in {Agent, {"Native"}},
         PlanTask(changed, risk, budget, known)
  PROVE  FleetInv'
<1> DEFINE shape == ShapeOf(changed)
           route == Route(shape, risk, budget, <<"Native", "Codex">>, MinBudget, MaxFanout)
<1>1. /\ task = << >> /\ proposers' = route.fleet /\ registry' = known /\ cycle' = NoCycle
      /\ task' = [changed |-> changed, shape |-> shape, risk |-> risk, route |-> route]
      /\ outcome' \in {"Blocked", "AdvisoryRequested", "none"}
      /\ UNCHANGED <<running, others, slot, usage, results, winner, board, verdicts, waited,
                     consults, runs>>
  BY DEF PlanTask
<1>2. Hard(changed) => route.fleet = << >>
  BY HardIsNotRouted
<1> HIDE DEF shape, route
<1>3. Fresh
  BY <1>1 DEF FleetInv
<1>4. task'.changed = changed /\ task'.route = route /\ task' # << >>
  <2>1. "route" \in DOMAIN task'
    BY <1>1
  <2>2. DOMAIN << >> = {}
    OBVIOUS
  <2> QED
    BY <1>1, <2>1, <2>2
<1>5. Raceful'
  <2>1. results' = << >> /\ board' = << >> /\ winner' = "none"
    BY <1>1, <1>3 DEF Fresh
  <2> QED
    BY <2>1, EmptyLists DEF Raceful
<1>6. DraftsStayOutsideTheContract'
  BY <1>1 DEF NoCycle, DraftsStayOutsideTheContract
<1>7. Budgeted'
  BY <1>1 DEF FleetInv, Budgeted
<1>8. Slotted'
  BY <1>1, <1>3 DEF FleetInv, Fresh, Slotted
<1> QED
  BY <1>1, <1>2, <1>3, <1>4, <1>5, <1>6, <1>7, <1>8 DEF FleetInv, Fresh

\* Steps of the review: the race stands.
LEMMA ReviewKeeps ==
  ASSUME FleetInv,
         UNCHANGED <<task, registry, running, others, slot, usage, proposers, results, winner,
                     board, cycle, runs>>,
         outcome' = "ReadyToIntegrate" => proposers = << >> /\ winner # "none" /\ Reviewed',
         task = << >> => outcome' = "none"
  PROVE  FleetInv'
<1>1. Raceful'
  BY DEF FleetInv, Raceful
<1>2. DraftsStayOutsideTheContract' /\ Slotted' /\ Budgeted'
  BY DEF FleetInv, DraftsStayOutsideTheContract, Slotted, Budgeted
<1> QED
  BY <1>1, <1>2 DEF FleetInv, Fresh

LEMMA FinalizeKeeps ==
  ASSUME FleetInv, Finalize
  PROVE  FleetInv'
<1>1. /\ task # << >> /\ proposers = << >>
      /\ outcome' = FinalizeTask(task.shape, task.risk, winner # "none", verdicts, waited, MaxWait)
      /\ UNCHANGED <<task, registry, running, others, slot, usage, proposers, results, winner,
                     board, verdicts, waited, consults, cycle, runs>>
  BY DEF Finalize, Raced
<1>2. outcome' = "ReadyToIntegrate" => winner # "none" /\ Reviewed'
  <2> SUFFICES ASSUME outcome' = "ReadyToIntegrate" PROVE winner # "none" /\ Reviewed'
    OBVIOUS
  <2>1. FinalizeTask(task.shape, task.risk, winner # "none", verdicts, waited, MaxWait)
          = "ReadyToIntegrate"
    BY <1>1
  <2>2. /\ winner # "none"
        /\ Reviewed
    BY <2>1, ReadyMeansReviewed DEF Reviewed
  <2> QED
    BY <1>1, <2>2 DEF Reviewed
<1> QED
  BY <1>1, <1>2, ReviewKeeps

\* A cycle that ends in a draft has both kinds of evidence and no contract file.
LEMMA RunCycleKeeps ==
  ASSUME FleetInv, NEW changed, NEW ran \in EvalRuns, RunCycle(changed, ran)
  PROVE  FleetInv'
<1>1. /\ cycle' = [outcome |-> IF Prepare(Evidence(ran)) # "Ready" THEN "NotReady"
                               ELSE IF ContractGate(changed) # {} THEN "BlockedForMaintainer"
                               ELSE "DraftReady",
                   changed |-> changed, ran |-> ran]
      /\ UNCHANGED <<task, registry, running, others, slot, usage, proposers, results, winner,
                     board, verdicts, waited, consults, outcome, runs>>
  BY DEF RunCycle
<1>2. ASSUME Prepare(Evidence(ran)) = "Ready"
      PROVE  \A kind \in {"Demonstrates", "GuardsRegression"} :
               \E i \in DOMAIN ran : ran[i] = [kind |-> kind, result |-> "verified"]
  <2>1. \A kind \in {"Demonstrates", "GuardsRegression"} : kind \in Evidence(ran)
    BY <1>2 DEF Prepare
  <2>2. \A i \in DOMAIN ran : ran[i] = [kind |-> ran[i].kind, result |-> ran[i].result]
    BY EvalAssumption
  <2> QED
    BY <2>1, <2>2 DEF Evidence
<1>3. ContractGate(changed) = {} => \A i \in DOMAIN changed : ~ ContractFile(changed[i])
  BY DEF ContractGate
<1>4. DraftsStayOutsideTheContract'
  BY <1>1, <1>2, <1>3 DEF DraftsStayOutsideTheContract
<1>5. Raceful' /\ Slotted' /\ Budgeted'
  BY <1>1 DEF FleetInv, Raceful, Slotted, Budgeted
<1> QED
  BY <1>1, <1>4, <1>5 DEF FleetInv, Fresh, Reviewed

LEMMA NextTaskKeeps ==
  ASSUME FleetInv, NextTask
  PROVE  FleetInv'
<1>1. /\ task' = << >> /\ results' = << >> /\ winner' = "none" /\ board' = << >>
      /\ proposers = << >> /\ outcome' = "none" /\ registry' = {}
      /\ UNCHANGED <<running, others, slot, usage, proposers, cycle>>
  BY DEF NextTask
<1>2. Raceful'
  BY <1>1, EmptyLists DEF Raceful
<1>3. DraftsStayOutsideTheContract' /\ Slotted' /\ Budgeted'
  BY <1>1 DEF FleetInv, DraftsStayOutsideTheContract, Slotted, Budgeted
<1> QED
  BY <1>1, <1>2, <1>3 DEF FleetInv, Fresh

LEMMA FleetStepKeeps ==
  ASSUME FleetInv, FleetNext
  PROVE  FleetInv'
<1>1. CASE \E changed \in FleetChanges, risk \in {"Standard", "High", "Critical"},
             budget \in {0, MinBudget}, known \in {Agent, {"Native"}} :
             PlanTask(changed, risk, budget, known)
  BY <1>1, PlanTaskKeeps
<1>2. CASE \E mode \in {"Off", "Simulated", "Native"}, pressure \in BOOLEAN,
             trigger \in {"TaskStart", "SecurityRisk"} : Consult(mode, trigger, pressure)
  BY <1>2, ReviewKeeps DEF Consult
<1>3. CASE RefuseAgent
  BY <1>3, RefuseAgentKeeps
<1>4. CASE StartAgent
  BY <1>4, StartAgentKeeps
<1>5. CASE AgentPanics
  BY <1>5, AgentPanicsKeeps
<1>6. CASE \E worked \in BOOLEAN, verdict \in {"Verified", "Failed", "Refused"},
             charge \in Uses : EndAgent(verdict, charge, worked)
  BY <1>6, EndAgentKeeps
<1>7. CASE OtherSpawns \/ OtherFinishes
  BY <1>7, OthersKeep
<1>8. CASE \E role \in {"Reviewer", "SecurityAuditor", "Tester", "Planner"}, ok \in BOOLEAN :
             ReceiveVerdict(role, ok)
  BY <1>8, ReviewKeeps DEF ReceiveVerdict, Raced, Settled
<1>9. CASE WaitForReview
  BY <1>9, ReviewKeeps DEF WaitForReview, Raced, Settled
<1>10. CASE Finalize
  BY <1>10, FinalizeKeeps
<1>11. CASE NextTask
  BY <1>11, NextTaskKeeps
<1>12. CASE \E changed \in CycleChanges, ran \in EvalRuns : RunCycle(changed, ran)
  BY <1>12, RunCycleKeeps
<1> QED
  BY <1>1, <1>2, <1>3, <1>4, <1>5, <1>6, <1>7, <1>8, <1>9, <1>10, <1>11, <1>12 DEF FleetNext

\* The invariant holds in every reachable state.
THEOREM FleetInvariant == FleetSpec => []FleetInv
<1>1. FleetInv /\ UNCHANGED fleetVars => FleetInv'
  BY DEF FleetInv, fleetVars, Fresh, Raceful, Slotted, Budgeted, Reviewed,
         DraftsStayOutsideTheContract
<1> QED
  BY <1>1, FleetInitially, FleetStepKeeps, PTL DEF FleetSpec

\* Whatever verdicts arrive, late, twice or in any order: a task is ready only
\* with a winner the verifier accepted, where it requires a review with a vote
\* of every required role and no block of any role that can block, and a change
\* to a workflow or a sensitive file is never run (finalize_task,
\* decide_integration, plan_task).
THEOREM ReadyTasksAreReviewed == FleetSpec => []ReadyIsReviewed
<1>1. FleetInv => ReadyIsReviewed
  BY DEF FleetInv, Raceful, Reviewed, ReadyIsReviewed, Hard
<1> QED
  BY <1>1, FleetInvariant, PTL

\* For any agents, slots, budgets and other callers of the scheduler: it counts
\* exactly the slots that are held, however a run ends, a race charges no agent
\* past any axis of its budget over all its tasks and runs nobody after a
\* winner, and a draft of an improvement cycle has the evidence it needs and
\* stays outside the contract files (run_subagent, SlotGuard, run_cycle).
THEOREM FleetKeepsItsBounds == FleetSpec => []FleetIsBounded
<1>1. FleetInv => FleetIsBounded
  BY DEF FleetInv, Raceful, Slotted, Budgeted, Judged, FleetIsBounded, RaceIsBounded
<1> QED
  BY <1>1, FleetInvariant, PTL

-----------------------------------------------------------------------------
(* Commands.                                                               *)

Phases == {"idle", "refused", "polling", "terminated", "killing", "collecting", "returned"}

\* Phases, processes and pipes have their shapes, and nothing exists before the spawn.
RunShapes ==
  /\ phase \in Phases /\ timedOut \in BOOLEAN
  /\ process \in [Process -> {"none", "running", "zombie", "gone"}]
  /\ grouped \subseteq Process
  /\ written \in [Stream -> Nat]
  /\ pipe \in [Stream -> Seq(Nat)]
  /\ capture \in [Stream -> [buf : Seq(Nat), truncated : BOOLEAN, done : BOOLEAN]]
  /\ phase \in {"idle", "refused"} =>
       /\ process = [p \in Process |-> "none"]
       /\ \A s \in Stream : ~capture[s].done

\* The invocation run was given is one that run_command lets through.
Allowed(run) ==
  /\ run.command.cap = run.command.profile /\ run.command.network = "DenyAll"
  /\ TierRank(ProvidedTier(run.backend)) >= TierRank(run.command.tier)
  /\ run.backend \in {"bubblewrap", "seatbelt"}
  /\ \A n \in DOMAIN run.env :
       /\ n \notin ListedEnv \cup PrefixedEnv \cup SecretEnv
       /\ (n \in PathListEnv /\ run.command.cwd) => \A i \in DOMAIN run.env[n] : run.env[n][i] = "outside"
SpawnedIsAllowed == phase \notin {"idle", "refused"} => Allowed(spawned[1])

\* A capture is the beginning of the stream, the pipe its end, and what lies
\* between them is dropped only once the capture is full.
Carries(b, q, w) ==
  /\ Len(b) <= MaxOutput /\ Len(b) + Len(q) <= w
  /\ \A i \in 1..Len(b) : b[i] = i
  /\ \A i \in 1..Len(q) : q[i] = w - Len(q) + i
  /\ Len(b) = MaxOutput \/ Len(b) + Len(q) = w
Flowing(s) ==
  /\ Carries(capture[s].buf, pipe[s], written[s])
  /\ ~capture[s].truncated => Len(capture[s].buf) + Len(pipe[s]) = written[s]
  /\ capture[s].done => pipe[s] = <<>> /\ Holders = {}
StreamsFlow == \A s \in Stream : Flowing(s)

\* The escalation: it is entered on a timeout only, and past it nothing of the
\* group is left.
Escalated ==
  /\ phase \in {"idle", "refused", "polling"} => ~timedOut
  /\ phase \in {"terminated", "killing"} => timedOut
  /\ phase \in {"collecting", "returned"} => ~Alive("leader")
  /\ phase \in {"collecting", "returned"} /\ timedOut =>
       ((spawned[1].kill /\ "child" \in grouped) \/ Tethered => ~Alive("child"))

ReturnedIsCaptured ==
  phase = "returned" =>
    /\ timedOut => result.status = "TimedOut"
    /\ result.out = [s \in Stream |-> capture[s].buf]
    /\ ~result.truncated => \A s \in Stream : ~capture[s].truncated
    /\ Holders = {} => \A s \in Stream : capture[s].done

ConfinedInv == RunShapes /\ SpawnedIsAllowed /\ StreamsFlow /\ Escalated /\ ReturnedIsCaptured

LEMMA ConfinedStart == ConfinedInit => ConfinedInv
<1> SUFFICES ASSUME ConfinedInit PROVE ConfinedInv
  OBVIOUS
<1> USE DEF ConfinedInit
<1>1. RunShapes
  <2>1. NewCapture \in [buf : Seq(Nat), truncated : BOOLEAN, done : BOOLEAN]
    BY DEF NewCapture
  <2> QED BY <2>1 DEF RunShapes, Phases, NewCapture
<1>2. StreamsFlow
  BY ConfinedAssumption DEF StreamsFlow, Flowing, Carries, NewCapture
<1> QED BY <1>1, <1>2 DEF ConfinedInv, SpawnedIsAllowed, Escalated, ReturnedIsCaptured

\* Streams nobody touches stay as they are, as long as no process appears when
\* there was none.
LEMMA StreamsStill ==
  ASSUME StreamsFlow, UNCHANGED <<written, pipe, capture>>, Holders = {} => Holders' = {}
  PROVE  StreamsFlow'
  BY DEF StreamsFlow, Flowing

\* Processes only die.
LEMMA OnlyDeath ==
  ASSUME RunShapes, NEW ps
  PROVE  /\ Dies(ps) \in [Process -> {"none", "running", "zombie", "gone"}]
         /\ \A p \in Process : Dies(ps)[p] = "running" => process[p] = "running"
         /\ \A p \in Process \cap ps : Dies(ps)[p] # "running"
         /\ "leader" \in ps /\ Tethered => \A p \in Process : Dies(ps)[p] # "running"
  BY DEF RunShapes, Dies, Process

\* What run_command lets through is confined.
LEMMA LetThrough ==
  ASSUME NEW c \in Commands, NEW h \in Hosts, NEW b \in SelectBackend(c.tier, h),
         ~RunCommandRefuses(c, h), ~EnvRefused(c.env, c.cwd), BackendRuns(b, c.cwd)
  PROVE  Allowed([command |-> c, backend |-> b, env |-> SanitizeEnv(c.env), kill |-> "kill" \in h])
<1>1. b \in Backends /\ TierRank(ProvidedTier(b)) >= TierRank(c.tier)
  BY ConfinedAssumption DEF SelectBackend
<1>2. b \in {"bubblewrap", "seatbelt"}
  BY <1>1 DEF Backends, BackendRuns, FirecrackerRuns, WindowsRuns
<1>3. c.cap = c.profile /\ c.network = "DenyAll"
  BY ConfinedAssumption DEF RunCommandRefuses
<1>4. ASSUME NEW n \in DOMAIN SanitizeEnv(c.env)
      PROVE  /\ n \in DOMAIN c.env /\ SanitizeEnv(c.env)[n] = c.env[n]
             /\ n \notin ListedEnv \cup PrefixedEnv \cup SecretEnv
             /\ n \in PathListEnv /\ c.cwd => \A i \in DOMAIN c.env[n] : c.env[n][i] = "outside"
  <2>1. n \in DOMAIN c.env /\ SanitizeEnv(c.env)[n] = c.env[n] /\ ~IsStripped(n)
    BY DEF SanitizeEnv
  <2>2. c.env[n] \in Seq(Components) /\ ~BadVariable(n, c.env[n], c.cwd)
    BY <2>1, ConfinedAssumption DEF EnvRefused
  <2>3. ASSUME n \in PathListEnv, c.cwd, NEW i \in DOMAIN c.env[n] PROVE c.env[n][i] = "outside"
    BY <2>2, <2>3 DEF BadVariable, ValidatePathList, Components
  <2> QED BY <2>1, <2>3 DEF IsStripped
<1> QED BY <1>1, <1>2, <1>3, <1>4 DEF Allowed

LEMMA RunCommandKeeps ==
  ASSUME ConfinedInv, NEW c \in Commands, NEW h \in Hosts, RunCommand(c, h)
  PROVE  ConfinedInv'
<1> USE DEF ConfinedInv
<1>1. CASE phase' = "refused" /\ UNCHANGED <<spawned, process, grouped, writer>>
  BY <1>1 DEF RunCommand, RunShapes, SpawnedIsAllowed, StreamsFlow, Flowing, Escalated, ReturnedIsCaptured,
     Phases, Holders, Alive, Stream, Process
<1>2. CASE phase' = "polling"
  <2>1. PICK b \in SelectBackend(c.tier, h) :
          /\ ~EnvRefused(c.env, c.cwd) /\ BackendRuns(b, c.cwd)
          /\ spawned' = <<[command |-> c, backend |-> b, env |-> SanitizeEnv(c.env), kill |-> "kill" \in h]>>
          /\ process' = [process EXCEPT !["leader"] = "running"]
          /\ grouped' = {"leader"}
    BY <1>2 DEF RunCommand
  <2>2. Allowed(spawned'[1])
    <3>1. spawned'[1] = [command |-> c, backend |-> b, env |-> SanitizeEnv(c.env), kill |-> "kill" \in h]
      BY <2>1
    <3>2. ~RunCommandRefuses(c, h)
      BY <1>2 DEF RunCommand
    <3> QED BY <3>1, <3>2, <2>1, LetThrough
  <2>3. SpawnedIsAllowed'
    BY <2>2 DEF SpawnedIsAllowed, Allowed
  <2>4. RunShapes' /\ Escalated' /\ ReturnedIsCaptured'
    BY <1>2, <2>1 DEF RunCommand, RunShapes, Escalated, ReturnedIsCaptured, Phases, Process, Alive
  <2>5. StreamsFlow'
    <3>1. \A s \in Stream : ~capture[s].done
      BY DEF RunCommand, RunShapes
    <3> QED BY <3>1 DEF RunCommand, StreamsFlow, Flowing
  <2> QED BY <2>3, <2>4, <2>5
<1> QED BY <1>1, <1>2 DEF RunCommand

LEMMA SystemKeeps ==
  ASSUME ConfinedInv, phase # "returned",
         Fork \/ LeaveGroup \/ StdinEnds \/ IdReused \/ \E p \in Process : Exit(p)
  PROVE  ConfinedInv'
<1> USE DEF ConfinedInv
<1>1. CASE Fork
  <2>1. RunShapes' /\ SpawnedIsAllowed' /\ Escalated' /\ ReturnedIsCaptured'
    BY <1>1 DEF Fork, osVars, RunShapes, SpawnedIsAllowed, Allowed, Escalated, ReturnedIsCaptured, Phases,
       Process, Alive, Tethered
  <2>2. Holders # {}
    BY <1>1 DEF Fork, Holders, Process
  <2> QED BY <1>1, <2>1, <2>2, StreamsStill DEF Fork, osVars
<1>2. CASE LeaveGroup
  <2>1. RunShapes' /\ SpawnedIsAllowed' /\ Escalated' /\ ReturnedIsCaptured'
    BY <1>2 DEF LeaveGroup, osVars, RunShapes, SpawnedIsAllowed, Allowed, Escalated, ReturnedIsCaptured,
       Phases, Alive, Tethered
  <2>2. Holders' = Holders
    BY <1>2 DEF LeaveGroup, Holders, Alive
  <2> QED BY <1>2, <2>1, <2>2, StreamsStill DEF LeaveGroup, osVars
<1>3. CASE StdinEnds \/ IdReused
  <2>1. UNCHANGED <<phase, spawned, process, grouped, written, pipe, capture, timedOut, result>>
    BY <1>3 DEF StdinEnds, IdReused, osVars
  <2>2. RunShapes' /\ SpawnedIsAllowed' /\ Escalated' /\ ReturnedIsCaptured' /\ Holders' = Holders
    BY <2>1 DEF RunShapes, SpawnedIsAllowed, Allowed, Escalated, ReturnedIsCaptured, Alive, Tethered, Holders
  <2> QED BY <2>1, <2>2, StreamsStill
<1>4. ASSUME NEW p \in Process, Exit(p) PROVE ConfinedInv'
  <2>1. /\ process' \in [Process -> {"none", "running", "zombie", "gone"}]
        /\ \A q \in Process : process'[q] = "running" => process[q] = "running"
    BY <1>4, OnlyDeath DEF Exit
  <2>2. phase \notin {"idle", "refused"}
    BY <1>4 DEF Exit, Alive, RunShapes, Process
  <2>3. RunShapes' /\ SpawnedIsAllowed' /\ Escalated' /\ ReturnedIsCaptured'
    BY <1>4, <2>1, <2>2 DEF Exit, osVars, RunShapes, SpawnedIsAllowed, Allowed, Escalated,
       ReturnedIsCaptured, Phases, Process, Alive, Tethered
  <2>4. Holders = {} => Holders' = {}
    BY <2>1 DEF Holders, Alive
  <2> QED BY <1>4, <2>3, <2>4, StreamsStill DEF Exit, osVars
<1> QED BY <1>1, <1>2, <1>3, <1>4

\* A write extends the pipe by the next number.
LEMMA WriteCarries ==
  ASSUME NEW b \in Seq(Nat), NEW q \in Seq(Nat), NEW w \in Nat, Carries(b, q, w)
  PROVE  /\ Carries(b, Append(q, w + 1), w + 1)
         /\ Len(b) + Len(q) = w => Len(b) + Len(Append(q, w + 1)) = w + 1
<1> DEFINE a == Append(q, w + 1)
<1>1. /\ Len(a) = Len(q) + 1 /\ Len(q) \in Nat /\ Len(b) \in Nat /\ MaxOutput \in Nat
      /\ \A i \in 1..Len(q) : a[i] = q[i]
      /\ a[Len(q) + 1] = w + 1
  BY ConfinedAssumption
<1> DEFINE la == Len(a)
           lq == Len(q)
           lb == Len(b)
<1>2. /\ la = lq + 1 /\ lq \in Nat /\ lb \in Nat /\ lb <= MaxOutput /\ lb + lq <= w
      /\ \A i \in 1..lb : b[i] = i
      /\ \A i \in 1..lq : a[i] = w - lq + i
      /\ lb = MaxOutput \/ lb + lq = w
      /\ a[lq + 1] = w + 1
  BY <1>1 DEF Carries
<1> HIDE DEF a, la, lq, lb
<1>3. /\ lb <= MaxOutput /\ lb + la <= w + 1
      /\ \A i \in 1..lb : b[i] = i
      /\ lb = MaxOutput \/ lb + la = w + 1
      /\ lb + lq = w => lb + la = w + 1
  BY <1>2
<1>4. \A i \in 1..la : a[i] = w + 1 - la + i
  <2> SUFFICES ASSUME NEW i \in 1..la PROVE a[i] = w + 1 - la + i
    OBVIOUS
  <2>1. i \in 1..lq \/ i = lq + 1
    BY <1>2
  <2>2. CASE i \in 1..lq
    <3>1. a[i] = w - lq + i /\ i \in Int
      BY <2>2, <1>2
    <3> QED BY <3>1, <1>2
  <2>3. CASE i = lq + 1
    BY <2>3, <1>2
  <2> QED BY <2>1, <2>2, <2>3
<1>5. Carries(b, a, w + 1) /\ (Len(b) + Len(q) = w => Len(b) + Len(a) = w + 1)
  BY <1>3, <1>4 DEF Carries, la, lb, lq
<1> QED BY <1>5 DEF a

\* A read moves n numbers out of the pipe and keeps the first k of them; it
\* keeps fewer than it read only when that fills the capture.
LEMMA ReadCarries ==
  ASSUME NEW b \in Seq(Nat), NEW q \in Seq(Nat), NEW w \in Nat, Carries(b, q, w),
         NEW n \in 1..Len(q), NEW k \in 0..n, Len(b) + k <= MaxOutput,
         k < n => Len(b) + k = MaxOutput
  PROVE  /\ b \o SubSeq(q, 1, k) \in Seq(Nat) /\ SubSeq(q, n + 1, Len(q)) \in Seq(Nat)
         /\ Carries(b \o SubSeq(q, 1, k), SubSeq(q, n + 1, Len(q)), w)
         /\ Len(b) + Len(q) = w /\ ~(k < n) =>
              Len(b \o SubSeq(q, 1, k)) + Len(SubSeq(q, n + 1, Len(q))) = w
<1> DEFINE h == SubSeq(q, 1, k)
           t == SubSeq(q, n + 1, Len(q))
           b1 == b \o h
<1>0. /\ Len(q) \in Nat /\ Len(b) \in Nat /\ n \in Nat /\ k \in Nat /\ MaxOutput \in Nat
      /\ n <= Len(q) /\ k <= n
  BY ConfinedAssumption
<1>1. h \in Seq(Nat) /\ Len(h) = k /\ \A i \in 1..k : h[i] = q[i]
  <2>1. \A i \in 1..k : q[i] \in Nat
    BY <1>0
  <2>2. /\ h \in Seq(Nat) /\ Len(h) = IF 1 <= k THEN k - 1 + 1 ELSE 0
        /\ \A i \in 1..(k - 1 + 1) : h[i] = q[1 + i - 1]
    BY <2>1, <1>0, SubSeqProperties
  <2> QED BY <2>2, <1>0
<1>2. t \in Seq(Nat) /\ Len(t) = Len(q) - n /\ \A i \in 1..Len(t) : t[i] = q[n + i]
  <2>1. \A i \in n + 1 .. Len(q) : q[i] \in Nat
    BY <1>0
  <2>2. /\ t \in Seq(Nat) /\ Len(t) = IF n + 1 <= Len(q) THEN Len(q) - (n + 1) + 1 ELSE 0
        /\ \A i \in 1..(Len(q) - (n + 1) + 1) : t[i] = q[(n + 1) + i - 1]
    <3> DEFINE from == n + 1
               to == Len(q)
    <3>1. from \in Int /\ to \in Int /\ \A i \in from .. to : q[i] \in Nat
      BY <2>1, <1>0
    <3> HIDE DEF from, to
    <3>2. /\ SubSeq(q, from, to) \in Seq(Nat)
          /\ Len(SubSeq(q, from, to)) = IF from <= to THEN to - from + 1 ELSE 0
          /\ \A i \in 1 .. (to - from + 1) : SubSeq(q, from, to)[i] = q[from + i - 1]
      BY ONLY <3>1, SubSeqProperties
    <3> QED BY Zenon, <3>2 DEF from, to
  <2> QED BY <2>2, <1>0
<1> HIDE DEF h, t
<1>3. /\ b1 \in Seq(Nat) /\ Len(b1) = Len(b) + k
      /\ \A i \in 1..Len(b) + k : b1[i] = IF i <= Len(b) THEN b[i] ELSE h[i - Len(b)]
  BY <1>1, ConcatProperties
<1> HIDE DEF b1
<1>4. /\ Len(b1) <= MaxOutput /\ Len(b1) + Len(t) <= w
      /\ Len(b) + Len(q) = w /\ ~(k < n) => Len(b1) + Len(t) = w
      /\ Len(b1) = MaxOutput \/ Len(b1) + Len(t) = w
  <2>1. Len(b1) = Len(b) + k /\ Len(t) = Len(q) - n
    BY <1>2, <1>3
  <2>2. Len(b) + Len(q) <= w /\ (Len(b) = MaxOutput \/ Len(b) + Len(q) = w)
    BY DEF Carries
  <2> DEFINE lb == Len(b)
             lq == Len(q)
             lx == Len(b1)
             ly == Len(t)
  <2>3. /\ lb \in Nat /\ lq \in Nat /\ n \in 1..lq /\ lb + k <= MaxOutput /\ (k < n => lb + k = MaxOutput)
        /\ lb + lq <= w /\ (lb = MaxOutput \/ lb + lq = w) /\ lx = lb + k /\ ly = lq - n
    BY <2>1, <2>2, <1>0
  <2> HIDE DEF lb, lq, lx, ly
  <2>4. /\ lx <= MaxOutput /\ lx + ly <= w
        /\ lb + lq = w /\ ~(k < n) => lx + ly = w
        /\ lx = MaxOutput \/ lx + ly = w
    BY <2>3, <1>0
  <2> QED BY <2>4 DEF lb, lq, lx, ly
<1>5. \A i \in 1..Len(t) : t[i] = w - Len(t) + i
  <2> SUFFICES ASSUME NEW i \in 1..Len(t) PROVE t[i] = w - Len(t) + i
    OBVIOUS
  <2>1. t[i] = q[n + i] /\ Len(t) = Len(q) - n
    BY <1>2
  <2>2. n + i \in 1..Len(q) /\ i \in Nat
    BY <2>1, <1>0
  <2>3. q[n + i] = w - Len(q) + (n + i)
    BY <2>2 DEF Carries
  <2>4. w - Len(q) + (n + i) = w - (Len(q) - n) + i
    BY <2>2, <1>0
  <2> QED BY <2>1, <2>3, <2>4
<1>6. \A i \in 1..Len(b1) : b1[i] = i
  <2> SUFFICES ASSUME NEW i \in 1..Len(b) + k PROVE b1[i] = i
    BY <1>3
  <2>1. CASE i <= Len(b)
    <3>1. i \in 1..Len(b) /\ b1[i] = b[i]
      BY <2>1, <1>0, <1>3
    <3> QED BY <3>1 DEF Carries
  <2>2. CASE i > Len(b)
    <3>1. i - Len(b) \in 1..k /\ i - Len(b) \in 1..Len(q) /\ k > 0
      BY <2>2, <1>0
    <3>2. b1[i] = q[i - Len(b)]
      <4>1. b1[i] = h[i - Len(b)]
        <5>1. ~(i <= Len(b))
          BY <2>2, <1>0
        <5> QED BY <5>1, <1>3, Zenon
      <4>2. h[i - Len(b)] = q[i - Len(b)]
        BY <3>1, <1>1
      <4> QED BY <4>1, <4>2
    <3>3. Len(b) + Len(q) = w
      BY <3>1, <1>0 DEF Carries
    <3>4. q[i - Len(b)] = w - Len(q) + (i - Len(b))
      BY <3>1 DEF Carries
    <3>5. w - Len(q) + (i - Len(b)) = i
      BY <3>3, <1>0
    <3> QED BY <3>2, <3>4, <3>5
  <2> QED BY <2>1, <2>2, <1>0
<1>7. /\ b1 \in Seq(Nat) /\ t \in Seq(Nat) /\ Carries(b1, t, w)
      /\ Len(b) + Len(q) = w /\ ~(k < n) => Len(b1) + Len(t) = w
  BY <1>2, <1>3, <1>4, <1>5, <1>6 DEF Carries
<1> QED BY <1>7 DEF b1, h, t

LEMMA WriteKeeps ==
  ASSUME ConfinedInv, phase # "returned", NEW p \in Process, NEW s \in Stream, Write(p, s)
  PROVE  ConfinedInv'
<1> USE DEF ConfinedInv
<1>1. RunShapes'
  <2>1. written[s] + 1 \in Nat /\ written[s] \in Nat /\ pipe[s] \in Seq(Nat)
    BY DEF RunShapes
  <2>2. Append(pipe[s], written[s] + 1) \in Seq(Nat)
    BY <2>1
  <2> QED BY <2>1, <2>2 DEF Write, osVars, RunShapes
<1>2. SpawnedIsAllowed' /\ Escalated' /\ ReturnedIsCaptured'
  BY DEF Write, osVars, SpawnedIsAllowed, Allowed, Escalated, ReturnedIsCaptured, Alive, Tethered
<1>3. Holders # {} /\ Holders' = Holders
  BY DEF Write, Holders, Alive
<1>4. ASSUME NEW t \in Stream PROVE Flowing(t)'
  <2>1. Flowing(t) /\ capture' = capture
    BY DEF StreamsFlow, Write, osVars
  <2>2. CASE t # s
    BY <2>1, <2>2, <1>3 DEF Flowing, Write, RunShapes
  <2>3. CASE t = s
    <3>1. written'[s] = written[s] + 1 /\ pipe'[s] = Append(pipe[s], written[s] + 1)
      BY DEF Write, RunShapes
    <3>2. written[s] \in Nat /\ pipe[s] \in Seq(Nat) /\ capture[s].buf \in Seq(Nat)
      BY DEF RunShapes
    <3>3. ~capture[s].done
      BY <2>1, <2>3, <1>3 DEF Flowing
    <3> QED BY <2>1, <2>3, <3>1, <3>2, <3>3, WriteCarries DEF Flowing
  <2> QED BY <2>2, <2>3
<1> QED BY <1>1, <1>2, <1>4 DEF StreamsFlow

LEMMA ReadKeeps ==
  ASSUME ConfinedInv, phase # "returned", NEW s \in Stream, ReadSome(s)
  PROVE  ConfinedInv'
<1> USE DEF ConfinedInv
<1> DEFINE b == capture[s].buf
           q == pipe[s]
<1>1. PICK n \in 1..Len(q) :
        /\ capture' = [capture EXCEPT ![s] = [buf |-> b \o SubSeq(q, 1, Kept(s, n)),
                                              truncated |-> capture[s].truncated \/ Overflows(s, n),
                                              done |-> capture[s].done]]
        /\ pipe' = [pipe EXCEPT ![s] = SubSeq(@, n + 1, Len(@))]
        /\ UNCHANGED <<phase, spawned, process, grouped, written, timedOut, result>>
  BY DEF ReadSome
<1>2. /\ q \in Seq(Nat) /\ b \in Seq(Nat) /\ capture[s].truncated \in BOOLEAN /\ written[s] \in Nat
      /\ MaxOutput \in Nat /\ Flowing(s) /\ Carries(b, q, written[s])
  BY ConfinedAssumption DEF RunShapes, StreamsFlow, Flowing
<1> DEFINE k == Kept(s, n)
<1>3. /\ k \in 0..n /\ Len(b) + k <= MaxOutput
      /\ k < n => Len(b) + k = MaxOutput
      /\ Overflows(s, n) <=> k < n
  <2>1. n \in Nat /\ Len(b) \in Nat /\ Len(b) <= MaxOutput /\ n >= 0
    BY <1>2 DEF Carries
  <2>2. k = IF n < MaxOutput - Len(b) THEN n ELSE MaxOutput - Len(b)
    BY DEF Kept
  <2>3. Overflows(s, n) <=> k < n
    BY DEF Overflows
  <2> HIDE DEF k, b
  <2> QED BY <2>1, <2>2, <2>3, <1>2
<1> HIDE DEF k
<1>4. /\ b \o SubSeq(q, 1, k) \in Seq(Nat) /\ SubSeq(q, n + 1, Len(q)) \in Seq(Nat)
      /\ Carries(b \o SubSeq(q, 1, k), SubSeq(q, n + 1, Len(q)), written[s])
      /\ Len(b) + Len(q) = written[s] /\ ~(k < n) =>
           Len(b \o SubSeq(q, 1, k)) + Len(SubSeq(q, n + 1, Len(q))) = written[s]
  <2> HIDE DEF b, q
  <2> QED BY <1>1, <1>2, <1>3, ReadCarries
<1> DEFINE b1 == b \o SubSeq(q, 1, k)
           q1 == SubSeq(q, n + 1, Len(q))
<1>5. /\ capture' = [capture EXCEPT ![s] = [buf |-> b1, truncated |-> capture[s].truncated \/ k < n,
                                            done |-> capture[s].done]]
      /\ pipe' = [pipe EXCEPT ![s] = q1]
  BY <1>1 DEF Overflows, k
<1> HIDE DEF b1, q1
<1>6. b1 \in Seq(Nat) /\ q1 \in Seq(Nat) /\ capture[s].done \in BOOLEAN
  BY <1>4 DEF b1, q1, RunShapes
<1>7. /\ capture'[s].buf = b1 /\ capture'[s].done = capture[s].done
      /\ capture'[s].truncated = (capture[s].truncated \/ k < n)
      /\ pipe'[s] = q1 /\ written' = written
      /\ \A t \in Stream \ {s} : capture'[t] = capture[t] /\ pipe'[t] = pipe[t]
  <2>1. DOMAIN capture = Stream /\ DOMAIN pipe = Stream
    BY DEF RunShapes
  <2>2. capture'[s] = [buf |-> b1, truncated |-> capture[s].truncated \/ k < n, done |-> capture[s].done]
    BY <2>1, <1>5
  <2> HIDE DEF b, q
  <2> QED BY <2>1, <2>2, <1>1, <1>5
<1>8. RunShapes'
  <2>1. [buf |-> b1, truncated |-> capture[s].truncated \/ k < n, done |-> capture[s].done]
          \in [buf : Seq(Nat), truncated : BOOLEAN, done : BOOLEAN]
    BY <1>6
  <2>2. /\ capture' \in [Stream -> [buf : Seq(Nat), truncated : BOOLEAN, done : BOOLEAN]]
        /\ pipe' \in [Stream -> Seq(Nat)]
    BY <2>1, <1>5, <1>6 DEF RunShapes
  <2> QED BY <2>2, <1>1, <1>7 DEF RunShapes
<1>9. SpawnedIsAllowed' /\ Escalated' /\ ReturnedIsCaptured' /\ Holders' = Holders
  BY <1>1 DEF SpawnedIsAllowed, Allowed, Escalated, ReturnedIsCaptured, Alive, Tethered, Holders
<1>10. Flowing(s)'
  <2>1. ~capture[s].done
    BY <1>1, <1>2 DEF Flowing
  <2>2. /\ Carries(b1, q1, written[s])
        /\ Len(b) + Len(q) = written[s] /\ ~(k < n) => Len(b1) + Len(q1) = written[s]
    BY <1>4 DEF b1, q1
  <2>3. /\ Carries(capture'[s].buf, pipe'[s], written'[s])
        /\ ~capture'[s].truncated => Len(capture'[s].buf) + Len(pipe'[s]) = written'[s]
    BY <2>2, <1>2, <1>7 DEF Flowing
  <2> QED BY <2>1, <2>3, <1>7 DEF Flowing
<1>11. \A t \in Stream \ {s} : Flowing(t)'
  BY <1>7, <1>9 DEF StreamsFlow, Flowing
<1> QED BY <1>8, <1>9, <1>10, <1>11 DEF StreamsFlow

LEMMA EofKeeps ==
  ASSUME ConfinedInv, phase # "returned", NEW s \in Stream, ReadEof(s)
  PROVE  ConfinedInv'
<1> USE DEF ConfinedInv
<1>1. RunShapes'
  BY DEF ReadEof, RunShapes
<1>2. SpawnedIsAllowed' /\ Escalated' /\ ReturnedIsCaptured' /\ Holders' = Holders
  BY DEF ReadEof, SpawnedIsAllowed, Allowed, Escalated, ReturnedIsCaptured, Alive, Tethered, Holders
<1>3. ASSUME NEW t \in Stream PROVE Flowing(t)'
  BY <1>2 DEF ReadEof, StreamsFlow, Flowing, RunShapes
<1> QED BY <1>1, <1>2, <1>3 DEF StreamsFlow

LEMMA RunKeeps ==
  ASSUME ConfinedInv, Run
  PROVE  ConfinedInv'
<1> USE DEF ConfinedInv
<1>1. CASE PollExit \/ GraceSeesExit
  <2>0. /\ phase \in {"polling", "terminated"} /\ phase' \in {"collecting", "killing"}
        /\ phase' = "collecting" <=> phase = "polling"
        /\ process' = [process EXCEPT !["leader"] = "gone"]
        /\ UNCHANGED <<spawned, grouped, capture, written, pipe, timedOut>>
    BY <1>1 DEF PollExit, GraceSeesExit, Reap
  <2>1. RunShapes' /\ SpawnedIsAllowed' /\ Escalated' /\ ReturnedIsCaptured'
    BY <2>0 DEF RunShapes, SpawnedIsAllowed, Allowed, Escalated, ReturnedIsCaptured, Phases, Process, Alive
  <2>2. Holders = {} => Holders' = {}
    BY <1>1 DEF PollExit, GraceSeesExit, Reap, RunShapes, Holders, Alive, Process
  <2> QED BY <1>1, <2>1, <2>2, StreamsStill DEF PollExit, GraceSeesExit
<1>2. CASE PollTimeout
  <2>1. /\ process' \in [Process -> {"none", "running", "zombie", "gone"}]
        /\ \A q \in Process : process'[q] = "running" => process[q] = "running"
    BY <1>2, OnlyDeath DEF PollTimeout
  <2>2. RunShapes' /\ SpawnedIsAllowed' /\ Escalated' /\ ReturnedIsCaptured'
    BY <1>2, <2>1 DEF PollTimeout, RunShapes, SpawnedIsAllowed, Allowed, Escalated, ReturnedIsCaptured, Phases
  <2>3. Holders = {} => Holders' = {}
    BY <2>1 DEF Holders, Alive
  <2> QED BY <1>2, <2>2, <2>3, StreamsStill DEF PollTimeout
<1>3. CASE GraceEnds
  <2>1. RunShapes' /\ SpawnedIsAllowed' /\ Escalated' /\ ReturnedIsCaptured' /\ Holders' = Holders
    BY <1>3 DEF GraceEnds, RunShapes, SpawnedIsAllowed, Allowed, Escalated, ReturnedIsCaptured, Phases,
       Holders, Alive
  <2> QED BY <1>3, <2>1, StreamsStill DEF GraceEnds
<1>4. CASE Kill
  <2> DEFINE ps == KillGroup("KILL") \cup {"leader"}
  <2>1. /\ process' = [Dies(ps) EXCEPT !["leader"] = "gone"]
        /\ UNCHANGED <<spawned, grouped, written, pipe, capture, timedOut, result>>
        /\ phase = "killing" /\ phase' = "collecting"
    BY <1>4 DEF Kill
  <2>2. /\ Dies(ps) \in [Process -> {"none", "running", "zombie", "gone"}]
        /\ \A q \in Process : Dies(ps)[q] = "running" => process[q] = "running"
        /\ (spawned[1].kill /\ "child" \in grouped) \/ Tethered => Dies(ps)["child"] # "running"
    BY OnlyDeath DEF Process, KillGroup
  <2> HIDE DEF ps
  <2>3. /\ process' \in [Process -> {"none", "running", "zombie", "gone"}]
        /\ \A q \in Process : process'[q] = "running" => process[q] = "running"
        /\ process'["leader"] = "gone"
        /\ (spawned[1].kill /\ "child" \in grouped) \/ Tethered => process'["child"] # "running"
    BY <2>1, <2>2 DEF Process
  <2>4. RunShapes' /\ SpawnedIsAllowed' /\ Escalated' /\ ReturnedIsCaptured'
    BY <2>1, <2>3 DEF RunShapes, SpawnedIsAllowed, Allowed, Escalated, ReturnedIsCaptured, Phases, Alive,
       Tethered
  <2>5. Holders = {} => Holders' = {}
    BY <2>3 DEF Holders, Alive
  <2> QED BY <2>1, <2>4, <2>5, StreamsStill
<1>5. CASE Collect
  <2>1. /\ phase = "collecting" /\ phase' = "returned"
        /\ UNCHANGED <<spawned, process, grouped, written, pipe, capture, timedOut>>
    BY <1>5 DEF Collect
  <2>2. /\ timedOut => result'.status = "TimedOut"
        /\ result'.out = [s \in Stream |-> capture[s].buf]
        /\ ~result'.truncated => \A s \in Stream : ~capture[s].truncated
        /\ Holders = {} => \A s \in Stream : capture[s].done
    <3>1. PICK code : result' = [status |-> FromStatus(code), out |-> [s \in Stream |-> capture[s].buf],
                                 truncated |-> \E s \in Stream : capture[s].truncated]
      BY <1>5 DEF Collect
    <3>2. timedOut => result'.status = "TimedOut"
      BY <3>1 DEF FromStatus
    <3>3. /\ result'.out = [s \in Stream |-> capture[s].buf]
          /\ result'.truncated = \E s \in Stream : capture[s].truncated
      BY <3>1
    <3> QED BY <1>5, <3>2, <3>3 DEF Collect, Collected
  <2>3. ReturnedIsCaptured'
    BY <2>1, <2>2 DEF ReturnedIsCaptured, Holders, Alive
  <2>4. RunShapes' /\ SpawnedIsAllowed' /\ Escalated' /\ Holders' = Holders
    BY <2>1 DEF RunShapes, SpawnedIsAllowed, Allowed, Escalated, Phases, Alive, Tethered, Holders
  <2> QED BY <2>1, <2>3, <2>4, StreamsStill
<1> QED BY <1>1, <1>2, <1>3, <1>4, <1>5 DEF Run

LEMMA ConfinedStep == ConfinedInv /\ [ConfinedNext]_confinedVars => ConfinedInv'
<1> SUFFICES ASSUME ConfinedInv, [ConfinedNext]_confinedVars PROVE ConfinedInv'
  OBVIOUS
<1>1. CASE UNCHANGED confinedVars
  BY <1>1 DEF confinedVars, ConfinedInv, RunShapes, SpawnedIsAllowed, Allowed, StreamsFlow, Flowing,
     Escalated, ReturnedIsCaptured, Holders, Alive, Tethered
<1>2. CASE ConfinedNext
  BY <1>2, RunCommandKeeps, SystemKeeps, WriteKeeps, ReadKeeps, EofKeeps, RunKeeps DEF ConfinedNext
<1> QED BY <1>1, <1>2

LEMMA ConfinedMeans == ConfinedInv => CommandsAreConfined
<1> SUFFICES ASSUME ConfinedInv PROVE CommandsAreConfined
  OBVIOUS
<1> USE DEF ConfinedInv
<1>1. OnlyConfinedCommandsRun
  BY DEF OnlyConfinedCommandsRun, SpawnedIsAllowed, Allowed, RunShapes, Process
<1>2. CaptureIsHonest
  <2> SUFFICES ASSUME phase = "returned", NEW s \in Stream
               PROVE  /\ result.out[s] = [i \in 1..Len(result.out[s]) |-> i]
                      /\ Len(result.out[s]) <= MaxOutput
                      /\ (~result.truncated /\ Holders = {}) => Len(result.out[s]) = written[s]
    BY DEF CaptureIsHonest
  <2>1. /\ result.out[s] = capture[s].buf /\ Flowing(s) /\ capture[s].buf \in Seq(Nat)
        /\ written[s] \in Nat
    BY DEF ReturnedIsCaptured, StreamsFlow, RunShapes
  <2>2. capture[s].buf = [i \in 1..Len(capture[s].buf) |-> i]
    <3> DEFINE c == capture[s].buf
    <3>1. c \in Seq(Nat) /\ \A i \in 1..Len(c) : c[i] = i
      BY <2>1 DEF Flowing, Carries
    <3> HIDE DEF c
    <3>2. c = [i \in 1..Len(c) |-> c[i]]
      BY <3>1
    <3>3. c = [i \in 1..Len(c) |-> i]
      BY <3>1, <3>2
    <3> QED BY <3>3 DEF c
  <2>3. ~result.truncated /\ Holders = {} => ~capture[s].truncated /\ pipe[s] = <<>>
    BY <2>1 DEF ReturnedIsCaptured, Flowing
  <2>4. Len(capture[s].buf) <= MaxOutput
    BY <2>1 DEF Flowing, Carries
  <2>5. ~result.truncated /\ Holders = {} => Len(capture[s].buf) = written[s]
    <3> DEFINE l == Len(capture[s].buf)
    <3>1. l \in Nat /\ Len(<<>>) = 0
      BY <2>1
    <3>2. ~result.truncated /\ Holders = {} => l + Len(<<>>) = written[s]
      BY <2>1, <2>3 DEF Flowing
    <3> HIDE DEF l
    <3>3. ~result.truncated /\ Holders = {} => l = written[s]
      BY <3>1, <3>2
    <3> QED BY <3>3 DEF l
  <2> QED BY <2>1, <2>2, <2>4, <2>5
<1>3. TimedOutTreeIsGone
  BY DEF TimedOutTreeIsGone, Escalated, ReturnedIsCaptured, Holders, Process
<1> QED BY <1>1, <1>2, <1>3 DEF CommandsAreConfined

(***************************************************************************)
(* Whatever a command, its descendants, its pipes and the signals do, a    *)
(* process exists only for an invocation that passed every check of        *)
(* run_command, what run returns is the beginning of each stream and says  *)
(* when it is not all of it unless a process outlived the command, and a   *)
(* run that timed out leaves nothing of its group where there is a kill    *)
(* binary, and nothing at all under bubblewrap (run_command, spawn_reader, *)
(* kill_group), for any commands, hosts and bounds.                        *)
(***************************************************************************)
THEOREM CommandsConfined == ConfinedSpec => []CommandsAreConfined
<1>1. ConfinedSpec => []ConfinedInv
  BY ConfinedStart, ConfinedStep, PTL DEF ConfinedSpec
<1> QED BY <1>1, ConfinedMeans, PTL

-----------------------------------------------------------------------------
(* The receipts of a chain.                                                *)

\* The digest a receipt at place i is linked to.
LinkTo(rs, i) == IF i = 1 THEN Genesis ELSE ReceiptBody(rs[i - 1])

\* A call as it is minted: no longer a list than a frame can hold.
Bounded(c) ==
  /\ c = [tool |-> c.tool, artifacts |-> c.artifacts]
  /\ c.artifacts \in Seq(Nat) /\ Len(c.artifacts) <= MaxArtifacts

\* The i-th receipt is the chain's own: numbered, linked and authenticated.
Minted(rs, i) == rs[i] = Receipt(rs[i].call, i, LinkTo(rs, i)) /\ Bounded(rs[i].call)

Held(s) == {s[i] : i \in 1 .. Len(s)}

ReceiptsInv ==
  /\ minted = [x \in Chain |-> minted[x]] /\ head = [x \in Chain |-> head[x]]
  /\ presented \in Seq(Held(presented))
  /\ \A x \in Chain :
       /\ minted[x] \in Seq(Held(minted[x]))
       /\ \A i \in 1 .. Len(minted[x]) : Minted(minted[x], i)
       /\ head[x] = LinkTo(minted[x], Len(minted[x]) + 1)
  /\ \A i \in 1 .. Len(presented) : \E x \in Chain : \E k \in 1 .. Len(minted[x]) :
       presented[i] \in {minted[x][k], Altered(minted[x][k])}

LEMMA HeldBy ==
  ASSUME NEW S, NEW s \in Seq(S)
  PROVE  s \in Seq(Held(s)) /\ Len(s) \in Nat /\ DOMAIN s = 1 .. Len(s)
<1>1. Len(s) \in Nat /\ s \in [1 .. Len(s) -> S] /\ DOMAIN s = 1 .. Len(s)
  BY LenProperties
<1>2. s \in [1 .. Len(s) -> Held(s)]
  BY <1>1 DEF Held
<1> QED BY <1>1, <1>2, SeqDef

LEMMA ReceiptsStart == ReceiptsInit => ReceiptsInv
<1> SUFFICES ASSUME ReceiptsInit PROVE ReceiptsInv
  OBVIOUS
<1>1. << >> \in Seq(Held(<< >>)) /\ Len(<< >>) = 0
  BY EmptySeq
<1> QED BY <1>1 DEF ReceiptsInit, ReceiptsInv, LinkTo

\* A list cut to the bound.
LEMMA CutList ==
  ASSUME NEW S, NEW list \in Seq(S)
  PROVE  /\ BoundArtifacts(list) \in Seq(S) /\ Len(BoundArtifacts(list)) <= MaxArtifacts
         /\ Len(list) <= MaxArtifacts => BoundArtifacts(list) = list
<1>1. Len(list) \in Nat /\ MaxArtifacts \in Nat
  BY ReceiptsAssumption, LenProperties
<1>2. PICK n \in Nat : /\ n <= MaxArtifacts /\ n <= Len(list) /\ (Len(list) <= MaxArtifacts => n = Len(list))
                      /\ n = IF Len(list) < MaxArtifacts THEN Len(list) ELSE MaxArtifacts
  <2>1. CASE Len(list) < MaxArtifacts
    <3> WITNESS Len(list) \in Nat
    <3> QED BY <1>1, <2>1
  <2>2. CASE ~ (Len(list) < MaxArtifacts)
    <3>1. MaxArtifacts \in Nat
      BY <1>1
    <3> WITNESS MaxArtifacts \in Nat
    <3> QED BY <1>1, <2>2
  <2> QED BY <2>1, <2>2
<1>3. BoundArtifacts(list) = SubSeq(list, 1, n)
  BY <1>2 DEF BoundArtifacts
<1>4. \A i \in 1 .. n : list[i] \in S
  BY <1>1, <1>2, ElementOfSeq
<1>5. SubSeq(list, 1, n) \in Seq(S) /\ Len(SubSeq(list, 1, n)) = IF 1 <= n THEN n - 1 + 1 ELSE 0
  BY <1>2, <1>4, SubSeqProperties
<1>6. Len(SubSeq(list, 1, n)) = n
  BY <1>2, <1>5
<1>7. Len(list) <= MaxArtifacts => SubSeq(list, 1, n) = list
  BY <1>2, SubSeqFull
<1> QED BY <1>2, <1>3, <1>5, <1>6, <1>7

LEMMA MintKeeps ==
  ASSUME ReceiptsInv, NEW x \in Chain, NEW c \in Calls, Mint(x, c)
  PROVE  ReceiptsInv'
<1> DEFINE call == [c EXCEPT !.artifacts = BoundArtifacts(@)]
           old == minted[x]
           n == Len(old) + 1
           r == Receipt(call, n, head[x])
           new == Append(old, r)
<1>1. c = [tool |-> c.tool, artifacts |-> c.artifacts] /\ c.artifacts \in Seq(Nat)
  BY ReceiptsAssumption
<1>2. call = [tool |-> c.tool, artifacts |-> BoundArtifacts(c.artifacts)]
  BY <1>1
<1>3. Bounded(call)
  BY <1>1, <1>2, CutList DEF Bounded
<1> HIDE DEF call
<1>4. /\ minted' = [minted EXCEPT ![x] = new] /\ head' = [head EXCEPT ![x] = ReceiptBody(r)]
      /\ presented' = presented
  BY DEF Mint, call
<1>5. Len(old) \in Nat /\ old \in Seq(Held(old) \union {r})
  BY LenProperties, SeqMonotonic DEF ReceiptsInv
<1>6. /\ new \in Seq(Held(old) \union {r}) /\ Len(new) = n
      /\ new[n] = r /\ \A i \in 1 .. Len(old) : new[i] = old[i]
  BY <1>5, AppendProperties
<1>7. new \in Seq(Held(new))
  BY <1>6, HeldBy
<1> HIDE DEF new
<1>8. \A i \in 1 .. n : LinkTo(new, i) = LinkTo(old, i)
  <2> SUFFICES ASSUME NEW i \in 1 .. n, i # 1 PROVE new[i - 1] = old[i - 1]
    BY DEF LinkTo
  <2>1. i - 1 \in 1 .. Len(old)
    BY <1>5
  <2> QED BY <2>1, <1>6
<1>9. ASSUME NEW i \in 1 .. n PROVE Minted(new, i)
  <2>1. CASE i = n
    <3>1. LinkTo(new, i) = head[x]
      BY <2>1, <1>8 DEF ReceiptsInv
    <3>2. new[i] = r /\ r.call = call
      BY <2>1, <1>6 DEF Receipt
    <3> QED BY <2>1, <3>1, <3>2, <1>3 DEF Minted
  <2>2. CASE i # n
    <3>1. i \in 1 .. Len(old)
      BY <2>2, <1>5
    <3>2. Minted(old, i) /\ new[i] = old[i] /\ LinkTo(new, i) = LinkTo(old, i)
      BY <3>1, <1>6, <1>8 DEF ReceiptsInv
    <3> QED BY <3>2 DEF Minted
  <2> QED BY <2>1, <2>2
<1>10. ReceiptBody(r) = LinkTo(new, Len(new) + 1)
  <2>1. Len(new) + 1 # 1 /\ Len(new) + 1 - 1 = n
    BY <1>5, <1>6
  <2> QED BY <2>1, <1>6 DEF LinkTo
<1> HIDE DEF r
<1>11. /\ minted' = [y \in Chain |-> minted'[y]] /\ head' = [y \in Chain |-> head'[y]]
       /\ minted'[x] = new /\ head'[x] = ReceiptBody(r)
       /\ \A y \in Chain \ {x} : minted'[y] = minted[y] /\ head'[y] = head[y]
  BY <1>4 DEF ReceiptsInv
<1>12. \A i \in 1 .. Len(presented) : \E y \in Chain : \E k \in 1 .. Len(minted'[y]) :
         presented[i] \in {minted'[y][k], Altered(minted'[y][k])}
  <2> TAKE i \in 1 .. Len(presented)
  <2>1. PICK y \in Chain : \E k \in 1 .. Len(minted[y]) : presented[i] \in {minted[y][k], Altered(minted[y][k])}
    BY DEF ReceiptsInv
  <2>2. PICK k \in 1 .. Len(minted[y]) : presented[i] \in {minted[y][k], Altered(minted[y][k])}
    BY <2>1
  <2>3. k \in 1 .. Len(minted'[y]) /\ minted'[y][k] = minted[y][k]
    BY <1>5, <1>6, <1>11
  <2> QED BY <2>2, <2>3
<1>13. ASSUME NEW y \in Chain
       PROVE  /\ minted'[y] \in Seq(Held(minted'[y]))
              /\ \A i \in 1 .. Len(minted'[y]) : Minted(minted'[y], i)
              /\ head'[y] = LinkTo(minted'[y], Len(minted'[y]) + 1)
  <2>1. CASE y = x
    BY <2>1, <1>6, <1>7, <1>9, <1>10, <1>11
  <2>2. CASE y # x
    BY <2>2, <1>11 DEF ReceiptsInv
  <2> QED BY <2>1, <2>2
<1>14. presented' \in Seq(Held(presented'))
  BY <1>4 DEF ReceiptsInv
<1>15. \A i \in 1 .. Len(presented') : \E y \in Chain : \E k \in 1 .. Len(minted'[y]) :
         presented'[i] \in {minted'[y][k], Altered(minted'[y][k])}
  BY <1>4, <1>12
<1> QED BY <1>11, <1>13, <1>14, <1>15, Zenon DEF ReceiptsInv

LEMMA PresentKeeps ==
  ASSUME ReceiptsInv, Present
  PROVE  ReceiptsInv'
<1> DEFINE all == AllReceipts \union {Altered(r) : r \in AllReceipts}
<1>1. UNCHANGED <<head, minted>> /\ presented' \in BoundedSeq(all, MaxMinted)
  BY DEF Present
<1>2. \A x \in Chain : Len(minted[x]) \in Nat /\ DOMAIN minted[x] = 1 .. Len(minted[x])
  BY LenProperties DEF ReceiptsInv
<1> HIDE DEF all
<1>3. PICK m \in 0 .. MaxMinted : presented' \in [1 .. m -> all]
  BY <1>1 DEF BoundedSeq, SeqOf
<1>4. presented' \in Seq(all)
  BY <1>3, SeqDef, ReceiptsAssumption
<1>5. presented' \in Seq(Held(presented'))
  BY <1>4, HeldBy
<1>6. \A i \in 1 .. Len(presented') : presented'[i] \in all
  BY <1>4, ElementOfSeq
<1>7. ASSUME NEW i \in 1 .. Len(presented')
      PROVE  \E x \in Chain : \E k \in 1 .. Len(minted[x]) :
               presented'[i] \in {minted[x][k], Altered(minted[x][k])}
  <2>1. PICK r \in AllReceipts : presented'[i] \in {r, Altered(r)}
    BY <1>6 DEF all
  <2>2. PICK x \in Chain : \E k \in 1 .. Len(minted[x]) : r = minted[x][k]
    BY <1>2, <2>1 DEF AllReceipts
  <2> QED BY <2>1, <2>2
<1> QED BY <1>1, <1>5, <1>7 DEF ReceiptsInv, LinkTo

\* The fields of a minted receipt.
LEMMA FieldsOf ==
  ASSUME ReceiptsInv, NEW x \in Chain, NEW j \in 1 .. Len(minted[x])
  PROVE  /\ minted[x][j].seq = j /\ minted[x][j].prev = LinkTo(minted[x], j)
         /\ ReceiptBody(minted[x][j]) = <<minted[x][j].call, j, LinkTo(minted[x], j)>>
         /\ minted[x][j].mac = Mac("key", ReceiptBody(minted[x][j]))
<1> DEFINE m == minted[x][j]
<1>1. m = Receipt(m.call, j, LinkTo(minted[x], j))
  BY DEF ReceiptsInv, Minted
<1> HIDE DEF m
<1>2. /\ m.seq = j /\ m.prev = LinkTo(minted[x], j)
      /\ m.mac = Mac("key", <<m.call, j, LinkTo(minted[x], j)>>)
  BY <1>1 DEF Receipt
<1> QED BY <1>2 DEF ReceiptBody, m

\* A receipt whose MAC is its own is one that was minted.
LEMMA AuthenticIsMinted ==
  ASSUME ReceiptsInv, NEW r, NEW x \in Chain, NEW k \in 1 .. Len(minted[x]),
         r \in {minted[x][k], Altered(minted[x][k])}, r.mac = Mac("key", ReceiptBody(r))
  PROVE  r = minted[x][k]
<1> DEFINE m == minted[x][k]
           changed == [m.call EXCEPT !.tool = "another"]
           link == LinkTo(minted[x], k)
<1>1. m = Receipt(m.call, k, link) /\ Bounded(m.call) /\ r \in {m, Altered(m)}
  BY DEF ReceiptsInv, Minted
<1> HIDE DEF m, link
<1>2. m.mac = <<"key", <<m.call, k, link>>>> /\ m.seq = k /\ m.prev = link
  BY <1>1 DEF Receipt, Mac
<1>3. ASSUME r = Altered(m) PROVE r = m
  <2>1. Altered(m) = [m EXCEPT !.call = changed]
    BY <1>1 DEF Altered, Receipt
  <2> HIDE DEF changed
  <2>2. r.call = changed /\ r.mac = m.mac /\ r.seq = m.seq /\ r.prev = m.prev
    BY <1>1, <1>3, <2>1 DEF Receipt
  <2>3. changed = m.call
    BY <1>2, <2>2 DEF ReceiptBody, Mac
  <2> QED BY <1>1, <1>3, <2>1, <2>3 DEF Receipt
<1> QED BY <1>1, <1>3 DEF m

Precedes == {pair \in Nat \X Nat : pair[1] < pair[2]}

\* Every set of natural numbers has a least one.
LEMMA LeastNumber ==
  ASSUME NEW T \in SUBSET Nat, T # {}
  PROVE  \E x \in T : \A y \in T : x <= y
<1>1. IsWellFoundedOn(Precedes, Nat)
  BY NatLessThanWellFounded DEF OpToRel, Precedes
<1>2. T \subseteq Nat
  OBVIOUS
<1>3. PICK x \in T : \A y \in T : <<y, x>> \notin Precedes
  BY <1>1, <1>2, WFMin
<1>4. ASSUME NEW y \in T PROVE x <= y
  <2>1. y \in Nat /\ x \in Nat
    BY <1>2
  <2>2. y < x => <<y, x>> \in Precedes
    BY <2>1 DEF Precedes
  <2> QED BY <2>1, <2>2, <1>3
<1> QED BY <1>4

\* Two receipts with the same body are the same receipt.
LEMMA SameBody ==
  ASSUME ReceiptsInv, NEW x \in Chain, NEW j \in 1 .. Len(minted[x]),
         NEW y \in Chain, NEW k \in 1 .. Len(minted[y]),
         ReceiptBody(minted[x][j]) = ReceiptBody(minted[y][k])
  PROVE  minted[x][j] = minted[y][k]
<1> DEFINE m == minted[x][j]
           o == minted[y][k]
           link == LinkTo(minted[x], j)
           olink == LinkTo(minted[y], k)
<1>1. m = Receipt(m.call, j, link) /\ o = Receipt(o.call, k, olink)
  BY DEF ReceiptsInv, Minted
<1>2. <<m.call, j, link>> = <<o.call, k, olink>>
  BY FieldsOf
<1> HIDE DEF m, o, link, olink
<1>3. m.call = o.call /\ j = k /\ link = olink
  BY <1>2
<1>4. m = o
  BY <1>1, <1>3
<1> QED BY <1>4 DEF m, o

\* Receipts in which walk finds no break were minted, each at the place where
\* it stands: the first that was not would be linked to the place before it,
\* and a receipt is linked to the place before its own.
LEMMA UnbrokenIsInPlace ==
  ASSUME ReceiptsInv, \A i \in 1 .. Len(presented) : ~ BreaksAt(presented, i)
  PROVE  \A i \in 1 .. Len(presented) : \E x \in Chain :
           i \in 1 .. Len(minted[x]) /\ presented[i] = minted[x][i]
<1> DEFINE Stands(i) == \E x \in Chain : i \in 1 .. Len(minted[x]) /\ presented[i] = minted[x][i]
           Apart == {i \in 1 .. Len(presented) : ~ Stands(i)}
<1> SUFFICES ASSUME Apart # {} PROVE FALSE
  OBVIOUS
<1>1. Len(presented) \in Nat /\ \A x \in Chain : Len(minted[x]) \in Nat
  BY LenProperties DEF ReceiptsInv
<1>2. Apart \in SUBSET Nat
  BY <1>1
<1>3. PICK i \in Apart : \A y \in Apart : i <= y
  BY <1>2, LeastNumber
<1>4. i \in 1 .. Len(presented) /\ ~ Stands(i)
  BY <1>3
<1>5. i # 1 => i - 1 \in 1 .. Len(presented) /\ i - 1 \notin Apart
  BY <1>1, <1>3, <1>4
<1>6. i # 1 => Stands(i - 1)
  BY <1>5
<1> HIDE DEF Apart
<1>7. ~ BreaksAt(presented, i)
  BY <1>4
<1>8. PICK x \in Chain : \E k \in 1 .. Len(minted[x]) : presented[i] \in {minted[x][k], Altered(minted[x][k])}
  BY <1>4 DEF ReceiptsInv
<1>9. PICK k \in 1 .. Len(minted[x]) : presented[i] \in {minted[x][k], Altered(minted[x][k])}
  BY <1>8
<1>10. presented[i] = minted[x][k]
  BY <1>7, <1>9, AuthenticIsMinted DEF BreaksAt
<1>11. presented[i].prev = LinkTo(minted[x], k)
  BY <1>10, FieldsOf
<1>12. presented[i].prev = LinkTo(presented, i)
  BY <1>7 DEF BreaksAt, LinkTo
<1>13. ASSUME NEW y \in Chain, NEW j \in 1 .. Len(minted[y])
       PROVE  ReceiptBody(minted[y][j]) # Genesis /\ ReceiptBody(minted[y][j])[2] = j
  <2>1. ReceiptBody(minted[y][j]) = <<minted[y][j].call, j, LinkTo(minted[y], j)>>
    BY FieldsOf
  <2> QED BY <2>1 DEF Genesis
<1>14. k # 1 => k - 1 \in 1 .. Len(minted[x]) /\ LinkTo(minted[x], k) = ReceiptBody(minted[x][k - 1])
  BY <1>1 DEF LinkTo
<1>15. i # 1 => \E y \in Chain : i - 1 \in 1 .. Len(minted[y]) /\ LinkTo(presented, i) = ReceiptBody(minted[y][i - 1])
  BY <1>6 DEF LinkTo
<1>16. (k = 1 => LinkTo(minted[x], k) = Genesis) /\ (i = 1 => LinkTo(presented, i) = Genesis)
  BY DEF LinkTo
<1> HIDE DEF Stands
<1>17. i = 1 <=> k = 1
  BY <1>11, <1>12, <1>13, <1>14, <1>15, <1>16
<1>18. i # 1 => i - 1 = k - 1
  BY <1>11, <1>12, <1>13, <1>14, <1>15, <1>17
<1>19. i = k
  BY <1>1, <1>4, <1>9, <1>17, <1>18
<1> QED BY <1>4, <1>9, <1>10, <1>19 DEF Stands

\* They are one run's from the start when the last of them is: the place
\* before the last that agrees holds what that one is linked to.
LEMMA LastNamesTheRun ==
  ASSUME ReceiptsInv, \A i \in 1 .. Len(presented) : ~ BreaksAt(presented, i),
         NEW x \in Chain, Len(presented) \in 1 .. Len(minted[x]),
         presented[Len(presented)] = minted[x][Len(presented)]
  PROVE  \A i \in 1 .. Len(presented) : presented[i] = minted[x][i]
<1> DEFINE n == Len(presented)
           Apart == {b \in 0 .. n - 1 : presented[n - b] # minted[x][n - b]}
<1>1. n \in Nat /\ n >= 1 /\ Len(minted[x]) \in Nat /\ n <= Len(minted[x]) /\ presented[n] = minted[x][n]
  BY LenProperties DEF ReceiptsInv
<1>2. \A i \in 1 .. n : ~ BreaksAt(presented, i)
  OBVIOUS
<1>3. \A i \in 1 .. n : \E y \in Chain : i \in 1 .. Len(minted[y]) /\ presented[i] = minted[y][i]
  BY UnbrokenIsInPlace
<1> HIDE DEF n
<1>4. ASSUME Apart # {} PROVE FALSE
  <2>1. Apart \in SUBSET Nat
    BY <1>1
  <2>2. PICK b \in Apart : \A y \in Apart : b <= y
    BY <2>1, <1>4, LeastNumber
  <2>3. b \in 0 .. n - 1 /\ presented[n - b] # minted[x][n - b]
    BY <2>2
  <2>4. n - 0 = n
    BY <1>1
  <2>5. b # 0
    BY <1>1, <2>3, <2>4
  <2>6. b - 1 \in 0 .. n - 1 /\ ~ (b <= b - 1)
    BY <1>1, <2>3, <2>5
  <2>7. presented[n - (b - 1)] = minted[x][n - (b - 1)]
    BY <2>2, <2>6
  <2> DEFINE i == n - (b - 1)
  <2>8. i \in 2 .. n /\ i - 1 = n - b /\ i - 1 \in 1 .. n /\ i \in 1 .. Len(minted[x]) /\ i - 1 \in 1 .. Len(minted[x]) /\ i \in 1 .. n
    BY <1>1, <2>3, <2>6
  <2>9. presented[i] = minted[x][i] /\ presented[i - 1] # minted[x][i - 1]
    BY <2>3, <2>7, <2>8
  <2> HIDE DEF i
  <2>10. presented[i].prev = ReceiptBody(presented[i - 1])
    BY <1>2, <2>8 DEF BreaksAt
  <2>11. presented[i].prev = ReceiptBody(minted[x][i - 1])
    BY <2>8, <2>9, FieldsOf DEF LinkTo
  <2>12. PICK y \in Chain : i - 1 \in 1 .. Len(minted[y]) /\ presented[i - 1] = minted[y][i - 1]
    BY <1>3, <2>8
  <2>13. minted[y][i - 1] = minted[x][i - 1]
    <3> DEFINE j == i - 1
    <3>1. j \in 1 .. Len(minted[x]) /\ j \in 1 .. Len(minted[y])
      BY <2>8, <2>12
    <3>2. ReceiptBody(minted[y][j]) = ReceiptBody(minted[x][j])
      BY <2>10, <2>11, <2>12
    <3> HIDE DEF j
    <3>3. minted[y][j] = minted[x][j]
      BY <3>1, <3>2, SameBody
    <3> QED BY <3>3 DEF j
  <2> QED BY <2>9, <2>12, <2>13
<1>5. ASSUME NEW i \in 1 .. n PROVE presented[i] = minted[x][i]
  <2>1. n - i \in 0 .. n - 1 /\ n - (n - i) = i
    BY <1>1
  <2>2. n - i \notin Apart
    BY <1>4
  <2> QED BY <2>1, <2>2
<1> QED BY <1>5 DEF n

LEMMA ReceiptsMean == ReceiptsInv => OnlyTheChainVerifies
<1> SUFFICES ASSUME ReceiptsInv PROVE OnlyTheChainVerifies
  OBVIOUS
<1>1. /\ Len(presented) \in Nat /\ DOMAIN presented = 1 .. Len(presented)
      /\ presented = << >> <=> Len(presented) = 0
      /\ \A x \in Chain : Len(minted[x]) \in Nat /\ DOMAIN minted[x] = 1 .. Len(minted[x])
  BY LenProperties, EmptySeq DEF ReceiptsInv
<1>2. \A rs : Verify(rs).intact <=> \A i \in DOMAIN rs : ~ BreaksAt(rs, i)
  BY DEF Verify
<1>3. ASSUME Verify(presented).intact PROVE \E x \in Chain : IsPrefix(presented, minted[x])
  <2>1. CASE Len(presented) = 0
    <3>1. PICK x \in Chain : TRUE
      BY ReceiptsAssumption
    <3>2. SubSeq(presented, 1, Len(presented)) = SubSeq(minted[x], 1, Len(presented)) /\ Len(presented) <= Len(minted[x])
      BY <1>1, <2>1
    <3> QED BY <3>2 DEF IsPrefix
  <2>2. CASE Len(presented) # 0
    <3>1. \A i \in 1 .. Len(presented) : ~ BreaksAt(presented, i)
      BY <1>1, <1>2, <1>3
    <3>2. Len(presented) \in 1 .. Len(presented)
      BY <1>1, <2>2
    <3>3. PICK x \in Chain : /\ Len(presented) \in 1 .. Len(minted[x])
                             /\ presented[Len(presented)] = minted[x][Len(presented)]
      BY <3>1, <3>2, UnbrokenIsInPlace
    <3>4. \A i \in 1 .. Len(presented) : presented[i] = minted[x][i]
      BY <3>1, <3>3, LastNamesTheRun
    <3>5. Len(presented) <= Len(minted[x])
      BY <1>1, <3>3
    <3>6. SubSeq(presented, 1, Len(presented)) = SubSeq(minted[x], 1, Len(presented))
      BY <3>4, <3>5, <1>1
    <3> QED BY <3>5, <3>6 DEF IsPrefix
  <2> QED BY <2>1, <2>2
<1>4. ASSUME NEW x \in Chain PROVE \A i \in 1 .. Len(minted[x]) : ~ BreaksAt(minted[x], i)
  <2> TAKE i \in 1 .. Len(minted[x])
  <2>1. minted[x][i].prev = LinkTo(minted[x], i) /\ minted[x][i].mac = Mac("key", ReceiptBody(minted[x][i]))
    BY FieldsOf
  <2> QED BY <2>1 DEF BreaksAt, LinkTo
<1>5. ASSUME NEW x \in Chain
      PROVE  head[x] = IF minted[x] = << >> THEN Genesis ELSE ReceiptBody(minted[x][Len(minted[x])])
  <2>1. minted[x] = << >> <=> Len(minted[x]) = 0
    BY EmptySeq, <1>1 DEF ReceiptsInv
  <2>2. Len(minted[x]) + 1 - 1 = Len(minted[x]) /\ (Len(minted[x]) + 1 = 1 <=> Len(minted[x]) = 0)
    BY <1>1
  <2> QED BY <2>1, <2>2 DEF ReceiptsInv, LinkTo
<1>6. ASSUME NEW x \in Chain, VerifyComplete(x, presented).intact PROVE presented = minted[x]
  <2>1. /\ Verify(presented).intact /\ Len(presented) = Len(minted[x])
        /\ head[x] = IF presented = << >> THEN Genesis ELSE ReceiptBody(presented[Len(presented)])
    BY <1>6 DEF VerifyComplete
  <2>2. \A i \in 1 .. Len(presented) : ~ BreaksAt(presented, i)
    BY <1>1, <1>2, <2>1
  <2>3. \A i \in 1 .. Len(presented) : presented[i] = minted[x][i]
    <3>1. CASE Len(presented) = 0
      BY <3>1
    <3>2. CASE Len(presented) # 0
      <4> DEFINE n == Len(presented)
      <4>1. n \in 1 .. n /\ n \in 1 .. Len(minted[x]) /\ minted[x] # << >>
        BY <1>1, <2>1, <3>2, EmptySeq
      <4>2. ReceiptBody(presented[n]) = ReceiptBody(minted[x][n])
        BY <1>1, <1>5, <2>1, <3>2, <4>1
      <4>3. PICK y \in Chain : n \in 1 .. Len(minted[y]) /\ presented[n] = minted[y][n]
        BY <2>2, <4>1, UnbrokenIsInPlace
      <4>4. presented[n] = minted[x][n]
        <5> HIDE DEF n
        <5>1. minted[y][n] = minted[x][n]
          BY <4>1, <4>2, <4>3, SameBody
        <5> QED BY <4>3, <5>1
      <4> QED BY <2>2, <4>1, <4>4, LastNamesTheRun
    <3> QED BY <3>1, <3>2
  <2>4. presented \in Seq(Held(presented) \union Held(minted[x])) /\ minted[x] \in Seq(Held(presented) \union Held(minted[x]))
    BY SeqMonotonic DEF ReceiptsInv
  <2> QED BY <2>1, <2>3, <2>4, SeqEqual
<1>7. ASSUME NEW x \in Chain, presented = minted[x] PROVE VerifyComplete(x, presented).intact
  <2>1. Verify(minted[x]).intact
    BY <1>1, <1>2, <1>4
  <2> QED BY <1>5, <1>7, <2>1 DEF VerifyComplete
<1>8. ASSUME NEW x \in Chain, NEW i \in DOMAIN minted[x] PROVE FromBytes(ToBytes(minted[x][i])) = <<minted[x][i]>>
  <2> DEFINE r == minted[x][i]
             list == r.call.artifacts
             link == LinkTo(minted[x], i)
  <2>1. r = Receipt(r.call, i, link) /\ Bounded(r.call)
    BY <1>1 DEF ReceiptsInv, Minted
  <2> HIDE DEF r, link
  <2>2. BoundArtifacts(list) = list /\ Len(list) <= MaxArtifacts /\ Len(list) \in Nat /\ MaxArtifacts \in Nat
    BY <2>1, CutList, LenProperties, ReceiptsAssumption DEF Bounded
  <2>3. ToBytes(r) = [r EXCEPT !.call.artifacts = BoundArtifacts(list)]
    BY DEF ToBytes, BoundArtifacts
  <2>4. ToBytes(r) = r
    BY <2>1, <2>2, <2>3 DEF Receipt, Bounded
  <2> QED BY <2>2, <2>4 DEF FromBytes, r
<1> QED BY <1>3, <1>6, <1>7, <1>8 DEF OnlyTheChainVerifies

\* verify (crustcore-receipts) passes only a beginning of what one run minted,
\* and verify_complete only the whole of its own chain, for any calls, however
\* many runs mint under the one key, and whatever of theirs is presented.
THEOREM ReceiptsCannotBeForged == ReceiptsSpec => []OnlyTheChainVerifies
<1>1. ReceiptsInv /\ [ReceiptsNext]_receiptVars => ReceiptsInv'
  <2> SUFFICES ASSUME ReceiptsInv, [ReceiptsNext]_receiptVars PROVE ReceiptsInv'
    OBVIOUS
  <2>1. CASE UNCHANGED receiptVars
    BY <2>1 DEF receiptVars, ReceiptsInv, LinkTo
  <2> QED BY <2>1, MintKeeps, PresentKeeps DEF ReceiptsNext
<1> QED BY <1>1, ReceiptsStart, ReceiptsMean, PTL DEF ReceiptsSpec

\* A run that exits 0 left a log that inspects clean and, if it had its tree to
\* itself, is about the patch that was verified; receipts verify only if they
\* are an unaltered beginning of those one run minted, this run or another under
\* the same key, and verify_complete passes all of its own alone
\* (crustcore/src/main.rs, crustcore-receipts).
THEOREM RecordsAreReliable == NanoSpec /\ ReceiptsSpec => []RecordsAreSound
<1>1. EvidenceIsSound /\ OnlyTheChainVerifies => RecordsAreSound
  BY DEF RecordsAreSound
<1> QED BY <1>1, ExitZeroIsVerified, ReceiptsCannotBeForged, PTL


-----------------------------------------------------------------------------
(* The planner.                                                            *)

\* A plan called strong has what its shape of task needs.
LEMMA StrongPlans ==
  ASSUME NEW repo, NEW signals, NEW shape, NEW markers,
         signals.browser = SignalsOf(markers).browser, signals.audit = SignalsOf(markers).audit,
         BuildPlan(repo, signals, shape).strength = "Strong"
  PROVE  LET built == BuildPlan(repo, signals, shape)
         IN  /\ repo.verify # << >> /\ built.task = shape
             /\ shape # "DocsOnly" => AnyCommand(built.commands, "full")
             /\ shape = "UiChange" => AnyCommand(built.commands, "browser")
             /\ shape = "DependencyChange" => signals.lockfile /\ AnyCommand(built.commands, "audit")
<1> DEFINE commands == PlanCommands(repo, signals, shape)
           weak == {w \in {"no stack"} : SignalsEmpty(signals) /\ repo.verify = << >>}
                   \cup {w \in {"no command"} : commands = {}}
                   \cup {w \in {"no full suite"} :
                           /\ shape # "DocsOnly"
                           /\ ~\E c \in commands : c.stage = "Full"}
                   \cup TaskLacks(signals, shape, commands)
           notes == {w \in {"general evidence"} :
                       /\ shape = "DocsOnly" /\ signals.docs = NoCommand
                       /\ commands # {} /\ ~AnyCommand(commands, "docs")}
                    \cup {w \in {"human review"} : shape \in {"WorkflowChange", "SecuritySensitive"}}
           verdict == IF weak # {} THEN "Weak"
                      ELSE IF repo.verify = << >> \/ notes # {} THEN "Standard"
                      ELSE "Strong"
<1>1. /\ BuildPlan(repo, signals, shape).strength = verdict
      /\ BuildPlan(repo, signals, shape).commands = commands
      /\ BuildPlan(repo, signals, shape).task = shape
  BY DEF BuildPlan
<1> HIDE DEF commands, notes, weak
<1>2. verdict = "Strong" => weak = {} /\ repo.verify # << >>
  OBVIOUS
<1>3. weak = {} /\ repo.verify # << >>
  BY <1>1, <1>2
<1>4. /\ shape # "DocsOnly" => \E c \in commands : c.stage = "Full"
      /\ TaskLacks(signals, shape, commands) = {}
  BY <1>3 DEF weak
<1> DEFINE first == SignalCommands(signals, shape) \ {NoCommand, ""}
           named == IF repo.verify = << >> THEN InferredFull(signals) ELSE ToSet(repo.verify)
<1>5. commands = {[command |-> c, stage |-> "Targeted"] : c \in first}
                 \cup {[command |-> c, stage |-> ClassifyCommand(c)] : c \in named \ (first \cup {""})}
  BY DEF commands, PlanCommands
<1> HIDE DEF first, named
<1>6. ASSUME shape # "DocsOnly" PROVE AnyCommand(commands, "full")
  <2>1. PICK r \in commands : r.stage = "Full"
    BY <1>4, <1>6
  <2>2. \/ \E c \in first : r = [command |-> c, stage |-> "Targeted"]
        \/ \E c \in named : r = [command |-> c, stage |-> ClassifyCommand(c)]
    BY <1>5
  <2>3. PICK c \in named : r = [command |-> c, stage |-> ClassifyCommand(c)]
    BY <2>1, <2>2
  <2>5. r.command = c /\ ClassifyCommand(c) = "Full"
    BY <2>1, <2>3
  <2>4. Passes(c, "full")
    BY <2>5 DEF ClassifyCommand
  <2> QED BY <2>4, <2>5 DEF AnyCommand
<1>7. \A c \in first : \E r \in commands : r.command = c
  <2> TAKE c \in first
  <2>1. [command |-> c, stage |-> "Targeted"] \in commands
    BY <1>5
  <2>2. [command |-> c, stage |-> "Targeted"].command = c
    OBVIOUS
  <2> QED BY <2>1, <2>2, Zenon
<1>8. ASSUME shape = "UiChange" PROVE AnyCommand(commands, "browser")
  <2>1. CASE signals.browser # NoCommand
    <3>1. signals.browser \in {"npx playwright test", "npx cypress run"}
      BY <2>1 DEF SignalsOf, NoCommand
    <3>2. Passes(signals.browser, "browser")
      BY <3>1 DEF Passes, CommandsPassing
    <3>3. SignalCommands(signals, shape) = ToSet(signals.targeted) \cup {signals.browser}
      BY <1>8, Zenon DEF SignalCommands
    <3>4. signals.browser \in first
      BY <2>1, <3>1, <3>3 DEF first
    <3> QED BY <3>2, <3>4, <1>7 DEF AnyCommand
  <2>2. CASE signals.browser = NoCommand
    <3>1. ~ AnyCommand(commands, "browser") => "no browser smoke" \in TaskLacks(signals, shape, commands)
      BY <1>8, <2>2 DEF TaskLacks
    <3> QED BY <3>1, <1>4
  <2> QED BY <2>1, <2>2
<1>9. ASSUME shape = "DependencyChange" PROVE signals.lockfile /\ AnyCommand(commands, "audit")
  <2>1. signals.lockfile
    <3>1. ~ signals.lockfile => "no lockfile" \in TaskLacks(signals, shape, commands)
      BY <1>9 DEF TaskLacks
    <3> QED BY <3>1, <1>4
  <2>2. CASE signals.audit # NoCommand
    <3>1. signals.audit = "cargo deny check"
      BY <2>2 DEF SignalsOf, NoCommand
    <3>2. Passes(signals.audit, "audit")
      BY <3>1 DEF Passes, CommandsPassing
    <3>3. shape # "UiChange"
      BY <1>9
    <3>4. SignalCommands(signals, shape) = ToSet(signals.targeted) \cup {signals.audit}
      BY <1>9, <3>3, Zenon DEF SignalCommands
    <3>5. signals.audit \in first
      BY <2>2, <3>1, <3>4 DEF first
    <3> QED BY <2>1, <3>2, <3>5, <1>7 DEF AnyCommand
  <2>3. CASE signals.audit = NoCommand
    <3>1. ~ AnyCommand(commands, "audit") => "no audit" \in TaskLacks(signals, shape, commands)
      BY <1>9, <2>3 DEF TaskLacks
    <3> QED BY <2>1, <3>1, <1>4
  <2> QED BY <2>2, <2>3
<1> QED BY <1>1, <1>3, <1>6, <1>8, <1>9

\* What a walk keeps.
Walks ==
  [paths : Seq({"a", "a/d", "a/e", "b"}), symlinks : Nat, skipped : Nat,
   entered : SUBSET {"root", "a", "a/d", "a/e", "b"}, marks : SUBSET {"truncated", "stopped"}]

\* One turn of the walk: it never takes a mark or a path back, and unless it
\* marks the walk truncated it keeps what it can see, and enters what it keeps.
LEMMA VisitKeeps ==
  ASSUME NEW files, NEW s \in Walks, NEW place \in {"a", "a/d", "a/e", "b"},
         "stopped" \in s.marks => "truncated" \in s.marks
  PROVE  LET r == Visit(files, s, place)
         IN  /\ r \in Walks /\ ("stopped" \in r.marks => "truncated" \in r.marks) /\ ("truncated" \in s.marks => "truncated" \in r.marks)
             /\ ToSet(s.paths) \subseteq ToSet(r.paths) /\ s.entered \subseteq r.entered
             /\ ToSet(r.paths) \subseteq ToSet(s.paths) \union {place}
             /\ "truncated" \notin r.marks =>
                  /\ (place \in ToSet(r.paths) /\ files[place] = "dir") =>
                       place \in r.entered \/ place \in ToSet(s.paths)
                  /\ (/\ Above(place) \in s.entered
                      /\ files[place] \notin {"none", "unsafe", "ignored", "symlink"})
                     => place \in ToSet(r.paths)
<1> DEFINE P == {"a", "a/d", "a/e", "b"}
           kept == Keep(s, place)
<1> DEFINE Good(r) ==
             /\ r \in Walks /\ ("stopped" \in r.marks => "truncated" \in r.marks) /\ ("truncated" \in s.marks => "truncated" \in r.marks)
             /\ ToSet(s.paths) \subseteq ToSet(r.paths) /\ s.entered \subseteq r.entered
             /\ ToSet(r.paths) \subseteq ToSet(s.paths) \union {place}
             /\ "truncated" \notin r.marks =>
                  /\ (place \in ToSet(r.paths) /\ files[place] = "dir") =>
                       place \in r.entered \/ place \in ToSet(s.paths)
                  /\ (/\ Above(place) \in s.entered
                      /\ files[place] \notin {"none", "unsafe", "ignored", "symlink"})
                     => place \in ToSet(r.paths)
<1> DEFINE Marks == {"truncated", "stopped"}
           Walk(ps, l, k, en, m) == [paths |-> ps, symlinks |-> l, skipped |-> k, entered |-> en, marks |-> m]
           Fits(ps, en, m) ==
             /\ ToSet(s.paths) \subseteq ToSet(ps) /\ s.entered \subseteq en
             /\ ToSet(ps) \subseteq ToSet(s.paths) \union {place}
             /\ ("stopped" \in m => "truncated" \in m) /\ ("truncated" \in s.marks => "truncated" \in m)
             /\ "truncated" \notin m =>
                  /\ (place \in ToSet(ps) /\ files[place] = "dir") => place \in en \/ place \in ToSet(s.paths)
                  /\ (/\ Above(place) \in s.entered
                      /\ files[place] \notin {"none", "unsafe", "ignored", "symlink"})
                     => place \in ToSet(ps)
<1>0. ASSUME NEW ps \in Seq(P), NEW l \in Nat, NEW k \in Nat, NEW en \in SUBSET (P \union {"root"}),
             NEW m \in SUBSET Marks, Fits(ps, en, m)
      PROVE  Good(Walk(ps, l, k, en, m))
  <2> DEFINE r == Walk(ps, l, k, en, m)
  <2>1. r.paths = ps /\ r.entered = en /\ r.marks = m
    OBVIOUS
  <2>2. r \in Walks
    <3>1. P \union {"root"} = {"root", "a", "a/d", "a/e", "b"}
      OBVIOUS
    <3> HIDE DEF Marks
    <3>2. r \in [paths : Seq(P), symlinks : Nat, skipped : Nat, entered : SUBSET (P \union {"root"}),
                 marks : SUBSET Marks]
      <4> HIDE DEF P
      <4> QED OBVIOUS
    <3> QED BY <3>1, <3>2, Zenon DEF Walks, Marks
  <2> HIDE DEF r
  <2> QED BY <1>0, <2>1, <2>2, Zenon DEF r
<1> DEFINE out == "stopped" \in s.marks \/ Above(place) \notin s.entered \/ files[place] = "none"
           full == Len(s.paths) >= MaxPaths
           kind == files[place]
           skip == Skip(s)
           link == PassLink(s)
           cut == [kept EXCEPT !.marks = @ \cup {"truncated"}]
           into == [kept EXCEPT !.entered = @ \cup {place}]
           next == Enter(files, kept, place)
<1>v. Visit(files, s, place) =
        IF out THEN s ELSE IF full THEN Stop(s) ELSE IF kind = "unsafe" THEN skip
        ELSE IF kind = "ignored" THEN s ELSE IF kind = "symlink" THEN link ELSE next
  BY DEF Visit
<1>r. s = Walk(s.paths, s.symlinks, s.skipped, s.entered, s.marks)
  BY DEF Walks
<1>1. /\ s.paths \in Seq(P) /\ s.symlinks \in Nat /\ s.skipped \in Nat /\ s.skipped + 1 \in Nat
      /\ s.symlinks + 1 \in Nat
      /\ s.entered \in SUBSET (P \union {"root"}) /\ s.marks \in SUBSET Marks
  BY DEF Walks
<1> DEFINE longer == Append(s.paths, place)
<1>2. longer \in Seq(P) /\ ToSet(longer) = ToSet(s.paths) \union {place}
  <2>1. /\ longer \in Seq(P) /\ Len(longer) = Len(s.paths) + 1 /\ Len(s.paths) \in Nat
        /\ longer[Len(s.paths) + 1] = place /\ \A i \in 1 .. Len(s.paths) : longer[i] = s.paths[i]
    BY <1>1, AppendProperties, LenProperties
  <2>2. DOMAIN longer = 1 .. Len(longer) /\ DOMAIN s.paths = 1 .. Len(s.paths)
    BY <1>1, <2>1, LenProperties
  <2> HIDE DEF longer
  <2>3. \A i \in 1 .. Len(longer) : i \in 1 .. Len(s.paths) \/ i = Len(s.paths) + 1
    BY <2>1
  <2>4. Len(s.paths) + 1 \in 1 .. Len(longer) /\ \A i \in 1 .. Len(s.paths) : i \in 1 .. Len(longer)
    BY <2>1
  <2> QED BY <2>1, <2>2, <2>3, <2>4 DEF ToSet
<1>3. kept = Walk(longer, s.symlinks, s.skipped, s.entered, s.marks)
  <2>1. \A x : [s EXCEPT !.paths = x] = Walk(x, s.symlinks, s.skipped, s.entered, s.marks)
    BY <1>r
  <2> QED BY <2>1, Zenon DEF kept, longer, Keep
<1> HIDE DEF longer, kept, Good, Marks
<1>4. /\ Stop(s) = Walk(s.paths, s.symlinks, s.skipped, s.entered, Marks)
      /\ Stop(kept) = Walk(longer, s.symlinks, s.skipped, s.entered, Marks)
  <2>1. Stop(s) = [s EXCEPT !.marks = Marks] /\ Stop(kept) = [kept EXCEPT !.marks = Marks]
    BY Zenon DEF Stop, Marks
  <2>2. [s EXCEPT !.marks = Marks] = Walk(s.paths, s.symlinks, s.skipped, s.entered, Marks)
    BY <1>r
  <2>3. [kept EXCEPT !.marks = Marks] = Walk(longer, s.symlinks, s.skipped, s.entered, Marks)
    BY <1>3
  <2> QED BY <2>1, <2>2, <2>3
<1> HIDE DEF Walk
<1>5. Good(Stop(s)) /\ Good(Stop(kept))
  <2>1. Fits(s.paths, s.entered, Marks) /\ Fits(longer, s.entered, Marks)
    BY <1>2 DEF Marks
  <2> HIDE DEF Fits
  <2> QED BY <1>0, <1>1, <1>2, <1>4, <2>1
<1>6. CASE out
  <2>1. Fits(s.paths, s.entered, s.marks)
    BY <1>6
  <2> HIDE DEF Fits, out, full, kind, skip, link, next
  <2>2. Good(s)
    BY <1>0, <1>1, <1>r, <2>1
  <2> QED BY <1>v, <1>6, <2>2 DEF Good
<1>7. CASE ~out
  <2>1. CASE full
    <3> HIDE DEF Fits, out, full, kind, skip, link, next
    <3> QED BY <1>v, <1>7, <2>1, <1>5 DEF Good
  <2>f. ASSUME kind \in {"unsafe", "ignored", "symlink"} PROVE Fits(s.paths, s.entered, s.marks)
    BY <2>f
  <2>2. CASE ~full /\ kind = "unsafe"
    <3>1. skip = Walk(s.paths, s.symlinks, s.skipped + 1, s.entered, s.marks)
      BY <1>r DEF Walk, Skip
    <3> HIDE DEF Fits, out, full, kind, skip, link, next
    <3>2. Good(skip)
      BY <1>0, <1>1, <2>f, <2>2, <3>1
    <3> QED BY <1>v, <1>7, <2>2, <3>2 DEF Good
  <2>3. CASE ~full /\ kind = "ignored"
    <3> HIDE DEF Fits, out, full, kind, skip, link, next
    <3>1. Good(s)
      BY <1>0, <1>1, <1>r, <2>f, <2>3
    <3> QED BY <1>v, <1>7, <2>3, <3>1 DEF Good
  <2>4. CASE ~full /\ kind = "symlink"
    <3>1. link = Walk(s.paths, s.symlinks + 1, s.skipped, s.entered, s.marks)
      BY <1>r DEF Walk, PassLink
    <3> HIDE DEF Fits, out, full, kind, skip, link, next
    <3>2. Good(link)
      BY <1>0, <1>1, <2>f, <2>4, <3>1
    <3> QED BY <1>v, <1>7, <2>4, <3>2 DEF Good
  <2>5. CASE ~full /\ kind \notin {"unsafe", "ignored", "symlink"}
    <3> DEFINE deep == s.marks \cup {"truncated"}
               inside == s.entered \cup {place}
    <3>1. cut = Walk(longer, s.symlinks, s.skipped, s.entered, deep)
      BY <1>3 DEF Walk
    <3>2. into = Walk(longer, s.symlinks, s.skipped, inside, s.marks)
      BY <1>3 DEF Walk
    <3>3. /\ deep \in SUBSET Marks /\ inside \in SUBSET (P \union {"root"})
          /\ Fits(longer, s.entered, deep) /\ Fits(longer, inside, s.marks)
          /\ kind # "dir" => Fits(longer, s.entered, s.marks)
      BY <1>1, <1>2 DEF Marks
    <3> HIDE DEF Fits, deep, inside, out, full, kind, skip, link, cut, into
    <3>4. Good(cut)
      BY <1>0, <1>1, <1>2, <3>1, <3>3
    <3>5. Good(into)
      BY <1>0, <1>1, <1>2, <3>2, <3>3
    <3>6. kind # "dir" => Good(kept)
      BY <1>0, <1>1, <1>2, <1>3, <3>3
    <3>7. next = IF kind # "dir" THEN kept ELSE IF DepthOf(place) >= MaxDepth THEN cut
                 ELSE IF Len(kept.paths) >= MaxPaths THEN Stop(kept) ELSE into
      BY DEF Enter, cut, into, kind
    <3> HIDE DEF next
    <3>8. Good(next)
      BY <3>4, <3>5, <3>6, <3>7, <1>5
    <3> QED BY <1>v, <1>7, <2>5, <3>8 DEF Good
  <2> QED BY <2>1, <2>2, <2>3, <2>4, <2>5
<1> QED BY <1>6, <1>7

\* A walk that is not marked truncated saw every file it may look at.
LEMMA WholeWalks ==
  ASSUME NEW files, "truncated" \notin Profiled(files).marks
  PROVE  /\ \A p \in ToSet(Profiled(files).paths) : files[p] = "dir" => p \in Profiled(files).entered
         /\ \A p \in {"a", "a/d", "a/e", "b"} :
              (/\ Above(p) \in {q \in {"a", "b"} : files[q] = "dir"} \cup {"root"}
               /\ files[p] \notin {"none", "unsafe", "ignored", "symlink"})
              => p \in ToSet(Profiled(files).paths)
<1> DEFINE n == NewSnapshot
           a == Visit(files, n, "a")
           d == Visit(files, a, "a/d")
           e == Visit(files, d, "a/e")
           z == Visit(files, e, "b")
<1>1. Profiled(files) = z
  BY Zenon DEF Profiled
<1>2. n \in Walks /\ ("stopped" \in n.marks => "truncated" \in n.marks) /\ ToSet(n.paths) = {} /\ "root" \in n.entered
  BY EmptySeq DEF NewSnapshot, Walks, ToSet
<1> HIDE DEF n
<1> DEFINE Turn(s, r, place) ==
             /\ r \in Walks /\ ("stopped" \in r.marks => "truncated" \in r.marks) /\ ("truncated" \in s.marks => "truncated" \in r.marks)
             /\ ToSet(s.paths) \subseteq ToSet(r.paths) /\ s.entered \subseteq r.entered
             /\ ToSet(r.paths) \subseteq ToSet(s.paths) \union {place}
             /\ "truncated" \notin r.marks =>
                  /\ (place \in ToSet(r.paths) /\ files[place] = "dir") =>
                       place \in r.entered \/ place \in ToSet(s.paths)
                  /\ (/\ Above(place) \in s.entered
                      /\ files[place] \notin {"none", "unsafe", "ignored", "symlink"})
                     => place \in ToSet(r.paths)
<1>3. Turn(n, a, "a")
  BY <1>2, VisitKeeps
<1> HIDE DEF a
<1>4. Turn(a, d, "a/d")
  BY <1>3, VisitKeeps
<1> HIDE DEF d
<1>5. Turn(d, e, "a/e")
  BY <1>4, VisitKeeps
<1> HIDE DEF e
<1>6. Turn(e, z, "b")
  BY <1>5, VisitKeeps
<1> HIDE DEF z
<1>7. "truncated" \notin z.marks /\ "truncated" \notin e.marks /\ "truncated" \notin d.marks /\ "truncated" \notin a.marks
  BY <1>1, <1>3, <1>4, <1>5, <1>6
<1>8. /\ Above("a") = "root" /\ Above("b") = "root" /\ Above("a/d") = "a" /\ Above("a/e") = "a"
  BY DEF Above
<1>9. \A p \in ToSet(z.paths) : files[p] = "dir" => p \in z.entered
  BY <1>2, <1>3, <1>4, <1>5, <1>6, <1>7
<1>10. files["a"] = "dir" => "a" \in ToSet(a.paths) /\ "a" \in a.entered
  BY <1>2, <1>3, <1>7, <1>8
<1>11. files["a"] \notin {"none", "unsafe", "ignored", "symlink"} => "a" \in ToSet(z.paths)
  BY <1>2, <1>3, <1>4, <1>5, <1>6, <1>7, <1>8
<1>12. /\ files["a"] = "dir" /\ files["a/d"] \notin {"none", "unsafe", "ignored", "symlink"} => "a/d" \in ToSet(z.paths)
  BY <1>4, <1>5, <1>6, <1>7, <1>8, <1>10
<1>13. /\ files["a"] = "dir" /\ files["a/e"] \notin {"none", "unsafe", "ignored", "symlink"} => "a/e" \in ToSet(z.paths)
  BY <1>4, <1>5, <1>6, <1>7, <1>8, <1>10
<1>14. files["b"] \notin {"none", "unsafe", "ignored", "symlink"} => "b" \in ToSet(z.paths)
  BY <1>2, <1>3, <1>4, <1>5, <1>6, <1>7, <1>8
<1> HIDE DEF Turn
<1>15. \A p \in {"a", "a/d", "a/e", "b"} :
              (/\ Above(p) \in {q \in {"a", "b"} : files[q] = "dir"} \cup {"root"}
               /\ files[p] \notin {"none", "unsafe", "ignored", "symlink"})
              => p \in ToSet(z.paths)
  BY <1>8, <1>11, <1>12, <1>13, <1>14
<1> QED BY <1>1, <1>9, <1>15

\* The inductive invariant: the plan is honest while it is one, and a bundle
\* is a list of outcomes and counts.
PlannerInv ==
  /\ PlanIsHonest
  /\ planStage = "bundled" =>
       /\ bundle = [lifecycle |-> bundle.lifecycle, commands |-> bundle.commands, patch_hash |-> bundle.patch_hash,
                    ci |-> bundle.ci, receipts |-> bundle.receipts, risks |-> bundle.risks]
       /\ bundle.commands \in Seq(BOOLEAN) /\ bundle.receipts \in Nat

\* It holds at first.
LEMMA PlannerStart == PlannerInit => PlannerInv
BY DEF PlannerInit, PlannerInv, PlanIsHonest

\* Both exports of a bundle, whole or cut.
LEMMA ExportsAgree == PlannerInv => ExportsNeverContradict
<1> SUFFICES ASSUME PlannerInv, planStage = "bundled"
             PROVE  LET json == ExportJson(bundle)
                        body == ToMarkdown(bundle)
                    IN  /\ json.verdict = body.verdict
                        /\ json.verdict = "Sufficient" =>
                             /\ \A i \in DOMAIN bundle.commands : bundle.commands[i]
                             /\ bundle.receipts > 0 /\ bundle.patch_hash # ""
                        /\ json.verdict = "FailedVerifier" =>
                             json.truncated \/ \E i \in DOMAIN json.commands : ~json.commands[i]
                        /\ json.commands # bundle.commands => json.truncated /\ body.moreCommands > 0
  BY DEF ExportsNeverContradict
<1> DEFINE all == bundle.commands
           n == Shown(Len(all))
           cut == SubSeq(all, 1, n)
           verdict == VerdictOf(bundle)
<1>1. /\ ExportJson(bundle).verdict = verdict /\ ToMarkdown(bundle).verdict = verdict
      /\ ExportJson(bundle).commands = cut
      /\ ToMarkdown(bundle).moreCommands = Len(all) - n
      /\ Len(all) > MaxExport => ExportJson(bundle).truncated
  BY DEF ExportJson, ToMarkdown
<1>2. all \in Seq(BOOLEAN) /\ Len(all) \in Nat /\ DOMAIN all = 1 .. Len(all) /\ MaxExport \in Nat
  BY PlannerAssumption, LenProperties DEF PlannerInv
<1>3. Len(all) <= MaxExport => cut = all
  <2>1. Len(all) <= MaxExport => n = Len(all)
    BY <1>2 DEF Shown
  <2> QED BY <2>1, <1>2, SubSeqFull
<1>4. Len(all) > MaxExport => Len(all) - n > 0
  <2>1. Len(all) > MaxExport => n = MaxExport
    BY <1>2, Zenon DEF Shown
  <2> HIDE DEF n, all
  <2> QED BY <2>1, <1>2
<1> HIDE DEF cut, n
<1>5. verdict = "Sufficient" =>
        /\ \A i \in DOMAIN all : all[i]
        /\ bundle.receipts # 0 /\ bundle.patch_hash # ""
  BY DEF VerdictOf
<1>6. verdict = "FailedVerifier" => \E i \in DOMAIN all : ~ all[i]
  BY DEF VerdictOf
<1> HIDE DEF verdict, all
<1>7. bundle.receipts \in Nat
  BY DEF PlannerInv
<1>8. Len(all) <= MaxExport \/ Len(all) > MaxExport
  BY <1>2
<1>9. bundle.commands = all
  BY DEF all
<1>10. verdict = "Sufficient" => bundle.receipts > 0
  <2>1. verdict = "Sufficient" => bundle.receipts # 0
    BY <1>5, Zenon
  <2> QED BY <2>1, <1>7
<1>11. verdict = "FailedVerifier" => ExportJson(bundle).truncated \/ \E i \in DOMAIN cut : ~ cut[i]
  BY <1>1, <1>3, <1>6, <1>8
<1>12. cut # all => ExportJson(bundle).truncated /\ ToMarkdown(bundle).moreCommands > 0
  BY <1>1, <1>3, <1>4, <1>8
<1> QED BY <1>1, <1>5, <1>9, <1>10, <1>11, <1>12, Zenon

\* Planning makes an honest plan.
LEMMA PlanRepoKeeps ==
  ASSUME NEW files, NEW changed, PlanRepo(files, changed)
  PROVE  PlannerInv'
<1> DEFINE s == Profiled(files)
           found == SignalsOf(MarkersIn(files, s))
           signals == WithHints(found, changed)
           shape == ShapeOf(changed)
           built == BuildPlan(profile, signals, shape)
<1>1. /\ snapshot' = [tree |-> files, seen |-> s] /\ planStage' = "planned" /\ profile' = profile
      /\ plan' = [changed |-> changed, signals |-> signals, order |-> CommandOrder(changed, signals),
                  built |-> built]
  BY DEF PlanRepo
<1>2. signals.browser = found.browser /\ signals.audit = found.audit
  BY DEF WithHints, SignalsOf
<1>3. built.strength = "Strong" =>
        /\ profile.verify # << >> /\ built.task = shape
        /\ shape # "DocsOnly" => AnyCommand(built.commands, "full")
        /\ shape = "UiChange" => AnyCommand(built.commands, "browser")
        /\ shape = "DependencyChange" => signals.lockfile /\ AnyCommand(built.commands, "audit")
  BY <1>2, StrongPlans
<1>4. snapshot'.tree = files /\ snapshot'.seen = s /\ plan'.signals = signals /\ plan'.built = built
  BY <1>1
<1> HIDE DEF built, signals
<1>5. plan'.built.strength = "Strong" =>
         /\ profile'.verify # << >>
         /\ plan'.built.task # "DocsOnly" => AnyCommand(plan'.built.commands, "full")
         /\ plan'.built.task = "UiChange" => AnyCommand(plan'.built.commands, "browser")
         /\ plan'.built.task = "DependencyChange" =>
              plan'.signals.lockfile /\ AnyCommand(plan'.built.commands, "audit")
  BY <1>1, <1>3, <1>4
<1>6. "truncated" \notin s.marks =>
        /\ \A p \in ToSet(s.paths) : files[p] = "dir" => p \in s.entered
        /\ \A p \in {"a", "a/d", "a/e", "b"} :
              (/\ Above(p) \in {q \in {"a", "b"} : files[q] = "dir"} \cup {"root"}
               /\ files[p] \notin {"none", "unsafe", "ignored", "symlink"})
              => p \in ToSet(s.paths)
  BY WholeWalks
<1>7. \A i \in DOMAIN Places : Places[i] \in {"a", "a/d", "a/e", "b"}
  BY DEF Places
<1> HIDE DEF s
<1>8. PlanIsHonest'
  BY <1>1, <1>4, <1>5, <1>6, <1>7 DEF PlanIsHonest
<1> QED BY <1>1, <1>8 DEF PlannerInv

\* Every step keeps the invariant.
LEMMA PlannerStep == PlannerInv /\ [PlannerNext]_plannerVars => PlannerInv'
<1> SUFFICES ASSUME PlannerInv, [PlannerNext]_plannerVars PROVE PlannerInv'
  OBVIOUS
<1>1. ASSUME NEW l \in ProfileLines, Parse(l) PROVE PlannerInv'
  <2>1. planStage' \notin {"planned", "bundled"}
    BY <1>1 DEF Parse
  <2> QED BY <2>1 DEF PlannerInv, PlanIsHonest
<1>2. ASSUME EndOfFile PROVE PlannerInv'
  <2>1. planStage' \notin {"planned", "bundled"}
    BY <1>2 DEF EndOfFile
  <2> QED BY <2>1 DEF PlannerInv, PlanIsHonest
<1>3. ASSUME StartBundle PROVE PlannerInv'
  <2>1. planStage' = "bundled" /\ \E n : bundle' = NewBundle(n)
    BY <1>3 DEF StartBundle
  <2>2. PICK n : bundle' = [lifecycle |-> "Planning", commands |-> << >>, patch_hash |-> "",
                            ci |-> "Unknown", receipts |-> 0, risks |-> n]
    BY <2>1 DEF NewBundle
  <2>3. << >> \in Seq(BOOLEAN)
    BY EmptySeq
  <2> QED BY <2>1, <2>2, <2>3 DEF PlannerInv, PlanIsHonest
<1> DEFINE Fields(b) ==
             /\ b = [lifecycle |-> b.lifecycle, commands |-> b.commands, patch_hash |-> b.patch_hash,
                     ci |-> b.ci, receipts |-> b.receipts, risks |-> b.risks]
             /\ b.commands \in Seq(BOOLEAN) /\ b.receipts \in Nat
<1>4. ASSUME NEW b, planStage = "bundled", Bundle(b), Fields(b) PROVE PlannerInv'
  <2>1. planStage' = "bundled" /\ bundle' = b
    BY <1>4 DEF Bundle
  <2> QED BY <1>4, <2>1 DEF PlannerInv, PlanIsHonest
<1>5. planStage = "bundled" => Fields(bundle)
  BY DEF PlannerInv
<1>6. ASSUME NEW passed \in BOOLEAN, RecordCommand(passed) PROVE PlannerInv'
  <2> DEFINE longer == Append(bundle.commands, passed)
             ran == [bundle EXCEPT !.commands = longer]
             b == [ran EXCEPT !.lifecycle = "Verifying"]
  <2>1. planStage = "bundled" /\ Bundle(b)
    BY <1>6, Zenon DEF RecordCommand
  <2>2. longer \in Seq(BOOLEAN)
    BY <1>5, <2>1, AppendProperties
  <2> HIDE DEF longer
  <2>3. b = [lifecycle |-> "Verifying", commands |-> longer, patch_hash |-> bundle.patch_hash,
             ci |-> bundle.ci, receipts |-> bundle.receipts, risks |-> bundle.risks]
    <3>1. ran = [lifecycle |-> bundle.lifecycle, commands |-> longer, patch_hash |-> bundle.patch_hash,
                 ci |-> bundle.ci, receipts |-> bundle.receipts, risks |-> bundle.risks]
      BY <1>5, <2>1
    <3> HIDE DEF ran
    <3> QED BY <3>1
  <2> HIDE DEF b
  <2>4. Fields(b)
    BY <1>5, <2>1, <2>2, <2>3
  <2> QED BY <1>4, <2>1, <2>4
<1>7. ASSUME RecordPatch PROVE PlannerInv'
  <2> DEFINE b == [bundle EXCEPT !.patch_hash = "hash"]
  <2>1. planStage = "bundled" /\ Bundle(b)
    BY <1>7 DEF RecordPatch
  <2>2. b = [lifecycle |-> bundle.lifecycle, commands |-> bundle.commands, patch_hash |-> "hash",
             ci |-> bundle.ci, receipts |-> bundle.receipts, risks |-> bundle.risks]
    BY <1>5, <2>1
  <2> HIDE DEF b
  <2>4. Fields(b)
    BY <1>5, <2>1, <2>2
  <2> QED BY <1>4, <2>1, <2>4
<1>8. ASSUME RecordReceipt PROVE PlannerInv'
  <2> DEFINE b == [bundle EXCEPT !.receipts = @ + 1]
  <2>1. planStage = "bundled" /\ Bundle(b)
    BY <1>8 DEF RecordReceipt
  <2>2. b = [lifecycle |-> bundle.lifecycle, commands |-> bundle.commands, patch_hash |-> bundle.patch_hash,
             ci |-> bundle.ci, receipts |-> bundle.receipts + 1, risks |-> bundle.risks]
    BY <1>5, <2>1
  <2> HIDE DEF b
  <2>4. Fields(b)
    BY <1>5, <2>1, <2>2
  <2> QED BY <1>4, <2>1, <2>4
<1>9. ASSUME NEW ci, RecordCi(ci) PROVE PlannerInv'
  <2> DEFINE b == [bundle EXCEPT !.ci = ci]
  <2>1. planStage = "bundled" /\ Bundle(b)
    BY <1>9 DEF RecordCi
  <2>2. b = [lifecycle |-> bundle.lifecycle, commands |-> bundle.commands, patch_hash |-> bundle.patch_hash,
             ci |-> ci, receipts |-> bundle.receipts, risks |-> bundle.risks]
    BY <1>5, <2>1
  <2> HIDE DEF b
  <2>4. Fields(b)
    BY <1>5, <2>1, <2>2
  <2> QED BY <1>4, <2>1, <2>4
<1>10. ASSUME Block PROVE PlannerInv'
  <2> DEFINE b == [bundle EXCEPT !.lifecycle = "Blocked"]
  <2>1. planStage = "bundled" /\ Bundle(b)
    BY <1>10 DEF Block
  <2>2. b = [lifecycle |-> "Blocked", commands |-> bundle.commands, patch_hash |-> bundle.patch_hash,
             ci |-> bundle.ci, receipts |-> bundle.receipts, risks |-> bundle.risks]
    BY <1>5, <2>1
  <2> HIDE DEF b
  <2>4. Fields(b)
    BY <1>5, <2>1, <2>2
  <2> QED BY <1>4, <2>1, <2>4
<1>11. CASE UNCHANGED plannerVars
  BY <1>11 DEF plannerVars, PlannerInv, PlanIsHonest
<1> HIDE DEF Fields
<1> QED
  BY <1>1, <1>2, <1>3, <1>6, <1>7, <1>8, <1>9, <1>10, <1>11, PlanRepoKeeps DEF PlannerNext

\* For any bounds of the walk and of the exports: a plan called strong has the
\* commands its shape of task needs (VerifierPlan::build), a walk that is not
\* marked truncated saw every file it may look at (profile_dir), and both
\* exports carry the verdict of the whole bundle (export_json, to_markdown).
THEOREM PlansAreHonest == PlannerSpec => []PlannerIsHonest
<1>1. PlannerInv => PlannerIsHonest
  BY ExportsAgree DEF PlannerIsHonest, PlannerInv
<1> QED BY <1>1, PlannerStart, PlannerStep, PTL DEF PlannerSpec
=============================================================================
